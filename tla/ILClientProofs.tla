--------------------------- MODULE ILClientProofs ---------------------------
(***************************************************************************)
(* The proofs of ILClient: types, the records of the event lists, and the  *)
(* wake-ups, for any number of calls, faults, buffers and events.          *)
(*                                                                         *)
(* A call of the library is the list of instructions it has yet to         *)
(* execute, so an invariant has to hold in the middle of every call.       *)
(* Instead of describing the middles it follows the calls: a set of pairs  *)
(* of an abstract state and a rest is sealed when every step from one of   *)
(* its pairs leads to another of them, and what a sealed set contains is   *)
(* found by rules, one for each way in which scripts are put together      *)
(* (Sequence, Finish, Instruction).  An abstract state says what a call    *)
(* knows: which command each component has yet to answer, what state it    *)
(* left the components in, whether it still makes a claim at all.          *)
(*                                                                         *)
(* Loose scripts are those about which nothing is claimed but that their   *)
(* instructions are well formed: types need no more.  Awake scripts are    *)
(* those that look at what they wait for before they sleep.                *)
(***************************************************************************)
EXTENDS ILClient, SequenceTheorems, FiniteSetTheorems, WellFoundedInduction, TLAPS

USE ClientAssumption

-----------------------------------------------------------------------------
(* Induction                                                               *)

\* Induction over a set: the form of it that needs no operator as a parameter.
LEMMA SetInduction ==
  ASSUME NEW T, 0 \in T, \A n \in Nat : n \in T => n + 1 \in T
  PROVE  Nat \subseteq T
<1> DEFINE U == {n \in Nat : n \notin T}
<1>1. SUFFICES ASSUME U # {} PROVE FALSE
  OBVIOUS
<1>2. PICK x \in U : \A y \in U : ~ (<<y, x>> \in OpToRel(<, Nat))
  <2>1. U \subseteq Nat
    OBVIOUS
  <2> HIDE DEF U
  <2>2. QED
    BY Zenon, <1>1, <2>1, WFMin, NatLessThanWellFounded
<1>3. \A y \in U : ~ (y < x)
  BY Zenon, <1>2 DEF OpToRel
<1>4. x \in Nat /\ x # 0
  OBVIOUS
<1>5. x - 1 \in Nat /\ x - 1 < x
  BY <1>4
<1>6. x - 1 \in T
  BY <1>3, <1>5
<1>7. x \in T
  BY <1>4, <1>5, <1>6
<1>8. QED
  BY <1>7

\* Max() of the library, which FoldLeft() takes its indices by.
LEMMA MaxOfIndices ==
  ASSUME NEW k \in Nat, NEW x \in SUBSET (1 .. k), x # {}
  PROVE  Max(x) \in x /\ \A y \in x : y <= Max(x)
<1> DEFINE T == {n \in Nat : \A z \in SUBSET (1 .. n) : z # {} => \E m \in z : \A y \in z : m >= y}
<1>1. 0 \in T
  <2>1. \A z \in SUBSET (1 .. 0) : z = {}
    OBVIOUS
  <2>2. QED
    BY Zenon, <2>1
<1>2. ASSUME NEW n \in Nat, n \in T PROVE n + 1 \in T
  <2>1. SUFFICES ASSUME NEW z \in SUBSET (1 .. n + 1), z # {}
                 PROVE  \E m \in z : \A y \in z : m >= y
    OBVIOUS
  <2>2. CASE n + 1 \in z
    BY <2>2
  <2>3. CASE n + 1 \notin z
    <3>1. z \in SUBSET (1 .. n)
      BY <2>3
    <3>2. QED
      BY <1>2, <2>1, <3>1
  <2>4. QED
    BY <2>2, <2>3
<1>3. k \in T
  <2> HIDE DEF T
  <2>1. QED
    BY <1>1, <1>2, SetInduction
<1>4. PICK m \in x : \A y \in x : m >= y
  BY <1>3
<1>5. Max(x) \in x /\ \A y \in x : Max(x) >= y
  BY Zenon, <1>4 DEF Max
<1>6. QED
  BY <1>5

-----------------------------------------------------------------------------
(* What an instruction may do with the rest of a call                      *)

States == {"None", "Loaded", "Idle", "Executing"}
KnownCommand(c, cmd, arg) ==
  \/ cmd = "StateSet" /\ arg \in {"Loaded", "Idle", "Executing"}
  \/ cmd \in {"PortEnable", "PortDisable", "Flush"} /\ arg \in PortsOf(c)
Commands == {"StateSet", "PortEnable", "PortDisable", "Flush"}
Arguments == {"Loaded", "Idle", "Executing", "in", "out", "render"}
CommandsOf(c) == {k \in Commands \X Arguments \X BOOLEAN : KnownCommand(c, k[1], k[2])}
Events == {Done(cmd, arg) : cmd \in Commands, arg \in Arguments}
            \cup {Error(code, "command") : code \in {"SameState", "IncorrectStateTransition",
                                                     "InsufficientResources"}}
            \cup Unsolicited

Turned(i, op) == [i EXCEPT !.op = op]
Waiting == {"await", "sleep"}
EventOps == {"event", "eventErrors", "eventLast", "eventSleep"}
Draining == {"drain", "freeBuffers", "drainSleep"}
Getting == {"getBuffer", "getSleep"}
Plain == {"disconnect", "connect", "streams", "configure", "getHandle", "queue", "emptyBuffer", "readIntoBuffer"}

AwaitShape(i) == i = [op |-> i.op, c |-> i.c, cmd |-> i.cmd, arg |-> i.arg, other |-> i.other,
                      onFail |-> i.onFail, onOther |-> i.onOther]
EventShape(i) == i = [op |-> i.op, c |-> i.c, event |-> i.event, flags |-> i.flags,
                      timed |-> i.timed, onFail |-> i.onFail]

DrainShape(i) == i = [op |-> i.op, num |-> i.num]
GetShape(i) == i = [op |-> i.op]
Counted(i) == [i EXCEPT !.num = @ - 1]

\* An instruction with the fields that its step reads.
Typed(i) ==
  \/ i.op = "command" /\ i.c \in Components /\ KnownCommand(i.c, i.cmd, i.arg)
  \/ /\ i.op \in Waiting /\ i.c \in Components /\ KnownCommand(i.c, i.cmd, i.arg)
     /\ i.cmd # "Flush" /\ i.other \in Components \cup {NoOne} /\ i.other # i.c /\ AwaitShape(i)
  \/ /\ i.op \in EventOps /\ i.c \in Components /\ i.timed \in BOOLEAN
     /\ FlagsOf(i.event) \cap i.flags # {} /\ EventShape(i)
  \/ i.op = "remove" /\ i.c \in Components /\ i.all \in BOOLEAN
  \/ i.op = "return" /\ i.value \in Int
  \/ i.op = "if" /\ i.condition \in {"sink Loaded", "source Loaded", "in enabled", "in may be enabled"}
  \/ i.op = "mask" /\ i.on \in BOOLEAN
  \/ i.op \in {"clear", "free"} /\ i.c \in Components
  \/ i.op = "use" /\ i.b \in Buffers
  \/ i.op \in Draining /\ i.num \in Int /\ DrainShape(i)
  \/ i.op \in Getting /\ GetShape(i)
  \/ i.op \in Plain

\* What may come before the rest of the call after a step of instruction i ...
Continues(i, p) ==
  \/ i.op # "return" /\ i.op \notin {"sleep", "eventErrors", "eventSleep", "if", "drain", "freeBuffers", "getSleep"}
       /\ p = <<>>
  \/ i.op = "await" /\ p = <<Turned(i, "sleep")>>
  \/ i.op = "sleep" /\ p = <<Turned(i, "await")>>
  \/ i.op = "event" /\ p = <<Turned(i, "eventErrors")>>
  \/ i.op = "eventErrors" /\ p \in {<<Turned(i, "eventLast")>>, <<Turned(i, "eventSleep")>>}
  \/ i.op = "eventSleep" /\ p \in {<<Turned(i, "eventLast")>>, <<Turned(i, "event")>>}
  \/ i.op = "if" /\ p \in {i.yes, i.no}
  \/ i.op = "drain" /\ p \in {Await("source", "PortDisable", "in", FailAssert), <<Turned(i, "freeBuffers")>>}
  \/ i.op = "freeBuffers" /\ p \in {<<Counted(i)>>, <<Turned(i, "drainSleep")>>, <<Turned(i, "drain")>>}
  \/ i.op = "drainSleep" /\ p = <<Turned(i, "drain")>>
  \/ i.op = "getBuffer" /\ p = <<Turned(i, "getSleep")>>
  \/ i.op = "getSleep" /\ p = <<Turned(i, "getBuffer")>>

\* ... and what may replace the rest of the call.
Escapes(i, p) ==
  \/ i.op = "await" /\ (p = i.onFail \/ (i.other # NoOne /\ p = i.onOther))
  \/ i.op \in EventOps /\ IF i.onFail = <<>> THEN \E v \in {-1, -2, -3} : p = Return(v) ELSE p = i.onFail
  \/ i.op = "if" /\ i.condition = "in may be enabled" /\ p = i.no
  \/ i.op = "streams" /\ \E v \in {-3, -4} : p = Return(v)
  \/ i.op \in {"connect", "configure", "getHandle", "use"} /\ p = i.onFail

-----------------------------------------------------------------------------
Followed ==
  \/ \E p : Continues(Now, p) /\ todo' = p \o Rest
  \/ \E p : Escapes(Now, p) /\ todo' = p
  \/ Now.op = "return" /\ todo' = <<>>

\* A step of a call goes on with the rest of the call as Continues() and Escapes() say, but
\* for the loop of ReadIntoBufferAndEmpty(), which stays where it is.
LEMMA StepFollows ==
  ASSUME NEW S, todo \in Seq(S), Run, ~RunReadIntoBufferAndEmpty, Typed(Now)
  PROVE  Followed
<1>1. todo # <<>>
  BY DEF Run, At, RunCommand, RunAwait, Sleep, RunEvent, RunEventErrors, RunEventLast, EventSleep, RunRemove, RunIf, RunMask, RunReturn, RunExternal, RunGetHandle, RunFree, RunUse, RunQueue, RunDrain, RunFreeBuffers, DrainSleep, RunGetBuffer, GetSleep, RunEmptyBuffer, RunReadIntoBufferAndEmpty
<1>2. Rest \in Seq(S) /\ <<>> \o Rest = Rest
  BY <1>1, HeadTailProperties, ConcatEmptySeq DEF Rest
<1>3. CASE RunCommand
  BY <1>2, <1>3 DEF RunCommand, At, Now, Rest, Turns, Turned, Fails, Followed, Continues, Escapes, EventOps
<1>4. CASE RunAwait
  BY <1>2, <1>4 DEF RunAwait, At, Now, Rest, Turns, Turned, Fails, Followed, Continues, Escapes, EventOps
<1>5. CASE Sleep
  BY <1>2, <1>5 DEF Sleep, At, Now, Rest, Turns, Turned, Fails, Followed, Continues, Escapes, EventOps
<1>6. CASE RunEvent
  BY <1>2, <1>6 DEF RunEvent, At, Now, Rest, Turns, Turned, Fails, Followed, Continues, Escapes, EventOps
<1>7. CASE RunEventErrors
  BY <1>2, <1>7 DEF RunEventErrors, At, Now, Rest, Turns, Turned, Fails, Followed, Continues, Escapes, EventOps
<1>8. CASE RunEventLast
  BY <1>2, <1>8 DEF RunEventLast, At, Now, Rest, Turns, Turned, Fails, Followed, Continues, Escapes, EventOps
<1>9. CASE EventSleep
  BY <1>2, <1>9 DEF EventSleep, At, Now, Rest, Turns, Turned, Fails, Followed, Continues, Escapes, EventOps
<1>10. CASE RunRemove
  BY <1>2, <1>10 DEF RunRemove, At, Now, Rest, Turns, Turned, Fails, Followed, Continues, Escapes, EventOps
<1>11. CASE RunIf
  BY <1>2, <1>11 DEF RunIf, At, Now, Rest, Turns, Turned, Fails, Followed, Continues, Escapes, EventOps
<1>12. CASE RunMask
  BY <1>2, <1>12 DEF RunMask, At, Now, Rest, Turns, Turned, Fails, Followed, Continues, Escapes, EventOps
<1>13. CASE RunReturn
  BY <1>2, <1>13 DEF RunReturn, At, Now, Rest, Turns, Turned, Fails, Followed, Continues, Escapes, EventOps
<1>14. CASE RunExternal
  BY <1>2, <1>14 DEF RunExternal, At, Now, Rest, Turns, Turned, Fails, Followed, Continues, Escapes, EventOps
<1>15. CASE RunGetHandle
  BY <1>2, <1>15 DEF RunGetHandle, At, Now, Rest, Turns, Turned, Fails, Followed, Continues, Escapes, EventOps
<1>16. CASE RunFree
  BY <1>2, <1>16 DEF RunFree, At, Now, Rest, Turns, Turned, Fails, Followed, Continues, Escapes, EventOps
<1>17. CASE RunUse
  BY <1>2, <1>17 DEF RunUse, At, Now, Rest, Turns, Turned, Fails, Followed, Continues, Escapes, EventOps
<1>18. CASE RunQueue
  BY <1>2, <1>18 DEF RunQueue, At, Now, Rest, Turns, Turned, Fails, Followed, Continues, Escapes, EventOps
<1>19. CASE RunDrain
  BY <1>2, <1>19 DEF RunDrain, At, Now, Rest, Turns, Turned, Fails, Followed, Continues, Escapes, EventOps
<1>20. CASE RunFreeBuffers
  BY <1>2, <1>20 DEF RunFreeBuffers, At, Now, Rest, Turns, Turned, Counted, Fails, Followed, Continues, Escapes, EventOps
<1>21. CASE DrainSleep
  BY <1>2, <1>21 DEF DrainSleep, At, Now, Rest, Turns, Turned, Fails, Followed, Continues, Escapes, EventOps
<1>22. CASE RunGetBuffer
  BY <1>2, <1>22 DEF RunGetBuffer, At, Now, Rest, Turns, Turned, Fails, Followed, Continues, Escapes, EventOps
<1>23. CASE GetSleep
  BY <1>2, <1>23 DEF GetSleep, At, Now, Rest, Turns, Turned, Fails, Followed, Continues, Escapes, EventOps
<1>24. CASE RunEmptyBuffer
  BY <1>2, <1>24 DEF RunEmptyBuffer, At, Now, Rest, Turns, Turned, Fails, Followed, Continues, Escapes, EventOps
<1>25. QED
  BY <1>3, <1>4, <1>5, <1>6, <1>7, <1>8, <1>9, <1>10, <1>11, <1>12, <1>13, <1>14, <1>15, <1>16, <1>17, <1>18, <1>19, <1>20, <1>21, <1>22, <1>23, <1>24 DEF Run
-----------------------------------------------------------------------------
(* The abstract state a call is followed with                              *)

AbsState == [mode : {"normal", "giveUp", "lost"},
             out : [Components -> SUBSET (Commands \X Arguments \X BOOLEAN)],
             state : [Components -> States],
             enabled : [Ports -> BOOLEAN],
             connected : BOOLEAN,
             calm : BOOLEAN,
             refused : Components \cup {NoOne},
             allocated : SUBSET Buffers,
             idle : BOOLEAN]

\* Command i is sent; it is answered as it should be; it is refused.
Sent(a, c, cmd, arg) ==
  LET port == cmd \in {"PortEnable", "PortDisable"}
  IN [a EXCEPT !.out = [@ EXCEPT ![c] = {<<cmd, arg, IF port THEN a.enabled[arg] = (cmd = "PortEnable") ELSE FALSE>>}],
               !.enabled = IF port THEN [@ EXCEPT ![arg] = (cmd = "PortEnable")] ELSE @]
Settled(a, c, cmd, arg) ==
  [a EXCEPT !.out = [@ EXCEPT ![c] = {}],
            !.state = IF cmd = "StateSet" THEN [@ EXCEPT ![c] = arg] ELSE @]
Withdrawn(a, c) == [a EXCEPT !.out = [@ EXCEPT ![c] = {}]]
Refused(a, c, cmd, arg) ==
  [a EXCEPT !.out = [@ EXCEPT ![c] = {}], !.calm = TRUE, !.refused = NoOne,
            !.enabled = IF cmd = "PortEnable" THEN [@ EXCEPT ![arg] = FALSE] ELSE @]
Calmed(a) == [a EXCEPT !.calm = TRUE]

IsAnswer(e) == e[1] = "CmdComplete"
Condition(a, condition) ==
  \/ condition = "sink Loaded" /\ a.state["sink"] = "Loaded"
  \/ condition = "source Loaded" /\ a.state["source"] = "Loaded"
  \/ condition = "in enabled" /\ a.enabled["in"]
  \/ condition = "in may be enabled" /\ ~a.enabled["in"] /\ a.state["source"] \in {"Idle", "Executing"}

AtRest(a) ==
  /\ \A c \in Components : a.out[c] = {}
  /\ a.refused = NoOne
  /\ a.idle
  /\ a.allocated = IF a.enabled["in"] THEN Buffers ELSE {}

Reported(f, v, a) ==
  v = 0 =>
    /\ f \in {"setup_tunnel", "enable_tunnel"} =>
         a.connected /\ a.enabled["out"] /\ a.enabled["render"] /\ a.state["source"] # "Loaded"
    /\ f = "disable_tunnel" => ~a.enabled["out"] /\ ~a.enabled["render"]
    /\ f \in {"Loaded", "Idle", "Executing"} => \A c \in Components : a.state[c] = f
    /\ f = "enable_port_buffers" => a.enabled["in"]
    /\ f = "disable_port_buffers" => ~a.enabled["in"]
    /\ f = "open" => a.state["source"] = "Executing" /\ a.enabled["in"]

Fallible(f, k) == k[1] \in {"StateSet", "PortEnable"} /\ ~k[3] /\ f \notin {"Loaded", "Idle", "Executing"}

LegalNormal(f, a, i) ==
  /\ i.op = "command" => a.out[i.c] = {}
  /\ i.op \in Waiting =>
       /\ \E flag \in BOOLEAN : a.out[i.c] = {<<i.cmd, i.arg, flag>>}
       /\ i.other # NoOne => a.refused = NoOne /\ \E p \in Ports : a.out[i.other] = {<<"PortEnable", p, FALSE>>}
       /\ a.refused \in {NoOne, i.c}
  /\ i.op \in EventOps =>
       IF IsAnswer(i.event)
       THEN /\ i.event = Done("Flush", i.event[3])
            /\ a.out[i.c] = {<<"Flush", i.event[3], FALSE>>}
            /\ a.refused = NoOne /\ i.op # "eventLast"
            /\ {"ERROR", "CONFIG_CHANGED"} \cap i.flags = {} /\ ~i.timed
       ELSE ~EndsCommand(i.event)
  /\ i.op = "remove" => a.out[i.c] = {}
  /\ i.op = "return" =>
       i.value # Aborted /\ (EnablingFailed(f, i.value) \/ (AtRest(a) /\ Reported(f, i.value, a)))
  /\ i.op = "if" => IF i.condition = "sink Loaded" THEN \A k \in a.out["sink"] : k[1] # "StateSet"
                                                  ELSE a.out["source"] = {}
  /\ i.op = "getHandle" => \A c \in Components : a.out[c] = {}
  /\ i.op = "free" => a.out[i.c] = {} /\ a.idle
  /\ i.op = "use" => i.b \notin a.allocated /\ \A k \in a.out["source"] : k[1] # "PortDisable"
  /\ i.op \in Getting \cup {"drain"} => a.idle
  /\ i.op = "drainSleep" => a.out["source"] = {<<"PortDisable", "in", FALSE>>} /\ a.allocated # {}

LegalGivingUp(f, i) ==
  /\ i.op \in {"command", "remove", "return", "if", "disconnect", "queue", "mask", "clear"}
                \cup Waiting \cup EventOps \cup Draining
  /\ i.op = "command" => i.cmd = "PortDisable"
  /\ i.op \in Waiting => i.other = NoOne
  /\ i.op = "return" => EnablingFailed(f, i.value)

Legal(f, a, i) ==
  /\ Typed(i)
  /\ a.mode = "normal" => LegalNormal(f, a, i)
  /\ a.mode = "giveUp" => LegalGivingUp(f, i)

\* The abstract state after a step that goes on with p ...
After(a, i, b, p) ==
  \/ i.op \in {"remove", "mask", "clear", "streams", "configure", "sleep", "getSleep"} /\ b = a
  \/ i.op = "command" /\ b = Sent(a, i.c, i.cmd, i.arg)
  \/ /\ i.op = "await" /\ p = <<>> /\ a.refused # i.c
     /\ i.cmd = "StateSet" => Adjacent(a.state[i.c], i.arg)
     /\ b = Settled(a, i.c, i.cmd, i.arg)
  \/ i.op = "await" /\ p = <<Turned(i, "sleep")>> /\ b = a
  \/ i.op \in EventOps /\ p = <<>> /\ b = IF IsAnswer(i.event) THEN Withdrawn(a, i.c) ELSE a
  \/ /\ i.op \in EventOps /\ b = a
     /\ \/ \E op \in EventOps \ {"eventLast"} : p = <<Turned(i, op)>>
        \/ p = <<Turned(i, "eventLast")>> /\ "CONFIG_CHANGED" \in i.flags
  \/ i.op = "if" /\ Condition(a, i.condition) /\ p = i.yes /\ b = a
  \/ i.op = "if" /\ ~Condition(a, i.condition) /\ i.condition # "in may be enabled" /\ p = i.no /\ b = a
  \/ i.op \in {"connect", "disconnect"} /\ b = [a EXCEPT !.connected = (i.op = "connect")]
  \/ i.op = "getHandle" /\ b = [a EXCEPT !.state = [@ EXCEPT !["source"] = "Loaded"],
                                         !.enabled = [p1 \in Ports |-> Owner(p1) = "source"]]
  \/ i.op = "free" /\ b = [a EXCEPT !.state = [@ EXCEPT ![i.c] = "None"],
                                    !.allocated = IF i.c = "source" THEN {} ELSE @]
  \/ i.op = "use" /\ b = [a EXCEPT !.allocated = @ \cup {i.b}, !.idle = FALSE]
  \/ i.op \in {"queue", "emptyBuffer"} /\ b = [a EXCEPT !.idle = TRUE]
  \/ i.op = "drain" /\ i.num <= 0 /\ p = Await("source", "PortDisable", "in", FailAssert) /\ b = a
  \/ i.op = "drain" /\ i.num > 0 /\ p = <<Turned(i, "freeBuffers")>> /\ b = [a EXCEPT !.idle = FALSE]
  \/ /\ i.op = "freeBuffers" /\ p = <<Counted(i)>>
     /\ \E x \in a.allocated : b = [a EXCEPT !.allocated = @ \ {x}]
  \/ /\ i.op = "freeBuffers" /\ p = <<Turned(i, IF i.num > 0 THEN "drainSleep" ELSE "drain")>>
     /\ b = [a EXCEPT !.idle = TRUE]
  \/ i.op = "drainSleep" /\ p = <<Turned(i, "drain")>> /\ b = a
  \/ i.op = "getBuffer" /\ p = <<>> /\ b = [a EXCEPT !.idle = FALSE]
  \/ i.op = "getBuffer" /\ p = <<Turned(i, "getSleep")>> /\ b = a

\* ... and after one that replaces the rest by p.
Diverted(f, a, i, b, p) ==
  \/ /\ i.op = "await" /\ p = i.onFail
     /\ \/ i.cmd = "StateSet" /\ ~Adjacent(a.state[i.c], i.arg) /\ b = Withdrawn(a, i.c)
        \/ /\ a.refused = i.c \/ (~a.calm /\ \E k \in a.out[i.c] : Fallible(f, k))
           /\ b = Refused(a, i.c, i.cmd, i.arg)
  \/ i.op = "await" /\ i.other # NoOne /\ p = i.onOther /\ ~a.calm
       /\ b = [a EXCEPT !.calm = TRUE, !.refused = i.other]
  \/ i.op \in EventOps /\ ~IsAnswer(i.event) /\ b = a
  \/ i.op = "if" /\ ~Condition(a, i.condition) /\ b = a
  \/ i.op \in {"streams", "connect", "configure", "getHandle", "use"} /\ ~a.calm /\ b = Calmed(a)

Falls(f, a, i, b, p) == Continues(i, p) /\ IF a.mode = "normal" THEN After(a, i, b, p) ELSE b = a
Jumps(f, a, i, b, p) ==
  /\ Escapes(i, p)
  /\ a.mode = "normal" => Diverted(f, a, i, b, p)
  /\ a.mode # "normal" => b = a
  /\ a.mode = "giveUp" => i.op # "await"

\* From a on, no answer can be more than "the state is the same".
Benign(a) ==
  /\ a.mode = "normal" /\ a.calm /\ a.refused = NoOne
  /\ \A c \in Components : \A k \in a.out[c] :
       k[1] = "StateSet" => c = "sink" /\ k[2] = "Idle" /\ a.state["sink"] \in {"Loaded", "Idle"}
GivenUp(a) == [a EXCEPT !.mode = "giveUp"]

-----------------------------------------------------------------------------
(* Calls are followed step by step: V holds what a script may come to      *)
(* before it falls through, W what it leaves for.                          *)

Goes(f, a, u, V, W, I) ==
  /\ Legal(f, a, Head(u))
  /\ \A b, p : Falls(f, a, Head(u), b, p) => p \in Seq(I) /\ <<b, p \o Tail(u)>> \in V
  /\ \A b, p : Jumps(f, a, Head(u), b, p) => <<b, p>> \in W
Proceeds(f, a, u, V, W, I) ==
  Goes(f, a, u, V, W, I) \/ (Benign(a) /\ <<GivenUp(a), u>> \in V)

Sealed(f, W, I) ==
  /\ W \subseteq AbsState \X Seq(I)
  /\ \A a, u : <<a, u>> \in W => u # <<>> /\ Proceeds(f, a, u, W, W, I)
Flows(f, V, W, I) ==
  /\ Sealed(f, W, I)
  /\ V \subseteq AbsState \X Seq(I)
  /\ \A a, u : <<a, u>> \in V /\ u # <<>> => Proceeds(f, a, u, V, W, I)

\* From the states P, script s falls through in the states Q or not at all; it ends.
Leads(f, P, s, Q) ==
  \E I, V, W : /\ Flows(f, V, W, I)
               /\ \A a \in P : <<a, s>> \in V
               /\ \A a : <<a, <<>>>> \in V => a \in Q
Ends(f, P, s) == \E I, W : Sealed(f, W, I) /\ \A a \in P : <<a, s>> \in W
\* Wherever the call is in E, it ends.
Safe(f, E) == \E I, W : Sealed(f, W, I) /\ E \subseteq W

\* A step into smaller sets is one into larger ones.
LEMMA ProceedsMore ==
  ASSUME NEW f, NEW a, NEW u, NEW V, NEW W, NEW I, NEW X, NEW Y, NEW J,
         V \subseteq X, W \subseteq Y, I \subseteq J, Proceeds(f, a, u, V, W, I)
  PROVE  Proceeds(f, a, u, X, Y, J)
<1>1. Seq(I) \subseteq Seq(J)
  BY SeqMonotonic
<1>2. QED
  BY Zenon, <1>1 DEF Proceeds, Goes

\* Two sealed sets of states together are sealed.
LEMMA SealedUnion ==
  ASSUME NEW f, NEW W, NEW I, NEW X, NEW J, Sealed(f, W, I), Sealed(f, X, J)
  PROVE  Sealed(f, W \cup X, I \cup J)
<1>1. Seq(I) \subseteq Seq(I \cup J) /\ Seq(J) \subseteq Seq(I \cup J)
  BY SeqMonotonic
<1>2. W \cup X \subseteq AbsState \X Seq(I \cup J)
  BY <1>1 DEF Sealed
<1>3. ASSUME NEW a, NEW u, <<a, u>> \in W \cup X
      PROVE  u # <<>> /\ Proceeds(f, a, u, W \cup X, W \cup X, I \cup J)
  <2>1. CASE <<a, u>> \in W
    <3>1. u # <<>> /\ Proceeds(f, a, u, W, W, I)
      BY Zenon, <2>1 DEF Sealed
    <3>2. QED
      BY <3>1, ProceedsMore
  <2>2. CASE <<a, u>> \in X
    <3>1. u # <<>> /\ Proceeds(f, a, u, X, X, J)
      BY Zenon, <2>2 DEF Sealed
    <3>2. QED
      BY <3>1, ProceedsMore
  <2>3. QED
    BY <1>3, <2>1, <2>2
<1>4. QED
  BY Zenon, <1>2, <1>3 DEF Sealed

\* A script that never falls through ends.
LEMMA Finish ==
  ASSUME NEW f, NEW P, NEW s, Leads(f, P, s, {})
  PROVE  Ends(f, P, s)
<1>1. PICK I, V, W : /\ Flows(f, V, W, I)
                     /\ \A a \in P : <<a, s>> \in V
                     /\ \A a : <<a, <<>>>> \in V => a \in {}
  BY Zenon DEF Leads
<1>2. \A a, u : <<a, u>> \in V => u # <<>>
  BY <1>1
<1>3. V \cup W \subseteq AbsState \X Seq(I)
  BY <1>1 DEF Flows, Sealed
<1>4. ASSUME NEW a, NEW u, <<a, u>> \in V \cup W
      PROVE  u # <<>> /\ Proceeds(f, a, u, V \cup W, V \cup W, I)
  <2>1. CASE <<a, u>> \in V
    <3>1. u # <<>> /\ Proceeds(f, a, u, V, W, I)
      BY Zenon, <1>1, <1>2, <2>1 DEF Flows
    <3>2. QED
      BY <3>1, ProceedsMore
  <2>2. CASE <<a, u>> \in W
    <3>1. u # <<>> /\ Proceeds(f, a, u, W, W, I)
      BY Zenon, <1>1, <2>2 DEF Flows, Sealed
    <3>2. QED
      BY <3>1, ProceedsMore
  <2>3. QED
    BY <1>4, <2>1, <2>2
<1>5. Sealed(f, V \cup W, I)
  BY Zenon, <1>3, <1>4 DEF Sealed
<1>6. \A a \in P : <<a, s>> \in V \cup W
  BY <1>1
<1>7. QED
  BY Zenon, <1>5, <1>6 DEF Ends

\* The first instruction of a concatenation is that of its first part.
LEMMA HeadTailOfConcat ==
  ASSUME NEW S, NEW u \in Seq(S), NEW t \in Seq(S), u # <<>>
  PROVE  u \o t # <<>> /\ Head(u \o t) = Head(u) /\ Tail(u \o t) = Tail(u) \o t
<1>1. /\ u \o t \in Seq(S) /\ Len(u \o t) = Len(u) + Len(t)
      /\ \A i \in 1 .. Len(u) + Len(t) : (u \o t)[i] = IF i <= Len(u) THEN u[i] ELSE t[i - Len(u)]
  BY ConcatProperties
<1>2. Len(u) \in Nat \ {0} /\ Len(t) \in Nat
  BY EmptySeq, LenProperties
<1>3. u \o t # <<>>
  BY <1>1, <1>2, EmptySeq
<1>4. Head(u \o t) = Head(u)
  BY <1>1, <1>2
<1>5. /\ Tail(u) \in Seq(S) /\ Len(Tail(u)) = Len(u) - 1
      /\ \A i \in 1 .. Len(Tail(u)) : Tail(u)[i] = u[i + 1]
  BY HeadTailProperties
<1>6. /\ Tail(u \o t) \in Seq(S) /\ Len(Tail(u \o t)) = Len(u \o t) - 1
      /\ \A i \in 1 .. Len(Tail(u \o t)) : Tail(u \o t)[i] = (u \o t)[i + 1]
  BY <1>1, <1>3, HeadTailProperties
<1>7. /\ Tail(u) \o t \in Seq(S) /\ Len(Tail(u) \o t) = Len(Tail(u)) + Len(t)
      /\ \A i \in 1 .. Len(Tail(u)) + Len(t) :
           (Tail(u) \o t)[i] = IF i <= Len(Tail(u)) THEN Tail(u)[i] ELSE t[i - Len(Tail(u))]
  BY <1>5, ConcatProperties
<1>8. Len(Tail(u \o t)) = Len(Tail(u) \o t)
  BY <1>1, <1>2, <1>5, <1>6, <1>7
<1>9. \A i \in 1 .. Len(Tail(u) \o t) : Tail(u \o t)[i] = (Tail(u) \o t)[i]
  BY <1>1, <1>2, <1>5, <1>6, <1>7
<1>10. QED
  BY <1>3, <1>4, <1>6, <1>7, <1>8, <1>9, SeqEqual

\* One script after the other.
LEMMA Sequence ==
  ASSUME NEW f, NEW P, NEW s, NEW Q, NEW t, NEW R, Q # {}, Leads(f, P, s, Q), Leads(f, Q, t, R)
  PROVE  Leads(f, P, s \o t, R)
<1>1. PICK I1, V1, W1 : /\ Flows(f, V1, W1, I1)
                        /\ \A a \in P : <<a, s>> \in V1
                        /\ \A a : <<a, <<>>>> \in V1 => a \in Q
  BY Zenon DEF Leads
<1>2. PICK I2, V2, W2 : /\ Flows(f, V2, W2, I2)
                        /\ \A a \in Q : <<a, t>> \in V2
                        /\ \A a : <<a, <<>>>> \in V2 => a \in R
  BY Zenon DEF Leads
<1>3. t \in Seq(I2)
  BY <1>2 DEF Flows
<1> DEFINE I == I1 \cup I2
           V == {<<x[1], x[2] \o t>> : x \in V1} \cup V2
           W == W1 \cup W2
<1>4. /\ Seq(I1) \subseteq Seq(I) /\ Seq(I2) \subseteq Seq(I)
      /\ V1 \subseteq AbsState \X Seq(I1) /\ V2 \subseteq AbsState \X Seq(I2)
  BY <1>1, <1>2, SeqMonotonic DEF Flows
<1>5. V \subseteq AbsState \X Seq(I)
  <2>1. ASSUME NEW x \in V1 PROVE <<x[1], x[2] \o t>> \in AbsState \X Seq(I)
    <3>1. x[1] \in AbsState /\ x[2] \in Seq(I) /\ t \in Seq(I)
      BY <1>3, <1>4
    <3>2. x[2] \o t \in Seq(I)
      BY <3>1, ConcatProperties
    <3>3. QED
      BY <3>1, <3>2
  <2>2. V2 \subseteq AbsState \X Seq(I)
    BY <1>4
  <2>3. QED
    BY <2>1, <2>2
<1>6. Sealed(f, W, I)
  BY <1>1, <1>2, SealedUnion DEF Flows
<1>7. ASSUME NEW a, NEW u, <<a, u>> \in V1, u # <<>>
      PROVE  u \o t # <<>> /\ Proceeds(f, a, u \o t, V, W, I)
  <2>1. Proceeds(f, a, u, V1, W1, I1)
    BY Zenon, <1>1, <1>7 DEF Flows
  <2>2. u \in Seq(I1)
    BY <1>4, <1>7
  <2>3. u \in Seq(I) /\ t \in Seq(I)
    BY <1>3, <1>4, <2>2
  <2>4. u \o t # <<>> /\ Head(u \o t) = Head(u) /\ Tail(u \o t) = Tail(u) \o t
    <3> HIDE DEF I
    <3>1. QED
      BY <1>7, <2>3, HeadTailOfConcat
  <2>5. \A b, v : <<b, v>> \in V1 => <<b, v \o t>> \in V
    <3> TAKE b, v
    <3>1. HAVE <<b, v>> \in V1
    <3>2. <<<<b, v>>[1], <<b, v>>[2] \o t>> \in V
      BY Zenon, <3>1
    <3>3. QED
      BY <3>2
  <2>6. CASE Goes(f, a, u, V1, W1, I1)
    <3>1. Legal(f, a, Head(u \o t))
      BY Zenon, <2>4, <2>6 DEF Goes
    <3>2. ASSUME NEW b, NEW p, Falls(f, a, Head(u \o t), b, p)
          PROVE  p \in Seq(I) /\ <<b, p \o Tail(u \o t)>> \in V
      <4>1. p \in Seq(I1) /\ <<b, p \o Tail(u)>> \in V1
        BY Zenon, <2>4, <2>6, <3>2 DEF Goes
      <4>2. Tail(u) \in Seq(I)
        BY <1>7, <2>3, HeadTailProperties
      <4>3. p \in Seq(I)
        BY <1>4, <4>1
      <4>4. (p \o Tail(u)) \o t = p \o (Tail(u) \o t)
        BY SMTT(30), <2>3, <4>2, <4>3, ConcatAssociative
      <4>5. <<b, (p \o Tail(u)) \o t>> \in V
        BY Zenon, <2>5, <4>1
      <4>6. QED
        BY Zenon, <2>4, <4>3, <4>4, <4>5
    <3>3. ASSUME NEW b, NEW p, Jumps(f, a, Head(u \o t), b, p) PROVE <<b, p>> \in W
      <4>1. <<b, p>> \in W1
        BY Zenon, <2>4, <2>6, <3>3 DEF Goes
      <4>2. QED
        BY <4>1
    <3>4. QED
      <4> HIDE DEF V, W, I
      <4>1. QED
        BY Zenon, <2>4, <3>1, <3>2, <3>3 DEF Goes, Proceeds
  <2>7. CASE Benign(a) /\ <<GivenUp(a), u>> \in V1
    <3>1. <<GivenUp(a), u \o t>> \in V
      BY Zenon, <2>5, <2>7
    <3>2. QED
      <4> HIDE DEF V, W, I
      <4>1. QED
        BY Zenon, <2>4, <2>7, <3>1 DEF Proceeds
  <2>8. QED
    BY Zenon, <2>1, <2>6, <2>7 DEF Proceeds
<1>8. ASSUME NEW a, NEW u, <<a, u>> \in V2, u # <<>> PROVE Proceeds(f, a, u, V, W, I)
  <2>1. Proceeds(f, a, u, V2, W2, I2)
    BY Zenon, <1>2, <1>8 DEF Flows
  <2>2. V2 \subseteq V /\ W2 \subseteq W /\ I2 \subseteq I
    OBVIOUS
  <2>3. QED
    <3> HIDE DEF V, W, I
    <3>1. QED
      BY <2>1, <2>2, ProceedsMore
<1>9. ASSUME NEW a, <<a, <<>>>> \in V1 PROVE <<a, <<>> \o t>> \in V2
  <2>1. a \in Q /\ <<>> \o t = t
    BY <1>1, <1>3, <1>9, ConcatEmptySeq
  <2>2. QED
    BY <1>2, <2>1
<1>10. ASSUME NEW a, NEW u, <<a, u>> \in V
      PROVE  \/ <<a, u>> \in V2
             \/ \E v : <<a, v>> \in V1 /\ u = v \o t /\ v # <<>>
  <2>1. CASE <<a, u>> \notin V2
    <3>1. PICK x \in V1 : <<a, u>> = <<x[1], x[2] \o t>>
      BY <1>10, <2>1
    <3>2. x = <<x[1], x[2]>>
      BY <1>4
    <3>3. a = x[1] /\ u = x[2] \o t /\ <<a, x[2]>> \in V1
      BY <3>1, <3>2
    <3>4. x[2] # <<>>
      BY <1>9, <2>1, <3>3
    <3>5. QED
      BY <3>3, <3>4
  <2>2. QED
    BY <2>1
<1>11. \A a, u : <<a, u>> \in V /\ u # <<>> => Proceeds(f, a, u, V, W, I)
  <2> HIDE DEF V, W, I
  <2> TAKE a, u
  <2>1. HAVE <<a, u>> \in V /\ u # <<>>
  <2>2. CASE <<a, u>> \in V2
    BY Zenon, <1>8, <2>1, <2>2
  <2>3. CASE \E v : <<a, v>> \in V1 /\ u = v \o t /\ v # <<>>
    <3>1. PICK v : <<a, v>> \in V1 /\ u = v \o t /\ v # <<>>
      BY Zenon, <2>3
    <3>2. Proceeds(f, a, v \o t, V, W, I)
      BY Zenon, <1>7, <3>1
    <3>3. QED
      BY Zenon, <3>1, <3>2
  <2>4. QED
    BY Zenon, <1>10, <2>1, <2>2, <2>3
<1>12. Flows(f, V, W, I)
  <2> HIDE DEF V, W, I
  <2>1. QED
    BY Zenon, <1>5, <1>6, <1>11 DEF Flows
<1>13. \A a : <<a, <<>>>> \in V => a \in R
  <2> HIDE DEF V, W, I
  <2> TAKE a
  <2>1. HAVE <<a, <<>>>> \in V
  <2>2. CASE <<a, <<>>>> \in V2
    BY Zenon, <1>2, <2>2
  <2>3. CASE \E v : <<a, v>> \in V1 /\ <<>> = v \o t /\ v # <<>>
    <3>1. PICK v : <<a, v>> \in V1 /\ <<>> = v \o t /\ v # <<>>
      BY Zenon, <2>3
    <3>2. v \o t # <<>>
      BY Zenon, <1>7, <3>1
    <3>3. QED
      BY Zenon, <3>1, <3>2
  <2>4. QED
    BY Zenon, <1>10, <2>1, <2>2, <2>3
<1>14. \A a \in P : <<a, s \o t>> \in V
  <2> TAKE a \in P
  <2>1. <<<<a, s>>[1], <<a, s>>[2] \o t>> \in V
    BY Zenon, <1>1
  <2>2. QED
    BY <2>1
<1>15. QED
  <2> HIDE DEF V, W, I
  <2>1. QED
    BY Zenon, <1>12, <1>13, <1>14 DEF Leads

\* Two safe sets of escapes together are safe.
LEMMA SafeUnion ==
  ASSUME NEW f, NEW E, NEW F, Safe(f, E), Safe(f, F)
  PROVE  Safe(f, E \cup F)
<1>1. PICK I, W : Sealed(f, W, I) /\ E \subseteq W
  BY Zenon DEF Safe
<1>2. PICK J, X : Sealed(f, X, J) /\ F \subseteq X
  BY Zenon DEF Safe
<1>3. Sealed(f, W \cup X, I \cup J)
  BY <1>1, <1>2, SealedUnion
<1>4. E \cup F \subseteq W \cup X
  BY <1>1, <1>2
<1>5. QED
  BY Zenon, <1>3, <1>4 DEF Safe

\* No escape at all is safe.
LEMMA SafeNothing ==
  ASSUME NEW f PROVE Safe(f, {})
<1>1. Sealed(f, {}, {})
  BY DEF Sealed
<1>2. QED
  BY Zenon, <1>1 DEF Safe

\* Escapes to one script that ends the call legally are safe.
LEMMA SafeEnds ==
  ASSUME NEW f, NEW P, NEW s, NEW E, Ends(f, P, s), \A x \in E : \E a \in P : x = <<a, s>>
  PROVE  Safe(f, E)
<1>1. PICK I, W : Sealed(f, W, I) /\ \A a \in P : <<a, s>> \in W
  BY Zenon DEF Ends
<1>2. E \subseteq W
  BY Zenon, <1>1
<1>3. QED
  BY Zenon, <1>1, <1>2 DEF Safe

\* The empty script changes nothing.
LEMMA Skip ==
  ASSUME NEW f, NEW P \in SUBSET AbsState PROVE Leads(f, P, <<>>, P)
<1> DEFINE V == {<<a, <<>>>> : a \in P}
<1>1. Sealed(f, {}, {})
  BY DEF Sealed
<1>2. <<>> \in Seq({}) 
  BY EmptySeq
<1>3. Flows(f, V, {}, {})
  <2>1. V \subseteq AbsState \X Seq({})
    <3>1. ASSUME NEW a \in P PROVE <<a, <<>>>> \in AbsState \X Seq({})
      BY <1>2
    <3>2. QED
      BY <3>1
  <2>2. \A a, u : <<a, u>> \in V /\ u # <<>> => Proceeds(f, a, u, V, {}, {})
    OBVIOUS
  <2> HIDE DEF V
  <2>3. QED
    BY Zenon, <1>1, <2>1, <2>2 DEF Flows
<1>4. (\A a \in P : <<a, <<>>>> \in V) /\ \A a : <<a, <<>>>> \in V => a \in P
  OBVIOUS
<1>5. QED
  <2> HIDE DEF V
  <2>1. QED
    BY Zenon, <1>3, <1>4 DEF Leads

\* A script may be started from fewer states, and lead to more.
LEMMA Weaken ==
  ASSUME NEW f, NEW P, NEW Q, NEW s, NEW P1, NEW Q1, Leads(f, P, s, Q), P1 \subseteq P, Q \subseteq Q1
  PROVE  Leads(f, P1, s, Q1)
<1>1. PICK I, V, W : /\ Flows(f, V, W, I)
                     /\ \A a \in P : <<a, s>> \in V
                     /\ \A a : <<a, <<>>>> \in V => a \in Q
  BY Zenon DEF Leads
<1>2. (\A a \in P1 : <<a, s>> \in V) /\ \A a : <<a, <<>>>> \in V => a \in Q1
  BY Zenon, <1>1
<1>3. QED
  BY Zenon, <1>1, <1>2 DEF Leads

\* The same of a script that ends the call.
LEMMA WeakenEnds ==
  ASSUME NEW f, NEW P, NEW s, NEW P1, Ends(f, P, s), P1 \subseteq P
  PROVE  Ends(f, P1, s)
BY Zenon DEF Ends

\* Two sets of states through which a script flows are together one.
LEMMA FlowsUnion ==
  ASSUME NEW f, NEW V, NEW W, NEW I, NEW V1, NEW W1, NEW I1, Flows(f, V, W, I), Flows(f, V1, W1, I1)
  PROVE  Flows(f, V \cup V1, W \cup W1, I \cup I1)
<1>1. Sealed(f, W \cup W1, I \cup I1)
  BY SealedUnion DEF Flows
<1>2. Seq(I) \subseteq Seq(I \cup I1) /\ Seq(I1) \subseteq Seq(I \cup I1)
  BY SeqMonotonic
<1>3. V \cup V1 \subseteq AbsState \X Seq(I \cup I1)
  BY <1>2 DEF Flows
<1>4. ASSUME NEW a, NEW u, <<a, u>> \in V \cup V1, u # <<>>
      PROVE  Proceeds(f, a, u, V \cup V1, W \cup W1, I \cup I1)
  <2>1. CASE <<a, u>> \in V
    <3>1. Proceeds(f, a, u, V, W, I)
      BY Zenon, <1>4, <2>1 DEF Flows
    <3>2. QED
      BY <3>1, ProceedsMore
  <2>2. CASE <<a, u>> \in V1
    <3>1. Proceeds(f, a, u, V1, W1, I1)
      BY Zenon, <1>4, <2>2 DEF Flows
    <3>2. QED
      BY <3>1, ProceedsMore
  <2>3. QED
    BY <1>4, <2>1, <2>2
<1>5. QED
  BY Zenon, <1>1, <1>3, <1>4 DEF Flows

\* A script may be started from either of two sets of states.
LEMMA Either ==
  ASSUME NEW f, NEW P, NEW Q, NEW s, NEW P1, NEW Q1, Leads(f, P, s, Q), Leads(f, P1, s, Q1)
  PROVE  Leads(f, P \cup P1, s, Q \cup Q1)
<1>1. PICK I, V, W : /\ Flows(f, V, W, I)
                     /\ \A a \in P : <<a, s>> \in V
                     /\ \A a : <<a, <<>>>> \in V => a \in Q
  BY Zenon DEF Leads
<1>2. PICK I1, V1, W1 : /\ Flows(f, V1, W1, I1)
                        /\ \A a \in P1 : <<a, s>> \in V1
                        /\ \A a : <<a, <<>>>> \in V1 => a \in Q1
  BY Zenon DEF Leads
<1>3. Flows(f, V \cup V1, W \cup W1, I \cup I1)
  BY <1>1, <1>2, FlowsUnion
<1>4. (\A a \in P \cup P1 : <<a, s>> \in V \cup V1) /\ \A a : <<a, <<>>>> \in V \cup V1 => a \in Q \cup Q1
  BY <1>1, <1>2
<1>5. QED
  BY Zenon, <1>3, <1>4 DEF Leads

\* The same of a script that ends the call.
LEMMA EitherEnds ==
  ASSUME NEW f, NEW P, NEW s, NEW P1, Ends(f, P, s), Ends(f, P1, s)
  PROVE  Ends(f, P \cup P1, s)
<1>1. PICK I, W : Sealed(f, W, I) /\ \A a \in P : <<a, s>> \in W
  BY Zenon DEF Ends
<1>2. PICK J, X : Sealed(f, X, J) /\ \A a \in P1 : <<a, s>> \in X
  BY Zenon DEF Ends
<1>3. Sealed(f, W \cup X, I \cup J)
  BY <1>1, <1>2, SealedUnion
<1>4. \A a \in P \cup P1 : <<a, s>> \in W \cup X
  BY <1>1, <1>2
<1>5. QED
  BY Zenon, <1>3, <1>4 DEF Ends

\* What ends falls through nowhere.
LEMMA EndsLeads ==
  ASSUME NEW f, NEW P, NEW s, Ends(f, P, s)
  PROVE  Leads(f, P, s, {})
<1>1. PICK I, W : Sealed(f, W, I) /\ \A a \in P : <<a, s>> \in W
  BY Zenon DEF Ends
<1>2. Flows(f, W, W, I)
  BY Zenon, <1>1 DEF Flows, Sealed
<1>3. \A a : <<a, <<>>>> \in W => a \in {}
  BY Zenon, <1>1 DEF Sealed
<1>4. QED
  BY Zenon, <1>1, <1>2, <1>3 DEF Leads

\* A script followed by one that ends the call ends the call.
LEMMA SequenceEnds ==
  ASSUME NEW f, NEW P, NEW s, NEW Q, NEW t, Q # {}, Leads(f, P, s, Q), Ends(f, Q, t)
  PROVE  Ends(f, P, s \o t)
<1>1. Leads(f, Q, t, {})
  BY EndsLeads
<1>2. Leads(f, P, s \o t, {})
  BY <1>1, Sequence
<1>3. QED
  BY <1>2, Finish

\* A call that can no longer do harm need not be followed any closer.
LEMMA GivesUp ==
  ASSUME NEW f, NEW P \in SUBSET AbsState, NEW s, NEW P1, NEW Q, s # <<>>, P1 # {},
         Leads(f, P1, s, Q), \A a \in P : Benign(a) /\ GivenUp(a) \in P1
  PROVE  Leads(f, P, s, Q)
<1>1. PICK I, V, W : /\ Flows(f, V, W, I)
                     /\ \A a \in P1 : <<a, s>> \in V
                     /\ \A a : <<a, <<>>>> \in V => a \in Q
  BY Zenon DEF Leads
<1> DEFINE X == V \cup {<<a, s>> : a \in P}
<1>2. s \in Seq(I)
  BY <1>1 DEF Flows
<1>3. X \subseteq AbsState \X Seq(I)
  BY <1>1, <1>2 DEF Flows
<1>4. ASSUME NEW a, NEW u, <<a, u>> \in X, u # <<>>
      PROVE  Proceeds(f, a, u, X, W, I)
  <2>1. CASE <<a, u>> \in V
    <3>1. Proceeds(f, a, u, V, W, I)
      BY Zenon, <1>1, <1>4, <2>1 DEF Flows
    <3>2. V \subseteq X
      OBVIOUS
    <3> HIDE DEF X
    <3>3. QED
      BY <3>1, <3>2, ProceedsMore
  <2>2. CASE a \in P /\ u = s
    <3>1. <<GivenUp(a), u>> \in V /\ Benign(a)
      BY Zenon, <1>1, <2>2
    <3>2. <<GivenUp(a), u>> \in X
      BY <3>1
    <3> HIDE DEF X
    <3>3. QED
      BY Zenon, <3>1, <3>2 DEF Proceeds
  <2>3. QED
    BY <1>4, <2>1, <2>2
<1>5. Flows(f, X, W, I)
  <2> HIDE DEF X
  <2>1. QED
    BY Zenon, <1>1, <1>3, <1>4 DEF Flows
<1>6. (\A a \in P : <<a, s>> \in X) /\ \A a : <<a, <<>>>> \in X => a \in Q
  BY <1>1
<1>7. QED
  <2> HIDE DEF X
  <2>1. QED
    BY Zenon, <1>5, <1>6 DEF Leads

\* One instruction, with those it turns into (X) and the scripts it may put before
\* the rest (t1, t2); E is where it leaves the script for.
Stays(a, i, b, p, J, X, Q, R1, t1, R2, t2) ==
  \/ p = <<>> /\ b \in Q
  \/ \E j \in J : p = <<j>> /\ <<b, j>> \in X
  \/ p = t1 /\ b \in R1
  \/ p = t2 /\ b \in R2
Follows(f, J, X, Q, E, R1, t1, R2, t2) ==
  \A a, i : <<a, i>> \in X =>
    /\ Legal(f, a, i)
    /\ \A b, p : Falls(f, a, i, b, p) => Stays(a, i, b, p, J, X, Q, R1, t1, R2, t2)
    /\ \A b, p : Jumps(f, a, i, b, p) => <<b, p>> \in E

\* An instruction, in any of the forms J it turns into while it waits, leads from a set of
\* states to Q if each of its steps follows one of three ways: it stays in J, it leaves for
\* one of two scripts that lead to Q, or it escapes to a place in E.
LEMMA Instruction ==
  ASSUME NEW f, NEW J, NEW X \in SUBSET (AbsState \X J), NEW Q \in SUBSET AbsState, NEW E, Safe(f, E),
         NEW R1, NEW t1, Leads(f, R1, t1, Q), NEW R2, NEW t2, Leads(f, R2, t2, Q), R1 # {}, R2 # {},
         Follows(f, J, X, Q, E, R1, t1, R2, t2)
  PROVE  \A i \in J : Leads(f, {a \in AbsState : <<a, i>> \in X}, <<i>>, Q)
<1>1. PICK K, W : Sealed(f, W, K) /\ E \subseteq W
  BY Zenon DEF Safe
<1>2. PICK I1, V1, W1 : /\ Flows(f, V1, W1, I1)
                        /\ \A a \in R1 : <<a, t1>> \in V1
                        /\ \A a : <<a, <<>>>> \in V1 => a \in Q
  BY Zenon DEF Leads
<1>3. PICK I2, V2, W2 : /\ Flows(f, V2, W2, I2)
                        /\ \A a \in R2 : <<a, t2>> \in V2
                        /\ \A a : <<a, <<>>>> \in V2 => a \in Q
  BY Zenon DEF Leads
<1> DEFINE I == K \cup (I1 \cup I2) \cup J
           Y == W \cup (W1 \cup W2)
           U == V1 \cup V2
           V == U \cup {<<a, <<>>>> : a \in Q} \cup {<<x[1], <<x[2]>>>> : x \in X}
<1>4. Flows(f, U, W1 \cup W2, I1 \cup I2)
  BY <1>2, <1>3, FlowsUnion
<1>5. Seq(I1 \cup I2) \subseteq Seq(I) /\ Seq(J) \subseteq Seq(I) /\ Seq(K \cup (I1 \cup I2)) \subseteq Seq(I)
  BY SeqMonotonic
<1>6. Sealed(f, Y, K \cup (I1 \cup I2))
  <2>1. Sealed(f, W1 \cup W2, I1 \cup I2)
    BY <1>4 DEF Flows
  <2>2. QED
    BY <1>1, <2>1, SealedUnion
<1>7. Sealed(f, Y, I)
  <2>1. Sealed(f, {}, J)
    BY DEF Sealed
  <2>2. Sealed(f, Y \cup {}, (K \cup (I1 \cup I2)) \cup J)
    <3> HIDE DEF Y
    <3>1. QED
      BY <1>6, <2>1, SealedUnion
  <2>3. Y \cup {} = Y /\ (K \cup (I1 \cup I2)) \cup J = I
    OBVIOUS
  <2>4. QED
    <3> HIDE DEF Y, I
    <3>1. QED
      BY <2>2, <2>3
<1>8. V \subseteq AbsState \X Seq(I)
  <2>1. U \subseteq AbsState \X Seq(I)
    BY <1>4, <1>5 DEF Flows
  <2>2. ASSUME NEW a \in Q PROVE <<a, <<>>>> \in AbsState \X Seq(I)
    <3>1. <<>> \in Seq(I) /\ a \in AbsState
      BY EmptySeq
    <3> HIDE DEF I
    <3>2. QED
      BY <3>1
  <2>3. ASSUME NEW x \in X PROVE <<x[1], <<x[2]>>>> \in AbsState \X Seq(I)
    <3>1. x[1] \in AbsState /\ x[2] \in J
      OBVIOUS
    <3>2. <<x[2]>> \in Seq(J)
      BY <3>1
    <3> HIDE DEF I
    <3>3. QED
      BY <1>5, <3>1, <3>2
  <2>4. QED
    BY <2>1, <2>2, <2>3
<1>9. \A a \in Q : <<a, <<>>>> \in V
  OBVIOUS
<1>10. \A a, i : <<a, i>> \in X => <<a, <<i>>>> \in V
  <2> TAKE a, i
  <2>1. HAVE <<a, i>> \in X
  <2>2. <<<<a, i>>[1], <<<<a, i>>[2]>>>> \in V
    BY Zenon, <2>1
  <2>3. QED
    BY <2>2
<1>11. ASSUME NEW a, NEW u, <<a, u>> \in V, <<a, u>> \notin U, u # <<>>
       PROVE  \E i \in J : u = <<i>> /\ <<a, i>> \in X
  <2>1. PICK x \in X : <<a, u>> = <<x[1], <<x[2]>>>>
    BY <1>11
  <2>2. x = <<x[1], x[2]>> /\ x[2] \in J
    OBVIOUS
  <2>3. a = x[1] /\ u = <<x[2]>> /\ <<a, x[2]>> \in X
    BY <2>1, <2>2
  <2>4. QED
    BY <2>2, <2>3
<1>12. ASSUME NEW a, NEW i \in J, <<a, i>> \in X
       PROVE  Goes(f, a, <<i>>, V, Y, I)
  <2>1. Head(<<i>>) = i /\ Tail(<<i>>) = <<>> /\ <<i>> \in Seq(J)
    OBVIOUS
  <2>2. ASSUME NEW b, NEW p, Falls(f, a, i, b, p)
        PROVE  p \in Seq(I) /\ <<b, p \o <<>>>> \in V
    <3>1. CASE p = <<>> /\ b \in Q
      <4>1. <<>> \in Seq(I) /\ <<>> \o <<>> = <<>>
        BY EmptySeq, ConcatEmptySeq
      <4> HIDE DEF I, V
      <4>2. QED
        BY Zenon, <1>9, <3>1, <4>1
    <3>2. CASE \E j \in J : p = <<j>> /\ <<b, j>> \in X
      <4>1. PICK j \in J : p = <<j>> /\ <<b, j>> \in X
        BY Zenon, <3>2
      <4>2. <<j>> \in Seq(J)
        BY <4>1
      <4>3. <<j>> \o <<>> = <<j>>
        BY <4>2, ConcatEmptySeq
      <4> HIDE DEF I, V
      <4>4. QED
        BY Zenon, <1>5, <1>10, <4>1, <4>2, <4>3
    <3>3. ASSUME <<b, p>> \in U PROVE p \in Seq(I) /\ <<b, p \o <<>>>> \in V
      <4>1. p \in Seq(I1 \cup I2)
        BY <1>4, <3>3 DEF Flows
      <4>2. p \o <<>> = p /\ p \in Seq(I)
        BY <1>5, <4>1, ConcatEmptySeq
      <4>3. <<b, p>> \in V
        BY <3>3
      <4> HIDE DEF I, V
      <4>4. QED
        BY <4>2, <4>3
    <3>4. CASE p = t1 /\ b \in R1
      <4>1. <<b, p>> \in U
        BY <1>2, <3>4
      <4>2. QED
        BY Zenon, <3>3, <4>1
    <3>5. CASE p = t2 /\ b \in R2
      <4>1. <<b, p>> \in U
        BY <1>3, <3>5
      <4>2. QED
        BY Zenon, <3>3, <4>1
    <3>6. \/ p = <<>> /\ b \in Q
          \/ \E j \in J : p = <<j>> /\ <<b, j>> \in X
          \/ p = t1 /\ b \in R1
          \/ p = t2 /\ b \in R2
      <4> HIDE DEF I, V
      <4>1. QED
        BY Zenon, <1>12, <2>2 DEF Follows, Stays
    <3>7. QED
      <4> HIDE DEF I, V
      <4>1. QED
        BY Zenon, <3>1, <3>2, <3>4, <3>5, <3>6
  <2>3. ASSUME NEW b, NEW p, Jumps(f, a, i, b, p) PROVE <<b, p>> \in Y
    <3>1. <<b, p>> \in E
      BY Zenon, <1>12, <2>3 DEF Follows
    <3>2. QED
      BY <1>1, <3>1
  <2>4. Legal(f, a, i)
    BY Zenon, <1>12 DEF Follows
  <2> HIDE DEF V, Y, I
  <2>5. QED
    BY Zenon, <2>1, <2>2, <2>3, <2>4 DEF Goes
<1>13. ASSUME NEW a, NEW u, <<a, u>> \in V, u # <<>> PROVE Proceeds(f, a, u, V, Y, I)
  <2>1. CASE <<a, u>> \in U
    <3>1. Proceeds(f, a, u, U, W1 \cup W2, I1 \cup I2)
      <4> HIDE DEF U
      <4>1. QED
        BY Zenon, <1>4, <1>13, <2>1 DEF Flows
    <3>2. U \subseteq V /\ W1 \cup W2 \subseteq Y /\ I1 \cup I2 \subseteq I
      OBVIOUS
    <3> HIDE DEF U, V, Y, I
    <3>3. QED
      BY <3>1, <3>2, ProceedsMore
  <2>2. CASE <<a, u>> \notin U
    <3>1. PICK i \in J : u = <<i>> /\ <<a, i>> \in X
      <4> HIDE DEF U, V, Y, I
      <4>1. QED
        BY Zenon, <1>11, <1>13, <2>2
    <3> HIDE DEF U, V, Y, I
    <3>2. QED
      BY Zenon, <1>12, <3>1 DEF Proceeds
  <2> HIDE DEF U, V, Y, I
  <2>3. QED
    BY Zenon, <2>1, <2>2
<1>14. Flows(f, V, Y, I)
  <2> HIDE DEF V, Y, I, U
  <2>1. QED
    BY Zenon, <1>7, <1>8, <1>13 DEF Flows
<1>15. ASSUME NEW a, <<a, <<>>>> \in V PROVE a \in Q
  <2>1. CASE <<a, <<>>>> \in U
    BY <1>2, <1>3, <2>1
  <2>2. \A x \in X : <<x[2]>> # <<>>
    OBVIOUS
  <2>3. CASE <<a, <<>>>> \notin U
    BY <1>15, <2>2, <2>3
  <2>4. QED
    BY <2>1, <2>3
<1>16. TAKE i \in J
<1>17. \A a \in {a \in AbsState : <<a, i>> \in X} : <<a, <<i>>>> \in V
  <2> HIDE DEF V
  <2>1. QED
    BY Zenon, <1>10
<1>18. QED
  <2> HIDE DEF V, Y, I, U
  <2>1. QED
    BY Zenon, <1>14, <1>15, <1>17 DEF Leads

-----------------------------------------------------------------------------
(* The shape of every call: followed without asking what it does           *)

Lost == {a \in AbsState : a.mode = "lost"}
Loose(s) == \A f : Leads(f, Lost, s, Lost)
LooseEnd(s) == \A f : Ends(f, Lost, s)

\* There are states in which a call has lost track of the components.
LEMMA SomeLost == Lost # {}
<1> DEFINE a == [mode |-> "lost", out |-> [c \in Components |-> {}], state |-> [c \in Components |-> "None"],
                 enabled |-> [p \in Ports |-> FALSE], connected |-> FALSE, calm |-> FALSE,
                 refused |-> NoOne, allocated |-> {}, idle |-> FALSE]
<1>1. a \in AbsState
  BY DEF AbsState, States
<1>2. a.mode = "lost"
  OBVIOUS
<1>3. QED
  <2> HIDE DEF a
  <2>1. QED
    BY <1>1, <1>2 DEF Lost

Returns == {Return(v) : v \in Int}

\* A return does not go on with anything.
LEMMA ReturnGoesNowhere ==
  ASSUME NEW i, i.op = "return", i.value \in Int
  PROVE  Typed(i) /\ \A p : ~Continues(i, p) /\ ~Escapes(i, p)
BY DEF Typed, Continues, Escapes, EventOps

\* To escape to a return is safe when no claim is made about the components.
LEMMA LooseReturns ==
  ASSUME NEW f PROVE Safe(f, Lost \X Returns)
<1> DEFINE W == Lost \X Returns
           I == {[op |-> "return", value |-> v] : v \in Int}
<1>1. ASSUME NEW a \in Lost, NEW v \in Int
      PROVE  a \in AbsState /\ Return(v) \in Seq(I) /\ Return(v) # <<>>
  BY DEF Lost, Return
<1>2. W \subseteq AbsState \X Seq(I)
  <2> HIDE DEF I
  <2>1. QED
    BY <1>1 DEF Returns
<1>3. ASSUME NEW a \in Lost, NEW v \in Int PROVE Goes(f, a, Return(v), W, W, I)
  <2>1. Head(Return(v)) = [op |-> "return", value |-> v]
    BY DEF Return
  <2> HIDE DEF W, I
  <2>6. Head(Return(v)).op = "return" /\ Head(Return(v)).value \in Int
    BY <2>1
  <2>2. Legal(f, a, Head(Return(v)))
    BY <2>6, ReturnGoesNowhere DEF Legal, Lost
  <2>3. \A b, p : ~Falls(f, a, Head(Return(v)), b, p)
    BY Zenon, <2>6, ReturnGoesNowhere DEF Falls
  <2>4. \A b, p : ~Jumps(f, a, Head(Return(v)), b, p)
    BY Zenon, <2>6, ReturnGoesNowhere DEF Jumps
  <2>5. QED
    <3> HIDE DEF W, I
    <3>1. QED
      BY Zenon, <2>2, <2>3, <2>4 DEF Goes
<1>4. ASSUME NEW a, NEW u, <<a, u>> \in W PROVE u # <<>> /\ Proceeds(f, a, u, W, W, I)
  <2>1. PICK a1 \in Lost, v \in Int : <<a, u>> = <<a1, Return(v)>>
    BY <1>4 DEF Returns
  <2>2. a = a1 /\ u = Return(v)
    BY <2>1
  <2> HIDE DEF W, I
  <2>3. Goes(f, a, u, W, W, I) /\ u # <<>>
    BY Zenon, <1>1, <1>3, <2>2
  <2>4. QED
    BY Zenon, <2>3 DEF Proceeds
<1>5. Sealed(f, W, I)
  <2> HIDE DEF W, I
  <2>1. QED
    BY Zenon, <1>2, <1>4 DEF Sealed
<1>6. QED
  <2> HIDE DEF I
  <2>1. QED
    BY <1>5 DEF Safe

\* A return ends a call loosely: with nothing claimed about the components.
LEMMA LooseReturn ==
  ASSUME NEW v \in Int PROVE LooseEnd(Return(v))
<1> SUFFICES ASSUME NEW f PROVE Ends(f, Lost, Return(v))
  BY Zenon DEF LooseEnd
<1>1. PICK I, W : Sealed(f, W, I) /\ Lost \X Returns \subseteq W
  BY LooseReturns DEF Safe
<1>2. \A a \in Lost : <<a, Return(v)>> \in W
  BY <1>1 DEF Returns
<1>3. QED
  BY Zenon, <1>1, <1>2 DEF Ends

\* The empty script is loose.
LEMMA LooseSkip == Loose(<<>>)
<1>1. Lost \subseteq AbsState
  BY DEF Lost
<1>2. QED
  BY Zenon, <1>1, Skip DEF Loose

\* Loose scripts one after the other are loose.
LEMMA LooseSequence ==
  ASSUME NEW s, NEW t, Loose(s), Loose(t) PROVE Loose(s \o t)
BY SomeLost, Sequence DEF Loose

\* A loose script followed by a loose end is a loose end.
LEMMA LooseFinish ==
  ASSUME NEW s, NEW t, Loose(s), LooseEnd(t) PROVE LooseEnd(s \o t)
BY SomeLost, SequenceEnds DEF Loose, LooseEnd

\* A call may end by returning 0.
LEMMA LooseZero == LooseEnd(Return(0))
<1>1. 0 \in Int
  OBVIOUS
<1>2. QED
  BY Zenon, <1>1, LooseReturn

\* The instructions J, the scripts t1 and t2 that may come before the rest, and p1 and
\* p2, for which the rest may be left.
Confined(J, t1, t2, p1, p2) ==
  \A i \in J : /\ Typed(i)
               /\ \A p : Continues(i, p) => p = <<>> \/ (\E j \in J : p = <<j>>) \/ p = t1 \/ p = t2
               /\ \A p : Escapes(i, p) => p \in {p1, p2} \/ p \in Returns

\* An instruction whose steps are confined to loose scripts is loose.
LEMMA LooseInstruction ==
  ASSUME NEW J, NEW t1, NEW t2, Loose(t1), Loose(t2), NEW p1, NEW p2, LooseEnd(p1), LooseEnd(p2),
         Confined(J, t1, t2, p1, p2)
  PROVE  \A i \in J : Loose(<<i>>)
<1> SUFFICES ASSUME NEW f, NEW i \in J PROVE Leads(f, Lost, <<i>>, Lost)
  BY Zenon DEF Loose
<1> DEFINE E1 == {<<a, p1>> : a \in Lost}
           E2 == {<<a, p2>> : a \in Lost}
           E3 == Lost \X Returns
           E == E1 \cup E2 \cup E3
           X == Lost \X J
<1>1. Safe(f, E)
  <2>1. Safe(f, E1)
    <3>1. \A x \in E1 : \E a \in Lost : x = <<a, p1>>
      OBVIOUS
    <3>2. Ends(f, Lost, p1)
      BY Zenon DEF LooseEnd
    <3> HIDE DEF E1
    <3>3. QED
      BY <3>1, <3>2, SafeEnds
  <2>2. Safe(f, E2)
    <3>1. \A x \in E2 : \E a \in Lost : x = <<a, p2>>
      OBVIOUS
    <3>2. Ends(f, Lost, p2)
      BY Zenon DEF LooseEnd
    <3> HIDE DEF E2
    <3>3. QED
      BY <3>1, <3>2, SafeEnds
  <2>3. Safe(f, E3)
    BY LooseReturns
  <2> HIDE DEF E1, E2, E3
  <2>4. QED
    BY <2>1, <2>2, <2>3, SafeUnion
<1>2. Lost \subseteq AbsState /\ X \subseteq AbsState \X J
  BY DEF Lost
<1>3. Leads(f, Lost, t1, Lost) /\ Leads(f, Lost, t2, Lost)
  BY Zenon DEF Loose
<1>4. ASSUME NEW a, NEW k, <<a, k>> \in X
      PROVE  /\ Legal(f, a, k)
             /\ \A b, p : Falls(f, a, k, b, p) => Stays(a, k, b, p, J, X, Lost, Lost, t1, Lost, t2)
             /\ \A b, p : Jumps(f, a, k, b, p) => <<b, p>> \in E
  <2>1. a \in Lost /\ k \in J /\ a.mode = "lost"
    BY <1>4 DEF Lost
  <2>2. Legal(f, a, k)
    <3>1. a.mode # "normal" /\ a.mode # "giveUp"
      BY <2>1
    <3>2. QED
      BY Zenon, <2>1, <3>1 DEF Legal, Confined
  <2>3. ASSUME NEW b, NEW p, Falls(f, a, k, b, p)
        PROVE  Stays(a, k, b, p, J, X, Lost, Lost, t1, Lost, t2)
    <3>1. Continues(k, p) /\ b = a
      BY <2>1, <2>3 DEF Falls
    <3>2. p = <<>> \/ (\E j \in J : p = <<j>>) \/ p = t1 \/ p = t2
      BY Zenon, <2>1, <3>1 DEF Confined
    <3>3. \A j \in J : <<a, j>> \in X
      BY <2>1
    <3> HIDE DEF X
    <3>4. QED
      BY Zenon, <2>1, <3>1, <3>2, <3>3 DEF Stays
  <2>4. ASSUME NEW b, NEW p, Jumps(f, a, k, b, p) PROVE <<b, p>> \in E
    <3>1. Escapes(k, p) /\ b = a
      BY <2>1, <2>4 DEF Jumps
    <3>2. p \in {p1, p2} \/ p \in Returns
      BY Zenon, <2>1, <3>1 DEF Confined
    <3>3. <<a, p1>> \in E1 /\ <<a, p2>> \in E2 /\ \A q \in Returns : <<a, q>> \in E3
      BY <2>1
    <3> HIDE DEF E1, E2, E3
    <3>4. QED
      BY <3>1, <3>2, <3>3
  <2> HIDE DEF X, E
  <2>5. QED
    BY Zenon, <2>2, <2>3, <2>4
<1>5. \A j \in J : Leads(f, {a \in AbsState : <<a, j>> \in X}, <<j>>, Lost)
  <2> HIDE DEF X, E
  <2>1. X \in SUBSET (AbsState \X J) /\ Lost \in SUBSET AbsState
    BY <1>2
  <2>2. Follows(f, J, X, Lost, E, Lost, t1, Lost, t2)
    BY Zenon, <1>4 DEF Follows
  <2>3. QED
    BY Zenon, <1>1, <2>1, <1>3, <2>2, SomeLost, Instruction
<1>6. Lost \subseteq {a \in AbsState : <<a, i>> \in X}
  BY <1>2
<1>7. QED
  <2> HIDE DEF X
  <2>1. QED
    BY <1>5, <1>6, Weaken

SimpleOps == {"command", "remove", "mask", "clear", "free", "queue", "emptyBuffer", "readIntoBuffer", "disconnect"}

\* Instructions with a single step are loose.
LEMMA LooseSimple ==
  ASSUME NEW i, i.op \in SimpleOps, Typed(i) PROVE Loose(<<i>>)
<1>1. ASSUME NEW p PROVE (Continues(i, p) => p = <<>>) /\ ~Escapes(i, p)
  BY DEF Continues, Escapes, EventOps, SimpleOps
<1>2. LooseEnd(Return(0)) /\ Loose(<<>>)
  BY LooseZero, LooseSkip
<1>3. \A k \in {i} : Loose(<<k>>)
  <2>1. Confined({i}, <<>>, <<>>, Return(0), Return(0))
    BY Zenon, <1>1 DEF Confined
  <2>2. QED
    BY Zenon, <1>2, <2>1, LooseInstruction
<1>4. QED
  BY <1>3

\* Commands the components know are loose.
LEMMA LooseCommand ==
  ASSUME NEW c \in Components, NEW cmd, NEW arg, KnownCommand(c, cmd, arg)
  PROVE  Loose(Command(c, cmd, arg))
<1> DEFINE i == [op |-> "command", c |-> c, cmd |-> cmd, arg |-> arg]
<1>1. i.op = "command" /\ i.c = c /\ i.cmd = cmd /\ i.arg = arg /\ Command(c, cmd, arg) = <<i>>
  BY DEF Command
<1> HIDE DEF i
<1>2. Typed(i)
  BY <1>1 DEF Typed
<1>3. QED
  BY <1>1, <1>2, LooseSimple DEF SimpleOps

\* Instructions without a script of their own are loose.
LEMMA LooseOneWord ==
  /\ \A c \in Components, all \in BOOLEAN : Loose(RemoveError(c, all))
  /\ \A on \in BOOLEAN : Loose(MaskUnpopulated(on))
  /\ \A c \in Components : Loose(ClearError(c)) /\ Loose(<<[op |-> "free", c |-> c]>>)
  /\ Loose(TeardownTunnels)
  /\ Loose(<<[op |-> "queue"]>>)
<1>1. ASSUME NEW c \in Components, NEW all \in BOOLEAN PROVE Loose(RemoveError(c, all))
  <2> DEFINE i == [op |-> "remove", c |-> c, all |-> all]
  <2>1. i.op = "remove" /\ i.c = c /\ i.all = all /\ RemoveError(c, all) = <<i>>
    BY DEF RemoveError
  <2> HIDE DEF i
  <2>2. Typed(i) /\ i.op \in SimpleOps
    BY <2>1 DEF Typed, SimpleOps
  <2>3. QED
    BY <2>1, <2>2, LooseSimple
<1>2. ASSUME NEW on \in BOOLEAN PROVE Loose(MaskUnpopulated(on))
  <2> DEFINE i == [op |-> "mask", on |-> on]
  <2>1. i.op = "mask" /\ i.on = on /\ MaskUnpopulated(on) = <<i>>
    BY DEF MaskUnpopulated
  <2> HIDE DEF i
  <2>2. Typed(i) /\ i.op \in SimpleOps
    BY <2>1 DEF Typed, SimpleOps
  <2>3. QED
    BY <2>1, <2>2, LooseSimple
<1>3. ASSUME NEW c \in Components PROVE Loose(ClearError(c))
  <2> DEFINE i == [op |-> "clear", c |-> c]
  <2>1. i.op = "clear" /\ i.c = c /\ ClearError(c) = <<i>>
    BY DEF ClearError
  <2> HIDE DEF i
  <2>2. Typed(i) /\ i.op \in SimpleOps
    BY <2>1 DEF Typed, SimpleOps
  <2>3. QED
    BY <2>1, <2>2, LooseSimple
<1>4. ASSUME NEW c \in Components PROVE Loose(<<[op |-> "free", c |-> c]>>)
  <2> DEFINE i == [op |-> "free", c |-> c]
  <2>1. i.op = "free" /\ i.c = c
    OBVIOUS
  <2> HIDE DEF i
  <2>2. Typed(i) /\ i.op \in SimpleOps
    BY <2>1 DEF Typed, SimpleOps
  <2>3. Loose(<<i>>)
    BY <2>2, LooseSimple
  <2>4. QED
    BY <2>3 DEF i
<1>5. Loose(TeardownTunnels)
  <2> DEFINE i == [op |-> "disconnect", onFail |-> <<>>]
  <2>1. i.op = "disconnect" /\ TeardownTunnels = <<i>>
    BY DEF TeardownTunnels, External
  <2> HIDE DEF i
  <2>2. Typed(i) /\ i.op \in SimpleOps
    BY <2>1 DEF Typed, SimpleOps, Plain
  <2>3. QED
    BY <2>1, <2>2, LooseSimple
<1>6. Loose(<<[op |-> "queue"]>>)
  <2> DEFINE i == [op |-> "queue"]
  <2>1. i.op = "queue"
    OBVIOUS
  <2> HIDE DEF i
  <2>2. Typed(i) /\ i.op \in SimpleOps
    BY <2>1 DEF Typed, SimpleOps, Plain
  <2>3. Loose(<<i>>)
    BY <2>2, LooseSimple
  <2>4. QED
    BY <2>3 DEF i
<1>7. QED
  BY Zenon, <1>1, <1>2, <1>3, <1>4, <1>5, <1>6

\* To wait for one of two answers is loose if the scripts on failure are loose ends.
LEMMA LooseAwaitEither ==
  ASSUME NEW c \in Components, NEW cmd, NEW arg, KnownCommand(c, cmd, arg), cmd # "Flush",
         NEW other \in Components \cup {NoOne}, other # c, NEW onFail, LooseEnd(onFail),
         NEW onOther, other # NoOne => LooseEnd(onOther)
  PROVE  Loose(AwaitEither(c, cmd, arg, other, onFail, onOther))
<1> DEFINE i == [op |-> "await", c |-> c, cmd |-> cmd, arg |-> arg, other |-> other,
                 onFail |-> onFail, onOther |-> onOther]
           j == [op |-> "sleep", c |-> c, cmd |-> cmd, arg |-> arg, other |-> other,
                 onFail |-> onFail, onOther |-> onOther]
           q == IF other # NoOne THEN onOther ELSE onFail
<1>1. /\ i.op = "await" /\ i.c = c /\ i.cmd = cmd /\ i.arg = arg /\ i.other = other
      /\ i.onFail = onFail /\ i.onOther = onOther /\ AwaitShape(i)
      /\ j.op = "sleep" /\ j.c = c /\ j.cmd = cmd /\ j.arg = arg /\ j.other = other
      /\ j.onFail = onFail /\ j.onOther = onOther /\ AwaitShape(j)
      /\ Turned(i, "sleep") = j /\ Turned(j, "await") = i
      /\ AwaitEither(c, cmd, arg, other, onFail, onOther) = <<i>>
  BY DEF Turned, AwaitEither, AwaitShape
<1> HIDE DEF i, j
<1>2. ASSUME NEW k \in {i, j} PROVE Typed(k)
  BY <1>1 DEF Typed, Waiting
<1>3. ASSUME NEW k \in {i, j}, NEW p, Continues(k, p) PROVE p = <<>> \/ \E l \in {i, j} : p = <<l>>
  BY <1>1, <1>3 DEF Continues
<1>4. ASSUME NEW k \in {i, j}, NEW p, Escapes(k, p) PROVE p \in {onFail, q}
  BY <1>1, <1>4 DEF Escapes, EventOps
<1>5. LooseEnd(q) /\ Loose(<<>>)
  BY LooseSkip
<1>6. \A k \in {i, j} : Loose(<<k>>)
  <2> HIDE DEF q
  <2>1. Confined({i, j}, <<>>, <<>>, onFail, q)
    BY Zenon, <1>2, <1>3, <1>4 DEF Confined
  <2>2. QED
    BY Zenon, <1>5, <2>1, LooseInstruction
<1>7. QED
  BY <1>1, <1>6

\* The same of a wait for one answer.
LEMMA LooseAwait ==
  ASSUME NEW c \in Components, NEW cmd, NEW arg, KnownCommand(c, cmd, arg), cmd # "Flush",
         NEW onFail, LooseEnd(onFail)
  PROVE  Loose(Await(c, cmd, arg, onFail))
<1>1. NoOne # c
  BY DEF NoOne, Components
<1>2. QED
  BY <1>1, LooseAwaitEither DEF Await

\* The same of a wait for an event.
LEMMA LooseAwaitEvent ==
  ASSUME NEW c \in Components, NEW event, NEW fs, FlagsOf(event) \cap fs # {}, NEW timed \in BOOLEAN,
         NEW onFail, onFail # <<>> => LooseEnd(onFail)
  PROVE  Loose(AwaitEvent(c, event, fs, timed, onFail))
<1> DEFINE i(op) == [op |-> op, c |-> c, event |-> event, flags |-> fs, timed |-> timed, onFail |-> onFail]
           J == {i(op) : op \in EventOps}
           q == IF onFail # <<>> THEN onFail ELSE Return(0)
<1>1. ASSUME NEW op \in EventOps
      PROVE  /\ i(op).op = op /\ i(op).c = c /\ i(op).event = event /\ i(op).flags = fs
             /\ i(op).timed = timed /\ i(op).onFail = onFail /\ EventShape(i(op))
             /\ \A o \in EventOps : Turned(i(op), o) = i(o)
  BY DEF Turned, EventShape
<1>2. AwaitEvent(c, event, fs, timed, onFail) = <<i("event")>>
  BY DEF AwaitEvent
<1> HIDE DEF i
<1>3. ASSUME NEW op \in EventOps PROVE Typed(i(op))
  BY <1>1, <1>3 DEF Typed
<1>4. ASSUME NEW op \in EventOps, NEW p, Continues(i(op), p) PROVE p = <<>> \/ \E l \in J : p = <<l>>
  <2>1. p = <<>> \/ \E o \in EventOps : p = <<Turned(i(op), o)>>
    BY <1>1, <1>4 DEF Continues, EventOps
  <2>2. QED
    BY <1>1, <2>1
<1>5. ASSUME NEW op \in EventOps, NEW p, Escapes(i(op), p) PROVE p \in {q, q} \/ p \in Returns
  <2>1. PICK k : k = i(op)
    OBVIOUS
  <2>2. k.op \in EventOps /\ k.onFail = onFail /\ Escapes(k, p)
    BY <1>1, <1>5, <2>1
  <2>3. IF onFail = <<>> THEN \E v \in {-1, -2, -3} : p = Return(v) ELSE p = onFail
    BY <2>2 DEF Escapes, EventOps
  <2>4. QED
    BY <2>3 DEF Returns
<1>6. LooseEnd(q) /\ Loose(<<>>)
  BY LooseSkip, LooseZero
<1>7. \A k \in J : Loose(<<k>>)
  <2> HIDE DEF q
  <2>1. Confined(J, <<>>, <<>>, q, q)
    BY <1>3, <1>4, <1>5 DEF Confined
  <2> HIDE DEF J
  <2>2. QED
    BY Zenon, <1>6, <2>1, LooseInstruction
<1>8. i("event") \in J
  BY DEF EventOps
<1>9. QED
  BY <1>2, <1>7, <1>8

\* A choice between loose scripts is loose.
LEMMA LooseIf ==
  ASSUME NEW condition \in {"sink Loaded", "source Loaded", "in enabled"},
         NEW yes, NEW no, Loose(yes), Loose(no)
  PROVE  Loose(If(condition, yes, no))
<1> DEFINE i == [op |-> "if", condition |-> condition, yes |-> yes, no |-> no]
<1>1. i.op = "if" /\ i.condition = condition /\ i.yes = yes /\ i.no = no /\ If(condition, yes, no) = <<i>>
  BY DEF If
<1> HIDE DEF i
<1>2. Typed(i)
  BY <1>1 DEF Typed
<1>3. ASSUME NEW p PROVE (Continues(i, p) => p = yes \/ p = no) /\ ~Escapes(i, p)
  BY <1>1 DEF Continues, Escapes, EventOps
<1>4. \A k \in {i} : Loose(<<k>>)
  <2>1. Confined({i}, yes, no, Return(0), Return(0))
    BY Zenon, <1>2, <1>3 DEF Confined
  <2>2. LooseEnd(Return(0))
    BY LooseZero
  <2>3. QED
    BY Zenon, <2>1, <2>2, LooseInstruction
<1>5. QED
  BY <1>1, <1>4

\* A loose end is loose: it goes nowhere.
LEMMA LooseEndIsLoose ==
  ASSUME NEW s, LooseEnd(s) PROVE Loose(s)
<1> SUFFICES ASSUME NEW f PROVE Leads(f, Lost, s, Lost)
  BY Zenon DEF Loose
<1>1. Leads(f, Lost, s, {})
  BY Zenon, EndsLeads DEF LooseEnd
<1>2. QED
  BY <1>1, Weaken

\* To give up where the port may not be enabled is loose.
LEMMA LooseUnless ==
  ASSUME NEW no, LooseEnd(no)
  PROVE  Loose(If("in may be enabled", <<>>, no))
<1> DEFINE i == [op |-> "if", condition |-> "in may be enabled", yes |-> <<>>, no |-> no]
<1>1. /\ i.op = "if" /\ i.condition = "in may be enabled" /\ i.yes = <<>> /\ i.no = no
      /\ If("in may be enabled", <<>>, no) = <<i>>
  BY DEF If
<1> HIDE DEF i
<1>2. Typed(i)
  BY <1>1 DEF Typed
<1>3. ASSUME NEW p PROVE (Continues(i, p) => p = <<>> \/ p = no) /\ (Escapes(i, p) => p = no)
  BY <1>1 DEF Continues, Escapes, EventOps
<1>4. \A k \in {i} : Loose(<<k>>)
  <2>1. Confined({i}, <<>>, no, no, no)
    BY Zenon, <1>2, <1>3 DEF Confined
  <2>2. Loose(no) /\ Loose(<<>>)
    BY LooseEndIsLoose, LooseSkip
  <2>3. QED
    BY Zenon, <2>1, <2>2, LooseInstruction
<1>5. QED
  BY <1>1, <1>4

\* Calls of external code that may fail are loose if their failure is a loose end.
LEMMA LooseEscape ==
  ASSUME NEW i, i.op \in {"streams", "connect", "configure", "getHandle", "use"}, Typed(i),
         i.op # "streams" => LooseEnd(i.onFail)
  PROVE  Loose(<<i>>)
<1> DEFINE q == IF i.op = "streams" THEN Return(0) ELSE i.onFail
<1>1. ASSUME NEW p, Continues(i, p) PROVE p = <<>>
  BY <1>1 DEF Continues
<1>2. ASSUME NEW p, Escapes(i, p) PROVE p \in {q, q} \/ p \in Returns
  <2>1. \/ \E v \in {-3, -4} : p = Return(v)
        \/ i.op # "streams" /\ p = i.onFail
    BY <1>2 DEF Escapes, EventOps
  <2>2. QED
    BY <2>1 DEF Returns
<1>3. LooseEnd(q) /\ Loose(<<>>)
  BY LooseZero, LooseSkip
<1>4. \A k \in {i} : Loose(<<k>>)
  <2> HIDE DEF q
  <2>1. Confined({i}, <<>>, <<>>, q, q)
    BY Zenon, <1>1, <1>2 DEF Confined
  <2>2. QED
    BY Zenon, <1>3, <2>1, LooseInstruction
<1>5. QED
  BY <1>4

\* The same of the constructor of such calls.
LEMMA LooseExternal ==
  ASSUME NEW what \in {"streams", "connect", "configure", "getHandle"}, NEW onFail,
         what # "streams" => LooseEnd(onFail)
  PROVE  Loose(External(what, onFail))
<1> DEFINE i == [op |-> what, onFail |-> onFail]
<1>1. i.op = what /\ i.onFail = onFail /\ External(what, onFail) = <<i>>
  BY DEF External
<1> HIDE DEF i
<1>2. Typed(i)
  BY <1>1 DEF Typed, Plain
<1>3. QED
  BY <1>1, <1>2, LooseEscape

\* To take a buffer and to give it to the component, once or for ever, are loose.
LEMMA LooseRender ==
  /\ Loose(<<[op |-> "getBuffer"]>>)
  /\ Loose(<<[op |-> "emptyBuffer"]>>) /\ Loose(<<[op |-> "readIntoBuffer"]>>)
<1> DEFINE i == [op |-> "getBuffer"]
           j == [op |-> "getSleep"]
<1>1. ASSUME NEW op \in {"emptyBuffer", "readIntoBuffer"} PROVE Loose(<<[op |-> op]>>)
  <2> DEFINE k == [op |-> op]
  <2>1. k.op = op
    OBVIOUS
  <2> HIDE DEF k
  <2>2. Typed(k) /\ k.op \in SimpleOps
    BY <2>1 DEF Typed, SimpleOps, Plain
  <2>3. Loose(<<k>>)
    BY <2>2, LooseSimple
  <2>4. QED
    BY <2>3 DEF k
<1>2. /\ i.op = "getBuffer" /\ j.op = "getSleep" /\ GetShape(i) /\ GetShape(j)
      /\ Turned(i, "getSleep") = j /\ Turned(j, "getBuffer") = i
  BY DEF Turned, GetShape
<1>3. Loose(<<i>>)
  <2> HIDE DEF i, j
  <2>1. ASSUME NEW l \in {i, j} PROVE Typed(l)
    BY <1>2 DEF Typed, Getting
  <2>2. ASSUME NEW l \in {i, j}, NEW p, Continues(l, p) PROVE p = <<>> \/ \E m \in {i, j} : p = <<m>>
    BY <1>2, <2>2 DEF Continues
  <2>3. ASSUME NEW l \in {i, j}, NEW p PROVE ~Escapes(l, p)
    BY <1>2 DEF Escapes, EventOps
  <2>4. Confined({i, j}, <<>>, <<>>, Return(0), Return(0))
    BY Zenon, <2>1, <2>2, <2>3 DEF Confined
  <2>5. \A l \in {i, j} : Loose(<<l>>)
    BY Zenon, <2>4, LooseZero, LooseSkip, LooseInstruction
  <2>6. QED
    BY <2>5
<1>4. QED
  BY <1>1, <1>3

\* The loop that collects the buffers of a port is loose.
LEMMA LooseDrain ==
  ASSUME NEW num \in Int PROVE Loose(<<[op |-> "drain", num |-> num]>>)
<1> DEFINE i(o, n) == [op |-> o, num |-> n]
           J == [op : Draining, num : Int]
           t == Await("source", "PortDisable", "in", FailAssert)
<1>1. Loose(t)
  <2>1. Aborted \in Int /\ KnownCommand("source", "PortDisable", "in") /\ "source" \in Components
    BY DEF Aborted, KnownCommand, PortsOf, Ports, Owner, Components
  <2>2. LooseEnd(FailAssert)
    BY <2>1, LooseReturn DEF FailAssert
  <2>3. "PortDisable" # "Flush"
    OBVIOUS
  <2>4. QED
    BY Zenon, <2>1, <2>2, <2>3, LooseAwait
<1> HIDE DEF t
<1>2. ASSUME NEW k \in J
      PROVE  /\ k.op \in Draining /\ k.num \in Int /\ DrainShape(k)
             /\ Counted(k) \in J /\ \A o \in Draining : Turned(k, o) \in J
  BY DEF DrainShape, Counted, Turned
<1> HIDE DEF J
<1>3. ASSUME NEW k \in J PROVE Typed(k)
  BY <1>2 DEF Typed
<1>4. ASSUME NEW k \in J, NEW p, Continues(k, p) PROVE p = <<>> \/ (\E l \in J : p = <<l>>) \/ p = t
  <2>1. \/ p = <<>> \/ p = t \/ p = <<Counted(k)>>
        \/ \E o \in Draining : p = <<Turned(k, o)>>
    BY <1>2, <1>4 DEF Continues, Draining, t
  <2>2. QED
    BY <1>2, <2>1
<1>5. ASSUME NEW k \in J, NEW p PROVE ~Escapes(k, p)
  BY <1>2 DEF Escapes, EventOps, Draining
<1>6. Confined(J, t, t, Return(0), Return(0))
  BY Zenon, <1>3, <1>4, <1>5 DEF Confined
<1>7. \A k \in J : Loose(<<k>>)
  BY Zenon, <1>1, <1>6, LooseZero, LooseInstruction
<1>8. [op |-> "drain", num |-> num] \in J
  BY DEF J, Draining
<1>9. QED
  BY <1>7, <1>8

\* The buffers of a port, one after the other.
Uses(n, onFail) == [b \in 1 .. n |-> [op |-> "use", b |-> b, onFail |-> onFail]]
UseOf(b, onFail) == [op |-> "use", b |-> b, onFail |-> onFail]

\* OMX_UseBuffer for n + 1 buffers is that for n of them and one more.
LEMMA OneMoreUse ==
  ASSUME NEW n \in Nat, NEW onFail
  PROVE  Uses(n + 1, onFail) = Uses(n, onFail) \o <<UseOf(n + 1, onFail)>>
<1> DEFINE S == {UseOf(b, onFail) : b \in Nat}
           u == Uses(n, onFail)
           v == <<UseOf(n + 1, onFail)>>
           w == Uses(n + 1, onFail)
<1>1. \A b \in Nat : [op |-> "use", b |-> b, onFail |-> onFail] \in S
  BY DEF UseOf
<1>2. u \in Seq(S) /\ Len(u) = n /\ w \in Seq(S) /\ Len(w) = n + 1
  <2>1. u \in [1 .. n -> S] /\ w \in [1 .. n + 1 -> S]
    <3> HIDE DEF S
    <3>1. QED
      BY <1>1 DEF Uses
  <2> HIDE DEF S, u, w
  <2>2. n + 1 \in Nat
    OBVIOUS
  <2>3. QED
    BY <2>1, <2>2
<1>3. v \in Seq(S) /\ Len(v) = 1 /\ v[1] = UseOf(n + 1, onFail)
  <2>1. UseOf(n + 1, onFail) \in S
    BY <1>1 DEF UseOf
  <2> HIDE DEF S
  <2>2. QED
    BY <2>1
<1>4. \A b \in 1 .. n : u[b] = UseOf(b, onFail)
  BY DEF Uses, UseOf
<1>5. \A b \in 1 .. n + 1 : w[b] = UseOf(b, onFail)
  BY DEF Uses, UseOf
<1> HIDE DEF S, u, v, w
<1>6. /\ u \o v \in Seq(S) /\ Len(u \o v) = n + 1
      /\ \A b \in 1 .. n + 1 : (u \o v)[b] = IF b <= n THEN u[b] ELSE v[b - n]
  <2>1. /\ u \o v \in Seq(S) /\ Len(u \o v) = Len(u) + Len(v)
        /\ \A b \in 1 .. Len(u) + Len(v) : (u \o v)[b] = IF b <= Len(u) THEN u[b] ELSE v[b - Len(u)]
    BY Zenon, <1>2, <1>3, ConcatProperties
  <2>2. Len(u) = n /\ Len(v) = 1
    BY <1>2, <1>3
  <2>3. QED
    BY Zenon, <2>1, <2>2
<1>7. ASSUME NEW b \in 1 .. n + 1 PROVE (u \o v)[b] = w[b]
  <2>1. CASE b <= n
    BY <1>4, <1>5, <1>6, <2>1
  <2>2. CASE b = n + 1
    BY <1>3, <1>5, <1>6, <2>2
  <2>3. b <= n \/ b = n + 1
    OBVIOUS
  <2>4. QED
    BY Zenon, <2>1, <2>2, <2>3
<1>8. QED
  <2>1. Len(w) = Len(u \o v)
    BY <1>2, <1>6
  <2>2. w = u \o v
    BY <1>2, <1>6, <1>7, <2>1, SeqEqual
  <2>3. QED
    BY <2>2 DEF u, v, w

\* OMX_UseBuffer for all buffers is loose if its failure is a loose end.
LEMMA LooseUses ==
  ASSUME NEW onFail, LooseEnd(onFail) PROVE Loose(Uses(NumBuffers, onFail))
<1> DEFINE T == {n \in Nat : n <= NumBuffers => Loose(Uses(n, onFail))}
<1>1. 0 \in T
  <2>1. Uses(0, onFail) = <<>>
    BY DEF Uses
  <2>2. QED
    BY <2>1, LooseSkip
<1>2. ASSUME NEW n \in Nat, n \in T PROVE n + 1 \in T
  <2>1. SUFFICES ASSUME n + 1 <= NumBuffers PROVE Loose(Uses(n + 1, onFail))
    OBVIOUS
  <2>2. NumBuffers \in Nat
    BY ClientAssumption
  <2>3. Loose(Uses(n, onFail)) /\ n + 1 \in Buffers
    BY <1>2, <2>1, <2>2 DEF Buffers
  <2> DEFINE i == UseOf(n + 1, onFail)
  <2>4. i.op = "use" /\ i.b = n + 1 /\ i.onFail = onFail
    BY DEF UseOf
  <2> HIDE DEF i
  <2>5. Typed(i)
    BY <2>3, <2>4 DEF Typed
  <2>6. Loose(<<i>>)
    BY <2>4, <2>5, LooseEscape
  <2>7. Loose(Uses(n, onFail) \o <<i>>)
    BY <2>3, <2>6, LooseSequence
  <2>8. QED
    BY <2>7, OneMoreUse DEF i
<1>3. NumBuffers \in T
  <2> HIDE DEF T
  <2>1. NumBuffers \in Nat
    BY ClientAssumption
  <2>2. QED
    BY <1>1, <1>2, <2>1, SetInduction
<1>4. QED
  BY <1>3, ClientAssumption

\* The components know the commands for their own ports and the three states.
LEMMA KnownCommands ==
  /\ \A p \in Ports : /\ Owner(p) \in Components
                      /\ \A cmd \in {"PortEnable", "PortDisable", "Flush"} : KnownCommand(Owner(p), cmd, p)
  /\ \A c \in Components, s \in {"Loaded", "Idle", "Executing"} : KnownCommand(c, "StateSet", s)
  /\ Owner("in") = "source" /\ Owner("out") = "source" /\ Owner("render") = "sink"
  /\ {"in", "out", "render"} \subseteq Ports /\ {"source", "sink"} \subseteq Components
BY DEF KnownCommand, PortsOf, Ports, Owner, Components

\* To end in a failed assertion is a loose end.
LEMMA LooseFailAssert == LooseEnd(FailAssert)
<1>1. Aborted \in Int
  BY DEF Aborted
<1>2. QED
  BY Zenon, <1>1, LooseReturn DEF FailAssert

\* ilclient_change_component_state() is loose.
LEMMA LooseChangeState ==
  ASSUME NEW c \in Components, NEW s \in {"Loaded", "Idle", "Executing"}, NEW onFail, LooseEnd(onFail)
  PROVE  Loose(ChangeComponentState(c, s, onFail))
<1>1. KnownCommand(c, "StateSet", s)
  BY KnownCommands
<1>2. Loose(Command(c, "StateSet", s))
  BY Zenon, <1>1, LooseCommand
<1>3. Loose(RemoveError(c, TRUE))
  BY LooseOneWord
<1>4. LooseEnd(RemoveError(c, TRUE) \o onFail)
  BY Zenon, <1>3, LooseFinish
<1>5. "StateSet" # "Flush"
  OBVIOUS
<1>6. Loose(Await(c, "StateSet", s, RemoveError(c, TRUE) \o onFail))
  BY Zenon, <1>1, <1>4, <1>5, LooseAwait
<1>7. QED
  BY Zenon, <1>2, <1>6, LooseSequence DEF ChangeComponentState

\* Commands for a port, and the waits for them, are loose.
LEMMA LoosePort ==
  ASSUME NEW p \in Ports, NEW onFail, LooseEnd(onFail)
  PROVE  /\ Loose(Command(Owner(p), "PortEnable", p)) /\ Loose(Command(Owner(p), "PortDisable", p))
         /\ Loose(Command(Owner(p), "Flush", p))
         /\ Loose(Await(Owner(p), "PortEnable", p, onFail)) /\ Loose(Await(Owner(p), "PortDisable", p, onFail))
<1>1. /\ Owner(p) \in Components /\ KnownCommand(Owner(p), "PortEnable", p)
      /\ KnownCommand(Owner(p), "PortDisable", p) /\ KnownCommand(Owner(p), "Flush", p)
  BY KnownCommands
<1>2. "PortEnable" # "Flush" /\ "PortDisable" # "Flush"
  OBVIOUS
<1>3. QED
  BY Zenon, <1>1, <1>2, LooseCommand, LooseAwait

\* ilclient_disable_port() is loose.
LEMMA LooseDisablePort ==
  ASSUME NEW p \in Ports PROVE Loose(DisablePort(p))
BY Zenon, LooseFailAssert, LoosePort, LooseSequence DEF DisablePort

\* The commands and waits that a tunnel needs are loose.
LEMMA LooseTunnelPorts ==
  ASSUME NEW onFail, LooseEnd(onFail)
  PROVE  /\ Loose(Command("source", "PortEnable", "out")) /\ Loose(Command("sink", "PortEnable", "render"))
         /\ Loose(Command("source", "PortDisable", "out")) /\ Loose(Command("sink", "PortDisable", "render"))
         /\ Loose(Command("source", "Flush", "out")) /\ Loose(Command("sink", "Flush", "render"))
         /\ Loose(Command("source", "PortEnable", "in")) /\ Loose(Command("source", "PortDisable", "in"))
         /\ Loose(Await("source", "PortEnable", "out", onFail)) /\ Loose(Await("sink", "PortEnable", "render", onFail))
         /\ Loose(Await("source", "PortDisable", "out", onFail)) /\ Loose(Await("sink", "PortDisable", "render", onFail))
         /\ Loose(Await("source", "PortEnable", "in", onFail))
<1>1. /\ "in" \in Ports /\ "out" \in Ports /\ "render" \in Ports
      /\ Owner("in") = "source" /\ Owner("out") = "source" /\ Owner("render") = "sink"
  BY KnownCommands
<1>2. /\ Loose(Command(Owner("out"), "PortEnable", "out")) /\ Loose(Command(Owner("out"), "PortDisable", "out"))
      /\ Loose(Command(Owner("out"), "Flush", "out"))
      /\ Loose(Await(Owner("out"), "PortEnable", "out", onFail)) /\ Loose(Await(Owner("out"), "PortDisable", "out", onFail))
  BY Zenon, <1>1, LoosePort
<1>3. /\ Loose(Command(Owner("render"), "PortEnable", "render")) /\ Loose(Command(Owner("render"), "PortDisable", "render"))
      /\ Loose(Command(Owner("render"), "Flush", "render"))
      /\ Loose(Await(Owner("render"), "PortEnable", "render", onFail))
      /\ Loose(Await(Owner("render"), "PortDisable", "render", onFail))
  BY Zenon, <1>1, LoosePort
<1>4. /\ Loose(Command(Owner("in"), "PortEnable", "in")) /\ Loose(Command(Owner("in"), "PortDisable", "in"))
      /\ Loose(Await(Owner("in"), "PortEnable", "in", onFail))
  BY Zenon, <1>1, LoosePort
<1>5. QED
  BY Zenon, <1>1, <1>2, <1>3, <1>4

\* ilclient_disable_tunnel() is loose.
LEMMA LooseDisableTunnel == Loose(DisableTunnel)
<1>1. Loose(MaskUnpopulated(TRUE)) /\ Loose(MaskUnpopulated(FALSE))
  BY LooseOneWord
<1>2. /\ Loose(Command("source", "PortDisable", "out")) /\ Loose(Command("sink", "PortDisable", "render"))
      /\ Loose(Await("source", "PortDisable", "out", FailAssert))
      /\ Loose(Await("sink", "PortDisable", "render", FailAssert))
  BY Zenon, LooseFailAssert, LooseTunnelPorts
<1>3. QED
  BY Zenon, <1>1, <1>2, LooseSequence DEF DisableTunnel

\* ilclient_enable_tunnel() is loose.
LEMMA LooseEnableTunnel ==
  ASSUME NEW onFail, LooseEnd(onFail) PROVE Loose(EnableTunnel(onFail))
<1> DEFINE sourceFailed == DisablePort("render") \o DisablePort("out") \o onFail
           toIdle == Await("sink", "PortEnable", "render", DisablePort("out") \o onFail)
                       \o Command("sink", "StateSet", "Idle")
                       \o AwaitEither("sink", "StateSet", "Idle", "source", DisablePort("out") \o onFail,
                                      Await("source", "PortEnable", "out", sourceFailed) \o sourceFailed)
           noSink == DisablePort("out")
                       \o AwaitEvent("source", Done("PortEnable", "out"), {"PORT_ENABLED", "ERROR"}, FALSE, onFail)
                       \o onFail
<1>1. Loose(DisablePort("render")) /\ Loose(DisablePort("out"))
  BY LooseDisablePort, KnownCommands
<1>2. LooseEnd(DisablePort("out") \o onFail) /\ LooseEnd(DisablePort("render") \o onFail)
  BY Zenon, <1>1, LooseFinish
<1>3. Loose(DisablePort("render") \o DisablePort("out"))
  BY Zenon, <1>1, LooseSequence
<1>4. LooseEnd(sourceFailed)
  BY Zenon, <1>3, LooseFinish
<1> HIDE DEF sourceFailed
<1>5. Loose(Await("source", "PortEnable", "out", sourceFailed))
  BY Zenon, <1>4, LooseTunnelPorts
<1>6. LooseEnd(Await("source", "PortEnable", "out", sourceFailed) \o sourceFailed)
  BY Zenon, <1>4, <1>5, LooseFinish
<1>7. Loose(AwaitEither("sink", "StateSet", "Idle", "source", DisablePort("out") \o onFail,
                        Await("source", "PortEnable", "out", sourceFailed) \o sourceFailed))
  <2>1. /\ "sink" \in Components /\ KnownCommand("sink", "StateSet", "Idle") /\ "StateSet" # "Flush"
        /\ "source" \in Components \cup {NoOne} /\ "source" # "sink"
    BY KnownCommands
  <2>2. QED
    BY Zenon, <1>2, <1>6, <2>1, LooseAwaitEither
<1>8. Loose(Await("sink", "PortEnable", "render", DisablePort("out") \o onFail))
  BY Zenon, <1>2, LooseTunnelPorts
<1>9. Loose(Command("sink", "StateSet", "Idle"))
  BY KnownCommands, LooseCommand
<1>10. Loose(toIdle)
  <2>1. Loose(Await("sink", "PortEnable", "render", DisablePort("out") \o onFail)
                \o Command("sink", "StateSet", "Idle"))
    BY Zenon, <1>8, <1>9, LooseSequence
  <2>2. QED
    BY Zenon, <1>7, <2>1, LooseSequence
<1>11. Loose(AwaitEvent("source", Done("PortEnable", "out"), {"PORT_ENABLED", "ERROR"}, FALSE, onFail))
  <2>1. FlagsOf(Done("PortEnable", "out")) \cap {"PORT_ENABLED", "ERROR"} # {}
    BY DEF FlagsOf, Done, FlagOfCommand
  <2>2. "source" \in Components /\ FALSE \in BOOLEAN
    BY KnownCommands
  <2>3. QED
    BY Zenon, <2>1, <2>2, LooseAwaitEvent
<1>12. LooseEnd(noSink)
  <2>1. Loose(DisablePort("out")
                \o AwaitEvent("source", Done("PortEnable", "out"), {"PORT_ENABLED", "ERROR"}, FALSE, onFail))
    BY Zenon, <1>1, <1>11, LooseSequence
  <2>2. QED
    BY Zenon, <2>1, LooseFinish
<1> HIDE DEF toIdle, noSink
<1>13. Loose(Await("sink", "PortEnable", "render", noSink))
  BY Zenon, <1>12, LooseTunnelPorts
<1>14. Loose(If("sink Loaded", toIdle, Await("sink", "PortEnable", "render", noSink)))
  BY <1>10, <1>13, LooseIf
<1>15. /\ Loose(Await("source", "PortEnable", "out", DisablePort("render") \o onFail))
       /\ Loose(Command("source", "PortEnable", "out")) /\ Loose(Command("sink", "PortEnable", "render"))
  BY Zenon, <1>2, LooseTunnelPorts
<1>16. Loose(Command("source", "PortEnable", "out") \o Command("sink", "PortEnable", "render"))
  BY Zenon, <1>15, LooseSequence
<1>17. Loose(Command("source", "PortEnable", "out") \o Command("sink", "PortEnable", "render")
               \o If("sink Loaded", toIdle, Await("sink", "PortEnable", "render", noSink)))
  BY Zenon, <1>14, <1>16, LooseSequence
<1>18. QED
  BY Zenon, <1>15, <1>17, LooseSequence DEF EnableTunnel, toIdle, noSink, sourceFailed

\* The values that calls return are loose ends.
LEMMA LooseReturns3 == \A v \in {0, -1, -2, -5} : LooseEnd(Return(v))
<1>1. ASSUME NEW v \in {0, -1, -2, -5} PROVE LooseEnd(Return(v))
  <2>1. v \in Int
    OBVIOUS
  <2>2. QED
    BY Zenon, <2>1, LooseReturn
<1>2. QED
  BY Zenon, <1>1

\* ilclient_setup_tunnel() is loose.
LEMMA LooseSetupTunnel ==
  ASSUME NEW timed \in BOOLEAN PROVE Loose(SetupTunnel(timed))
<1> DEFINE incompatible == TeardownTunnels \o Return(-5)
           notEnabled == TeardownTunnels \o RemoveError("sink", TRUE) \o RemoveError("source", TRUE) \o Return(-5)
           settings == AwaitEvent("source", <<"PortSettingsChanged", "out", "-">>,
                                  {"PARAMETER_CHANGED", "ERROR"}, TRUE, <<>>)
           first == If("source Loaded", ChangeComponentState("source", "Idle", Return(-2)), <<>>)
           second == IF timed THEN settings ELSE <<>>
<1>1. LooseEnd(Return(-2)) /\ LooseEnd(Return(-5)) /\ LooseEnd(Return(0))
  BY LooseReturns3
<1>2. Loose(TeardownTunnels) /\ Loose(RemoveError("sink", TRUE)) /\ Loose(RemoveError("source", TRUE))
  BY LooseOneWord, KnownCommands
<1>3. LooseEnd(incompatible)
  BY Zenon, <1>1, <1>2, LooseFinish
<1>4. LooseEnd(notEnabled)
  <2>1. Loose(TeardownTunnels \o RemoveError("sink", TRUE))
    BY Zenon, <1>2, LooseSequence
  <2>2. Loose(TeardownTunnels \o RemoveError("sink", TRUE) \o RemoveError("source", TRUE))
    BY Zenon, <1>2, <2>1, LooseSequence
  <2>3. QED
    BY Zenon, <1>1, <2>2, LooseFinish
<1>5. Loose(first)
  <2>1. "source" \in Components /\ "Idle" \in {"Loaded", "Idle", "Executing"}
    BY KnownCommands
  <2>2. Loose(ChangeComponentState("source", "Idle", Return(-2)))
    BY Zenon, <1>1, <2>1, LooseChangeState
  <2>3. "source Loaded" \in {"sink Loaded", "source Loaded", "in enabled"}
    OBVIOUS
  <2>4. QED
    BY Zenon, <2>2, <2>3, LooseSkip, LooseIf
<1>6. Loose(second)
  <2>1. FlagsOf(<<"PortSettingsChanged", "out", "-">>) \cap {"PARAMETER_CHANGED", "ERROR"} # {}
    BY DEF FlagsOf, IsError
  <2>2. "source" \in Components /\ TRUE \in BOOLEAN
    BY KnownCommands
  <2>3. Loose(settings)
    BY Zenon, <2>1, <2>2, LooseAwaitEvent
  <2> HIDE DEF settings
  <2>4. QED
    BY <2>3, LooseSkip
<1> HIDE DEF first, second, notEnabled, incompatible
<1>7. Loose(External("streams", <<>>)) /\ Loose(External("connect", incompatible))
  <2>1. "streams" \in {"streams", "connect", "configure", "getHandle"}
        /\ "connect" \in {"streams", "connect", "configure", "getHandle"}
    OBVIOUS
  <2>2. QED
    BY Zenon, <1>3, <2>1, LooseExternal
<1>8. Loose(EnableTunnel(notEnabled)) /\ Loose(DisableTunnel)
  BY Zenon, <1>4, LooseEnableTunnel, LooseDisableTunnel
<1>9. Loose(first \o second)
  BY Zenon, <1>5, <1>6, LooseSequence
<1>10. Loose(first \o second \o DisableTunnel)
  BY Zenon, <1>8, <1>9, LooseSequence
<1>11. Loose(first \o second \o DisableTunnel \o External("streams", <<>>))
  BY Zenon, <1>7, <1>10, LooseSequence
<1>12. Loose(first \o second \o DisableTunnel \o External("streams", <<>>) \o External("connect", incompatible))
  BY Zenon, <1>7, <1>11, LooseSequence
<1>13. Loose(first \o second \o DisableTunnel \o External("streams", <<>>) \o External("connect", incompatible)
               \o EnableTunnel(notEnabled))
  BY Zenon, <1>8, <1>12, LooseSequence
<1>14. Loose(Return(0))
  BY Zenon, <1>1, LooseEndIsLoose
<1>15. Loose(first \o second \o DisableTunnel \o External("streams", <<>>) \o External("connect", incompatible)
               \o EnableTunnel(notEnabled) \o Return(0))
  BY Zenon, <1>13, <1>14, LooseSequence
<1>16. QED
  BY Zenon, <1>15 DEF SetupTunnel, first, second, incompatible, notEnabled

\* ilclient_flush_tunnels() is loose.
LEMMA LooseFlushTunnels == Loose(FlushTunnels)
<1>1. ASSUME NEW c \in Components, NEW p PROVE Loose(AwaitEvent(c, Done("Flush", p), {"PORT_FLUSH"}, FALSE, <<>>))
  <2>1. FlagsOf(Done("Flush", p)) = {"PORT_FLUSH"}
    <3>1. Done("Flush", p)[1] = "CmdComplete" /\ Done("Flush", p)[2] = "Flush"
      BY DEF Done
    <3>2. FlagOfCommand("Flush") = "PORT_FLUSH"
      BY DEF FlagOfCommand
    <3>3. QED
      BY <3>1, <3>2 DEF FlagsOf, IsError
  <2>2. FALSE \in BOOLEAN /\ {"PORT_FLUSH"} \cap {"PORT_FLUSH"} # {}
    OBVIOUS
  <2>3. FlagsOf(Done("Flush", p)) \cap {"PORT_FLUSH"} # {}
    BY Zenon, <2>1, <2>2
  <2>4. QED
    BY Zenon, <2>2, <2>3, LooseAwaitEvent
<1>2. /\ Loose(AwaitEvent("source", Done("Flush", "out"), {"PORT_FLUSH"}, FALSE, <<>>))
      /\ Loose(AwaitEvent("sink", Done("Flush", "render"), {"PORT_FLUSH"}, FALSE, <<>>))
  BY <1>1, KnownCommands
<1>3. Loose(Command("source", "Flush", "out")) /\ Loose(Command("sink", "Flush", "render"))
  BY Zenon, LooseFailAssert, LooseTunnelPorts
<1>4. Loose(Command("source", "Flush", "out") \o Command("sink", "Flush", "render"))
  BY Zenon, <1>3, LooseSequence
<1>5. Loose(Command("source", "Flush", "out") \o Command("sink", "Flush", "render")
              \o AwaitEvent("source", Done("Flush", "out"), {"PORT_FLUSH"}, FALSE, <<>>))
  BY Zenon, <1>2, <1>4, LooseSequence
<1>6. QED
  BY Zenon, <1>2, <1>5, LooseSequence DEF FlushTunnels

\* ilclient_state_transition() is loose.
LEMMA LooseStateTransition ==
  ASSUME NEW first \in Components, NEW second \in Components, NEW s \in {"Loaded", "Idle", "Executing"}
  PROVE  Loose(StateTransition(first, second, s))
<1>1. Loose(MaskUnpopulated(s = "Loaded")) /\ Loose(MaskUnpopulated(FALSE))
  BY LooseOneWord
<1>2. Loose(ClearError(first)) /\ Loose(ClearError(second))
  BY LooseOneWord
<1>3. KnownCommand(first, "StateSet", s) /\ KnownCommand(second, "StateSet", s)
      /\ KnownCommand("source", "StateSet", s) /\ KnownCommand("sink", "StateSet", s)
  BY KnownCommands
<1>4. Loose(Command(first, "StateSet", s)) /\ Loose(Command(second, "StateSet", s))
  BY Zenon, <1>3, LooseCommand
<1>5. Loose(Await("source", "StateSet", s, FailAssert)) /\ Loose(Await("sink", "StateSet", s, FailAssert))
  <2>1. "source" \in Components /\ "sink" \in Components /\ "StateSet" # "Flush"
    BY KnownCommands
  <2>2. QED
    BY Zenon, <1>3, <2>1, LooseFailAssert, LooseAwait
<1>6. Loose(MaskUnpopulated(s = "Loaded") \o ClearError(first))
  BY Zenon, <1>1, <1>2, LooseSequence
<1>7. Loose(MaskUnpopulated(s = "Loaded") \o ClearError(first) \o Command(first, "StateSet", s))
  BY Zenon, <1>4, <1>6, LooseSequence
<1>8. Loose(MaskUnpopulated(s = "Loaded") \o ClearError(first) \o Command(first, "StateSet", s)
              \o ClearError(second))
  BY Zenon, <1>2, <1>7, LooseSequence
<1>9. Loose(MaskUnpopulated(s = "Loaded") \o ClearError(first) \o Command(first, "StateSet", s)
              \o ClearError(second) \o Command(second, "StateSet", s))
  BY Zenon, <1>4, <1>8, LooseSequence
<1>10. Loose(MaskUnpopulated(s = "Loaded") \o ClearError(first) \o Command(first, "StateSet", s)
               \o ClearError(second) \o Command(second, "StateSet", s) \o Await("source", "StateSet", s, FailAssert))
  BY Zenon, <1>5, <1>9, LooseSequence
<1>11. Loose(MaskUnpopulated(s = "Loaded") \o ClearError(first) \o Command(first, "StateSet", s)
               \o ClearError(second) \o Command(second, "StateSet", s) \o Await("source", "StateSet", s, FailAssert)
               \o Await("sink", "StateSet", s, FailAssert))
  BY Zenon, <1>5, <1>10, LooseSequence
<1>12. QED
  BY Zenon, <1>1, <1>11, LooseSequence DEF StateTransition

\* ilclient_cleanup_components() is loose.
LEMMA LooseCleanup == Loose(CleanupComponents(<<"source">>)) /\ Loose(CleanupComponents(<<"source", "sink">>))
<1>1. Loose(<<[op |-> "free", c |-> "source"]>>) /\ Loose(<<[op |-> "free", c |-> "sink"]>>)
  BY LooseOneWord, KnownCommands
<1>2. CleanupComponents(<<"source">>) = <<[op |-> "free", c |-> "source"]>>
  BY DEF CleanupComponents
<1>3. CleanupComponents(<<"source", "sink">>) = <<[op |-> "free", c |-> "source"]>> \o <<[op |-> "free", c |-> "sink"]>>
  BY DEF CleanupComponents
<1>4. QED
  BY Zenon, <1>1, <1>2, <1>3, LooseSequence

\* ilclient_disable_port_buffers() is loose.
LEMMA LooseDisablePortBuffers == Loose(DisablePortBuffers)
<1>1. NumBuffers \in Int
  BY ClientAssumption
<1>2. Loose(<<[op |-> "drain", num |-> NumBuffers]>>)
  BY Zenon, <1>1, LooseDrain
<1>3. Loose(Command("source", "PortDisable", "in"))
  BY Zenon, LooseFailAssert, LooseTunnelPorts
<1>4. Loose(Command("source", "PortDisable", "in") \o <<[op |-> "drain", num |-> NumBuffers]>>)
  BY Zenon, <1>2, <1>3, LooseSequence
<1>5. "in enabled" \in {"sink Loaded", "source Loaded", "in enabled"}
  OBVIOUS
<1>6. QED
  BY Zenon, <1>4, <1>5, LooseSkip, LooseIf DEF DisablePortBuffers

\* ilclient_enable_port_buffers() is loose.
LEMMA LooseEnablePortBuffers ==
  ASSUME NEW onFail, LooseEnd(onFail) PROVE Loose(EnablePortBuffers(onFail))
<1> DEFINE queue == <<[op |-> "queue"]>>
           giveUp == DisablePortBuffers \o RemoveError("source", FALSE) \o onFail
           useBuffers == [b \in Buffers |-> [op |-> "use", b |-> b, onFail |-> queue \o giveUp]]
<1>1. Loose(queue) /\ Loose(RemoveError("source", FALSE))
  BY LooseOneWord, KnownCommands
<1>2. Loose(DisablePortBuffers \o RemoveError("source", FALSE))
  BY Zenon, <1>1, LooseDisablePortBuffers, LooseSequence
<1>3. LooseEnd(giveUp)
  BY Zenon, <1>2, LooseFinish
<1> HIDE DEF giveUp, queue
<1>4. LooseEnd(queue \o giveUp)
  BY Zenon, <1>1, <1>3, LooseFinish
<1>5. useBuffers = Uses(NumBuffers, queue \o giveUp)
  BY DEF Uses, Buffers
<1>6. Loose(useBuffers)
  BY Zenon, <1>4, <1>5, LooseUses
<1> HIDE DEF useBuffers
<1>7. Loose(If("in may be enabled", <<>>, onFail))
  BY LooseUnless
<1>8. Loose(Command("source", "PortEnable", "in")) /\ Loose(Await("source", "PortEnable", "in", giveUp))
  BY Zenon, <1>3, LooseTunnelPorts
<1>9. Loose(If("in may be enabled", <<>>, onFail) \o Command("source", "PortEnable", "in"))
  BY Zenon, <1>7, <1>8, LooseSequence
<1>10. Loose(If("in may be enabled", <<>>, onFail) \o Command("source", "PortEnable", "in") \o useBuffers)
  BY Zenon, <1>6, <1>9, LooseSequence
<1>11. Loose(If("in may be enabled", <<>>, onFail) \o Command("source", "PortEnable", "in") \o useBuffers \o queue)
  BY Zenon, <1>1, <1>10, LooseSequence
<1>12. Loose(If("in may be enabled", <<>>, onFail) \o Command("source", "PortEnable", "in") \o useBuffers \o queue
               \o Await("source", "PortEnable", "in", giveUp))
  BY Zenon, <1>8, <1>11, LooseSequence
<1>13. QED
  BY Zenon, <1>12 DEF EnablePortBuffers, giveUp, queue, useBuffers

\* Open() of the renderer is a loose end.
LEMMA LooseOpen == LooseEnd(Open)
<1> DEFINE no == Return(-1)
<1>1. LooseEnd(no) /\ LooseEnd(Return(0))
  BY LooseReturns3
<1> HIDE DEF no
<1>2. Loose(External("getHandle", no)) /\ Loose(External("configure", no))
  <2>1. "getHandle" \in {"streams", "connect", "configure", "getHandle"}
        /\ "configure" \in {"streams", "connect", "configure", "getHandle"}
    OBVIOUS
  <2>2. QED
    BY Zenon, <1>1, <2>1, LooseExternal
<1>3. Loose(DisablePort("in")) /\ Loose(DisablePort("out"))
  BY LooseDisablePort, KnownCommands
<1>4. Loose(External("getHandle", no) \o DisablePort("in"))
  BY Zenon, <1>2, <1>3, LooseSequence
<1>5. Loose(CreateComponent(no))
  BY Zenon, <1>3, <1>4, LooseSequence DEF CreateComponent
<1>6. Loose(CreateComponent(no) \o SetAudioRendererInputFormat(no))
  BY Zenon, <1>2, <1>5, LooseSequence DEF SetAudioRendererInputFormat
<1>7. Loose(ChangeComponentState("source", "Idle", no)) /\ Loose(ChangeComponentState("source", "Executing", no))
  <2>1. "source" \in Components /\ "Idle" \in {"Loaded", "Idle", "Executing"}
        /\ "Executing" \in {"Loaded", "Idle", "Executing"}
    BY KnownCommands
  <2>2. QED
    BY Zenon, <1>1, <2>1, LooseChangeState
<1>8. Loose(EnablePortBuffers(no))
  BY Zenon, <1>1, LooseEnablePortBuffers
<1>9. Loose(CreateComponent(no) \o SetAudioRendererInputFormat(no) \o ChangeComponentState("source", "Idle", no))
  BY Zenon, <1>6, <1>7, LooseSequence
<1>10. Loose(CreateComponent(no) \o SetAudioRendererInputFormat(no) \o ChangeComponentState("source", "Idle", no)
               \o EnablePortBuffers(no))
  BY Zenon, <1>8, <1>9, LooseSequence
<1>11. Loose(CreateComponent(no) \o SetAudioRendererInputFormat(no) \o ChangeComponentState("source", "Idle", no)
               \o EnablePortBuffers(no) \o ChangeComponentState("source", "Executing", no))
  BY Zenon, <1>7, <1>10, LooseSequence
<1>12. Loose(CreateComponent(no) \o SetAudioRendererInputFormat(no) \o ChangeComponentState("source", "Idle", no)
               \o EnablePortBuffers(no) \o ChangeComponentState("source", "Executing", no) \o SetOutputDevice(no))
  BY Zenon, <1>2, <1>11, LooseSequence DEF SetOutputDevice
<1>13. QED
  BY Zenon, <1>1, <1>12, LooseFinish DEF Open, no

\* Close() of the renderer, followed by a loose end, is one.
LEMMA LooseClose ==
  ASSUME NEW next, LooseEnd(next) PROVE LooseEnd(Close(next))
<1> DEFINE cleanup == CleanupComponents(<<"source">>) \o next
           unload == DisablePortBuffers \o ChangeComponentState("source", "Loaded", cleanup) \o cleanup
<1>1. LooseEnd(cleanup)
  BY Zenon, LooseCleanup, LooseFinish
<1> HIDE DEF cleanup
<1>2. "source" \in Components /\ "Loaded" \in {"Loaded", "Idle", "Executing"} /\ "Idle" \in {"Loaded", "Idle", "Executing"}
  BY KnownCommands
<1>3. Loose(ChangeComponentState("source", "Loaded", cleanup))
  BY Zenon, <1>1, <1>2, LooseChangeState
<1>4. Loose(DisablePortBuffers \o ChangeComponentState("source", "Loaded", cleanup))
  BY Zenon, <1>3, LooseDisablePortBuffers, LooseSequence
<1>5. LooseEnd(unload)
  BY Zenon, <1>1, <1>4, LooseFinish
<1> HIDE DEF unload
<1>6. Loose(ChangeComponentState("source", "Idle", unload))
  BY Zenon, <1>2, <1>5, LooseChangeState
<1>7. LooseEnd(ChangeComponentState("source", "Idle", unload) \o unload)
  BY Zenon, <1>5, <1>6, LooseFinish
<1>8. QED
  BY Zenon, <1>7 DEF Close, unload, cleanup

\* What Call and Init may start.
Started(script) == LooseEnd(script \o Return(0))

\* A loose script, or a loose end, may start a call.
LEMMA LooseStarted ==
  ASSUME NEW s, Loose(s) \/ LooseEnd(s) PROVE Started(s)
<1>1. LooseEnd(Return(0)) /\ Loose(s)
  BY LooseZero, LooseEndIsLoose
<1>2. QED
  BY Zenon, <1>1, LooseFinish DEF Started

CallNames == {"setup_tunnel", "enable_tunnel", "disable_tunnel", "teardown_tunnels", "flush_tunnels",
              "Loaded", "Idle", "Executing", "cleanup_components", "change_component_state",
              "enable_port_buffers", "disable_port_buffers", "wait_for_event", "empty_buffers", "render",
              "open", "close",
              "create_component"}

\* Every call starts with a loose script: each instruction it comes to is well formed.
LEMMA LooseCall ==
  ASSUME Call PROVE \E f \in CallNames : \E s : Started(s) /\ Calls(f, s)
<1> DEFINE Goal == \E f \in CallNames : \E s : Started(s) /\ Calls(f, s)
<1>1. ASSUME NEW f \in CallNames, NEW s, Calls(f, s), Loose(s) \/ LooseEnd(s) PROVE Goal
  BY Zenon, <1>1, LooseStarted
<1> SUFFICES Goal
  OBVIOUS
<1>2. /\ "setup_tunnel" \in CallNames /\ "enable_tunnel" \in CallNames /\ "disable_tunnel" \in CallNames
      /\ "teardown_tunnels" \in CallNames /\ "flush_tunnels" \in CallNames
      /\ {"Loaded", "Idle", "Executing"} \subseteq CallNames /\ "cleanup_components" \in CallNames
      /\ "change_component_state" \in CallNames /\ "enable_port_buffers" \in CallNames
      /\ "disable_port_buffers" \in CallNames /\ "wait_for_event" \in CallNames /\ "render" \in CallNames
      /\ "empty_buffers" \in CallNames /\ "open" \in CallNames /\ "close" \in CallNames
  BY DEF CallNames
<1>3. LooseEnd(Return(-1)) /\ LooseEnd(Return(0))
  BY LooseReturns3
<1> HIDE DEF Goal
<1>4. CASE CallTunnel
  <2>1. CASE Calls("setup_tunnel", SetupTunnel(~connected))
    <3>1. (~connected) \in BOOLEAN
      OBVIOUS
    <3>2. QED
      BY Zenon, <1>1, <1>2, <2>1, <3>1, LooseSetupTunnel
  <2>2. CASE Calls("enable_tunnel", EnableTunnel(Return(-1)))
    BY Zenon, <1>1, <1>2, <1>3, <2>2, LooseEnableTunnel
  <2>3. CASE Calls("disable_tunnel", DisableTunnel)
    BY Zenon, <1>1, <1>2, <2>3, LooseDisableTunnel
  <2>4. CASE Calls("teardown_tunnels", TeardownTunnels)
    BY Zenon, <1>1, <1>2, <2>4, LooseOneWord
  <2>5. CASE Calls("flush_tunnels", FlushTunnels)
    BY Zenon, <1>1, <1>2, <2>5, LooseFlushTunnels
  <2>6. CASE \E first \in Components, s \in {"Loaded", "Idle", "Executing"} :
               Calls(s, StateTransition(first, CHOOSE c \in Components : c # first, s))
    <3>1. PICK first \in Components, s \in {"Loaded", "Idle", "Executing"} :
            Calls(s, StateTransition(first, CHOOSE c \in Components : c # first, s))
      BY Zenon, <2>6
    <3>2. (CHOOSE c \in Components : c # first) \in Components
      <4>1. \E c \in Components : c # first
        BY DEF Components
      <4>2. QED
        BY Zenon, <4>1
    <3>3. s \in CallNames
      BY <1>2
    <3>4. QED
      BY Zenon, <1>1, <3>1, <3>2, <3>3, LooseStateTransition
  <2>7. CASE Calls("cleanup_components", CleanupComponents(<<"source", "sink">>))
    BY Zenon, <1>1, <1>2, <2>7, LooseCleanup
  <2>8. QED
    BY Zenon, <1>4, <2>1, <2>2, <2>3, <2>4, <2>5, <2>6, <2>7 DEF CallTunnel
<1>5. CASE CallComponent
  <2>1. CASE \E c \in Components, s \in {"Loaded", "Idle", "Executing"} :
               Calls("change_component_state", ChangeComponentState(c, s, Return(-1)))
    BY Zenon, <1>1, <1>2, <1>3, <2>1, LooseChangeState
  <2>2. CASE Calls("enable_port_buffers", EnablePortBuffers(Return(-1)))
    BY Zenon, <1>1, <1>2, <1>3, <2>2, LooseEnablePortBuffers
  <2>3. CASE Calls("disable_port_buffers", DisablePortBuffers)
    BY Zenon, <1>1, <1>2, <2>3, LooseDisablePortBuffers
  <2>4. CASE Calls("wait_for_event",
                   AwaitEvent("source", <<"PortSettingsChanged", "out", "-">>,
                              {"PARAMETER_CHANGED", "ERROR", "CONFIG_CHANGED"}, TRUE, <<>>))
    <3>1. FlagsOf(<<"PortSettingsChanged", "out", "-">>) \cap {"PARAMETER_CHANGED", "ERROR", "CONFIG_CHANGED"} # {}
      BY DEF FlagsOf, IsError
    <3>2. "source" \in Components /\ TRUE \in BOOLEAN
      BY KnownCommands
    <3>3. Loose(AwaitEvent("source", <<"PortSettingsChanged", "out", "-">>,
                           {"PARAMETER_CHANGED", "ERROR", "CONFIG_CHANGED"}, TRUE, <<>>))
      BY Zenon, <3>1, <3>2, LooseAwaitEvent
    <3>4. QED
      BY Zenon, <1>1, <1>2, <2>4, <3>3
  <2>5. CASE Calls("empty_buffers", EmptyBuffer \o EmptyBuffer \o EmptyBuffer)
    <3>1. Loose(EmptyBuffer)
      <4>1. EmptyBuffer = <<[op |-> "getBuffer"]>> \o <<[op |-> "emptyBuffer"]>>
        BY DEF EmptyBuffer
      <4>2. QED
        BY Zenon, <4>1, LooseRender, LooseSequence
    <3>2. Loose(EmptyBuffer \o EmptyBuffer)
      BY Zenon, <3>1, LooseSequence
    <3>3. Loose(EmptyBuffer \o EmptyBuffer \o EmptyBuffer)
      BY Zenon, <3>1, <3>2, LooseSequence
    <3>4. QED
      BY Zenon, <1>1, <1>2, <2>5, <3>3
  <2>6. QED
    BY Zenon, <1>5, <2>1, <2>2, <2>3, <2>4, <2>5 DEF CallComponent
<1>6. CASE CallRenderer
  <2>1. CASE Calls("render", Render)
    <3>1. Render = <<[op |-> "getBuffer"]>> \o <<[op |-> "readIntoBuffer"]>>
      BY DEF Render
    <3>2. Loose(Render)
      BY Zenon, <3>1, LooseRender, LooseSequence
    <3>3. QED
      BY Zenon, <1>1, <1>2, <2>1, <3>2
  <2>2. CASE Calls("open", Open)
    BY Zenon, <1>1, <1>2, <2>2, LooseOpen
  <2>3. CASE Calls("close", Close(Return(0)))
    BY Zenon, <1>1, <1>2, <1>3, <2>3, LooseClose
  <2>4. CASE Calls("open", Reconfigure)
    BY Zenon, <1>1, <1>2, <2>4, LooseOpen, LooseClose DEF Reconfigure
  <2>5. QED
    BY Zenon, <1>6, <2>1, <2>2, <2>3, <2>4 DEF CallRenderer
<1>7. QED
  BY Zenon, <1>4, <1>5, <1>6 DEF Call, Goal

-----------------------------------------------------------------------------
(* Lists of events                                                         *)

\* Min() of the library, which the searches of a list take their index by.
LEMMA MinOfIndices ==
  ASSUME NEW k \in Nat, NEW x \in SUBSET (1 .. k), x # {}
  PROVE  Min(x) \in x
<1> DEFINE T == {n \in Nat : \A z \in SUBSET (1 .. n) : z # {} => \E m \in z : \A y \in z : m <= y}
<1>1. 0 \in T
  <2>1. \A z \in SUBSET (1 .. 0) : z = {}
    OBVIOUS
  <2>2. QED
    BY Zenon, <2>1
<1>2. ASSUME NEW n \in Nat, n \in T PROVE n + 1 \in T
  <2>1. SUFFICES ASSUME NEW z \in SUBSET (1 .. n + 1), z # {}
                 PROVE  \E m \in z : \A y \in z : m <= y
    OBVIOUS
  <2>2. CASE z \cap (1 .. n) = {}
    <3>1. \A y \in z : y = n + 1
      <4>1. \A y \in z : y \in 1 .. n + 1 /\ y \notin 1 .. n
        BY Zenon, <2>1, <2>2
      <4>2. QED
        BY <4>1
    <3>2. PICK m \in z : TRUE
      BY <2>1
    <3>3. QED
      BY <3>1, <3>2
  <2>3. CASE z \cap (1 .. n) # {}
    <3>1. PICK m \in z \cap (1 .. n) : \A y \in z \cap (1 .. n) : m <= y
      BY <1>2, <2>3
    <3>2. \A y \in z : m <= y
      BY <2>1, <3>1
    <3>3. QED
      BY <3>1, <3>2
  <2>4. QED
    BY <2>2, <2>3
<1>3. k \in T
  <2> HIDE DEF T
  <2>1. QED
    BY <1>1, <1>2, SetInduction
<1>4. PICK m \in x : \A y \in x : m <= y
  BY <1>3
<1>5. QED
  BY Zenon, <1>4 DEF Min

\* What the searches find: an index of an event that they look for, or 0 if there is none.
LEMMA WhereFinds ==
  ASSUME NEW c \in Components, NEW event, list[c] \in Seq(Events)
  PROVE  IF \E k \in DOMAIN list[c] : list[c][k] = event
         THEN Where(c, event) \in DOMAIN list[c] /\ list[c][Where(c, event)] = event
         ELSE Where(c, event) = 0
<1> DEFINE n == Len(list[c])
           I == {i \in 1 .. n : list[c][i] = event}
<1>1. Where(c, event) = IF I # {} THEN Min(I) ELSE 0
  BY DEF Where, SelectInSeq
<1>2. n \in Nat /\ DOMAIN list[c] = 1 .. n
  BY LenProperties
<1>3. I # {} => Min(I) \in I
  <2>1. I \in SUBSET (1 .. n)
    OBVIOUS
  <2> HIDE DEF I, n
  <2>2. QED
    BY <1>2, <2>1, MinOfIndices
<1>4. QED
  BY <1>1, <1>2, <1>3

\* FirstError() is the place of an error that the search is for, or 0 if there is none.
LEMMA FirstErrorFinds ==
  ASSUME NEW c \in Components, NEW all, list[c] \in Seq(Events)
  PROVE  IF \E k \in DOMAIN list[c] : IsError(list[c][k]) /\ (all \/ EndsCommand(list[c][k]))
         THEN /\ FirstError(c, all) \in DOMAIN list[c]
              /\ IsError(list[c][FirstError(c, all)])
              /\ all \/ EndsCommand(list[c][FirstError(c, all)])
         ELSE FirstError(c, all) = 0
<1> DEFINE n == Len(list[c])
           I == {i \in 1 .. n : IsError(list[c][i]) /\ (all \/ EndsCommand(list[c][i]))}
<1>1. FirstError(c, all) = IF I # {} THEN Min(I) ELSE 0
  BY DEF FirstError, SelectInSeq
<1>2. n \in Nat /\ DOMAIN list[c] = 1 .. n
  BY LenProperties
<1>3. I # {} => Min(I) \in I
  <2>1. I \in SUBSET (1 .. n)
    OBVIOUS
  <2> HIDE DEF I, n
  <2>2. QED
    BY <1>2, <2>1, MinOfIndices
<1>4. QED
  BY <1>1, <1>2, <1>3

AnswerAt(c, cmd, arg) == SelectInSeq(list[c], LAMBDA e : e = Done(cmd, arg) \/ EndsCommand(e))

\* AnswerAt() is the place of an answer to the command, or 0 if there is none.
LEMMA AnswerFinds ==
  ASSUME NEW c \in Components, NEW cmd, NEW arg, list[c] \in Seq(Events)
  PROVE  IF \E k \in DOMAIN list[c] : list[c][k] = Done(cmd, arg) \/ EndsCommand(list[c][k])
         THEN /\ AnswerAt(c, cmd, arg) \in DOMAIN list[c]
              /\ \/ list[c][AnswerAt(c, cmd, arg)] = Done(cmd, arg)
                 \/ EndsCommand(list[c][AnswerAt(c, cmd, arg)])
         ELSE AnswerAt(c, cmd, arg) = 0
<1> DEFINE n == Len(list[c])
           I == {i \in 1 .. n : list[c][i] = Done(cmd, arg) \/ EndsCommand(list[c][i])}
<1>1. AnswerAt(c, cmd, arg) = IF I # {} THEN Min(I) ELSE 0
  BY DEF AnswerAt, SelectInSeq
<1>2. n \in Nat /\ DOMAIN list[c] = 1 .. n
  BY LenProperties
<1>3. I # {} => Min(I) \in I
  <2>1. I \in SUBSET (1 .. n)
    OBVIOUS
  <2> HIDE DEF I, n
  <2>2. QED
    BY <1>2, <2>1, MinOfIndices
<1>4. QED
  BY <1>1, <1>2, <1>3

\* A sequence without one of its elements.
LEMMA RemoveAtProperties ==
  ASSUME NEW S, NEW s \in Seq(S), NEW k \in DOMAIN s
  PROVE  /\ RemoveAt(s, k) \in Seq(S)
         /\ Len(RemoveAt(s, k)) = Len(s) - 1
         /\ \A j \in 1 .. Len(s) - 1 : RemoveAt(s, k)[j] = IF j < k THEN s[j] ELSE s[j + 1]
<1> DEFINE u == SubSeq(s, 1, k - 1)
           v == SubSeq(s, k + 1, Len(s))
<1>1. Len(s) \in Nat /\ k \in 1 .. Len(s) /\ \A j \in 1 .. Len(s) : s[j] \in S
  BY LenProperties
<1>2. u \in Seq(S) /\ Len(u) = k - 1 /\ \A j \in 1 .. k - 1 : u[j] = s[j]
  <2>1. /\ SubSeq(s, 1, k - 1) \in Seq(S)
        /\ Len(SubSeq(s, 1, k - 1)) = IF 1 <= k - 1 THEN (k - 1) - 1 + 1 ELSE 0
        /\ \A j \in 1 .. (k - 1) - 1 + 1 : SubSeq(s, 1, k - 1)[j] = s[1 + j - 1]
    <3>1. 1 \in Int /\ k - 1 \in Int /\ \A j \in 1 .. k - 1 : s[j] \in S
      BY <1>1
    <3>2. QED
      BY SMTT(30), <3>1, SubSeqProperties
  <2>2. QED
    BY <1>1, <2>1
<1>3. v \in Seq(S) /\ Len(v) = Len(s) - k /\ \A j \in 1 .. Len(s) - k : v[j] = s[k + j]
  <2>1. /\ SubSeq(s, k + 1, Len(s)) \in Seq(S)
        /\ Len(SubSeq(s, k + 1, Len(s))) = IF k + 1 <= Len(s) THEN Len(s) - (k + 1) + 1 ELSE 0
        /\ \A j \in 1 .. Len(s) - (k + 1) + 1 : SubSeq(s, k + 1, Len(s))[j] = s[(k + 1) + j - 1]
    <3>1. k + 1 \in Int /\ Len(s) \in Int /\ \A j \in k + 1 .. Len(s) : s[j] \in S
      BY <1>1
    <3>2. QED
      BY SMTT(30), <3>1, SubSeqProperties
  <2>2. v \in Seq(S) /\ Len(v) = Len(s) - k
    BY <1>1, <2>1
  <2>3. ASSUME NEW j \in 1 .. Len(s) - k PROVE v[j] = s[k + j]
    <3>1. j \in 1 .. Len(s) - (k + 1) + 1 /\ (k + 1) + j - 1 = k + j
      BY <1>1
    <3>2. QED
      BY <2>1, <3>1
  <2>4. QED
    BY <2>2, <2>3
<1> HIDE DEF u, v
<1>4. /\ u \o v \in Seq(S) /\ Len(u \o v) = Len(u) + Len(v)
      /\ \A j \in 1 .. Len(u) + Len(v) : (u \o v)[j] = IF j <= Len(u) THEN u[j] ELSE v[j - Len(u)]
  BY Zenon, <1>2, <1>3, ConcatProperties
<1>5. Len(u) + Len(v) = Len(s) - 1
  BY <1>1, <1>2, <1>3
<1>6. ASSUME NEW j \in 1 .. Len(s) - 1
      PROVE  (u \o v)[j] = IF j < k THEN s[j] ELSE s[j + 1]
  <2>1. (u \o v)[j] = IF j <= k - 1 THEN u[j] ELSE v[j - (k - 1)]
    BY <1>2, <1>4, <1>5, <1>6
  <2>2. CASE j < k
    BY <1>1, <1>2, <2>1, <2>2
  <2>3. CASE ~(j < k)
    <3>1. j - (k - 1) \in 1 .. Len(s) - k
      BY <1>1, <2>3
    <3>2. v[j - (k - 1)] = s[k + (j - (k - 1))]
      BY <1>3, <3>1
    <3>3. k + (j - (k - 1)) = j + 1 /\ ~(j <= k - 1)
      BY <1>1, <2>3
    <3>4. QED
      BY <2>1, <2>3, <3>2, <3>3
  <2>4. QED
    BY <2>2, <2>3
<1>7. RemoveAt(s, k) = u \o v
  BY DEF RemoveAt, u, v
<1>8. QED
  BY <1>4, <1>5, <1>6, <1>7

\* Reverse() has the elements in the opposite order.
LEMMA ReverseProperties ==
  ASSUME NEW S, NEW s \in Seq(S)
  PROVE  /\ Reverse(s) \in Seq(S) /\ Len(Reverse(s)) = Len(s)
         /\ \A j \in 1 .. Len(s) : Reverse(s)[j] = s[Len(s) - j + 1] /\ Len(s) - j + 1 \in 1 .. Len(s)
<1>1. Len(s) \in Nat /\ \A j \in 1 .. Len(s) : s[j] \in S
  BY LenProperties
<1>2. \A j \in 1 .. Len(s) : Len(s) - j + 1 \in 1 .. Len(s)
  BY <1>1
<1> DEFINE r == [i \in 1 .. Len(s) |-> s[(Len(s) - i) + 1]]
<1>3. r \in [1 .. Len(s) -> S] /\ \A j \in 1 .. Len(s) : r[j] = s[Len(s) - j + 1]
  BY <1>1, <1>2
<1>4. Reverse(s) = r
  BY DEF Reverse
<1> HIDE DEF r
<1>5. r \in Seq(S) /\ Len(r) = Len(s)
  BY <1>1, <1>3
<1>6. QED
  BY <1>2, <1>3, <1>4, <1>5

\* The recursion that Deduped() unfolds into.
DedupFold(s) == CHOOSE g : g = [x \in SUBSET DOMAIN s |->
  IF x = {} THEN <<>>
  ELSE IF Contains(g[x \ {Max(x)}], s[Max(x)]) THEN g[x \ {Max(x)}] ELSE Append(g[x \ {Max(x)}], s[Max(x)])]

\* Deduped() is the function that FoldLeft() defines, at all indices.
LEMMA DedupedIsFold == ASSUME NEW s PROVE Deduped(s) = DedupFold(s)[DOMAIN s]
BY Zenon DEF Deduped, FoldLeft, MapThenFoldSet, DedupFold

\* That function exists and satisfies its equation.
LEMMA DedupFoldExists ==
  ASSUME NEW s, NEW n \in Nat, DOMAIN s = 1 .. n
  PROVE  DedupFold(s) = [x \in SUBSET (1 .. n) |->
           IF x = {} THEN <<>>
           ELSE IF Contains(DedupFold(s)[x \ {Max(x)}], s[Max(x)]) THEN DedupFold(s)[x \ {Max(x)}]
                ELSE Append(DedupFold(s)[x \ {Max(x)}], s[Max(x)])]
<1> DEFINE Step(g, x) == IF x = {} THEN <<>>
                         ELSE IF Contains(g[x \ {Max(x)}], s[Max(x)]) THEN g[x \ {Max(x)}]
                              ELSE Append(g[x \ {Max(x)}], s[Max(x)])
<1> DEFINE T == {k \in Nat : \E g : g = [x \in SUBSET (1 .. k) |-> Step(g, x)]}
<1>1. 0 \in T
  <2>1. [x \in SUBSET (1 .. 0) |-> <<>>] = [x \in SUBSET (1 .. 0) |-> Step([y \in SUBSET (1 .. 0) |-> <<>>], x)]
    OBVIOUS
  <2>2. QED
    BY <2>1
<1>2. ASSUME NEW k \in Nat, k \in T PROVE k + 1 \in T
  <2>1. PICK g : g = [x \in SUBSET (1 .. k) |-> Step(g, x)]
    BY Zenon, <1>2
  <2> DEFINE h == [x \in SUBSET (1 .. k + 1) |-> Step(g, x)]
  <2>2. \A x \in SUBSET (1 .. k) : h[x] = g[x]
    <3>1. SUBSET (1 .. k) \subseteq SUBSET (1 .. k + 1)
      OBVIOUS
    <3>2. QED
      BY Zenon, <2>1, <3>1
  <2>3. \A x \in SUBSET (1 .. k + 1) : x # {} => x \ {Max(x)} \in SUBSET (1 .. k)
    <3>1. TAKE x \in SUBSET (1 .. k + 1)
    <3>2. HAVE x # {}
    <3>3. k + 1 \in Nat
      OBVIOUS
    <3>4. Max(x) \in x /\ \A y \in x : y <= Max(x)
      BY Zenon, <3>2, <3>3, MaxOfIndices
    <3>5. \A m, y \in 1 .. k + 1 : y <= m /\ y # m => y \in 1 .. k
      OBVIOUS
    <3>6. \A y \in x \ {Max(x)} : y \in 1 .. k
      BY Zenon, <3>4, <3>5
    <3>7. QED
      BY Zenon, <3>6
  <2>4. \A x \in SUBSET (1 .. k + 1) : Step(h, x) = Step(g, x)
    <3> HIDE DEF h
    <3>1. QED
      BY <2>2, <2>3
  <2>5. h = [x \in SUBSET (1 .. k + 1) |-> Step(h, x)]
    <3> HIDE DEF Step
    <3>1. QED
      BY Zenon, <2>4
  <2>6. QED
    <3> HIDE DEF h, Step
    <3>1. QED
      BY <2>5
<1>3. n \in T
  <2> HIDE DEF T
  <2>1. QED
    BY <1>1, <1>2, SetInduction
<1>4. \E g : g = [x \in SUBSET DOMAIN s |-> Step(g, x)]
  BY Zenon, <1>3
<1>5. QED
  BY Zenon, <1>4 DEF DedupFold

\* d has the elements that s has up to k, each of them once.
Deduplicates(d, s, k, S) ==
  /\ d \in Seq(S)
  /\ \A i, j \in DOMAIN d : d[i] = d[j] => i = j
  /\ \A i \in DOMAIN d : \E j \in 1 .. k : d[i] = s[j]
  /\ \A j \in 1 .. k : \E i \in DOMAIN d : d[i] = s[j]

\* One element more: the fold stays without duplicates and has the same elements.
LEMMA DedupStep ==
  ASSUME NEW S, NEW s \in Seq(S), NEW k \in Nat, k + 1 \in DOMAIN s, NEW d, Deduplicates(d, s, k, S)
  PROVE  Deduplicates(IF Contains(d, s[k + 1]) THEN d ELSE Append(d, s[k + 1]), s, k + 1, S)
<1>1. Len(d) \in Nat /\ DOMAIN d = 1 .. Len(d) /\ s[k + 1] \in S
  BY LenProperties DEF Deduplicates
<1>2. \A j \in 1 .. k + 1 : j \in 1 .. k \/ j = k + 1
  OBVIOUS
<1>3. CASE Contains(d, s[k + 1])
  <2>1. \E i \in DOMAIN d : d[i] = s[k + 1]
    BY <1>1, <1>3 DEF Contains
  <2>2. \A j \in 1 .. k : j \in 1 .. k + 1
    OBVIOUS
  <2>3. Deduplicates(d, s, k + 1, S)
    BY Zenon, <1>2, <2>1, <2>2 DEF Deduplicates
  <2>4. QED
    BY <1>3, <2>3
<1>4. CASE ~Contains(d, s[k + 1])
  <2> DEFINE t == Append(d, s[k + 1])
  <2>1. /\ t \in Seq(S) /\ Len(t) = Len(d) + 1 /\ t[Len(d) + 1] = s[k + 1]
        /\ \A i \in 1 .. Len(d) : t[i] = d[i]
    BY <1>1, AppendProperties DEF Deduplicates
  <2>2. DOMAIN t = 1 .. Len(d) + 1
    BY <2>1, LenProperties
  <2> HIDE DEF t
  <2>3. \A i \in 1 .. Len(d) : d[i] # s[k + 1]
    BY <1>4 DEF Contains
  <2>4. ASSUME NEW i \in DOMAIN t PROVE i \in 1 .. Len(d) \/ i = Len(d) + 1
    BY <1>1, <2>2
  <2>5. ASSUME NEW i \in DOMAIN t, NEW j \in DOMAIN t, t[i] = t[j] PROVE i = j
    <3>1. CASE i \in 1 .. Len(d) /\ j \in 1 .. Len(d)
      BY <1>1, <2>1, <2>5, <3>1 DEF Deduplicates
    <3>2. CASE i \in 1 .. Len(d) /\ j = Len(d) + 1
      BY <2>1, <2>3, <2>5, <3>2
    <3>3. CASE i = Len(d) + 1 /\ j \in 1 .. Len(d)
      BY <2>1, <2>3, <2>5, <3>3
    <3>4. QED
      BY <2>4, <3>1, <3>2, <3>3
  <2>6. ASSUME NEW i \in DOMAIN t PROVE \E j \in 1 .. k + 1 : t[i] = s[j]
    <3>1. CASE i \in 1 .. Len(d)
      <4>1. PICK j \in 1 .. k : d[i] = s[j]
        BY <1>1, <3>1 DEF Deduplicates
      <4>2. j \in 1 .. k + 1 /\ t[i] = s[j]
        BY <2>1, <3>1, <4>1
      <4>3. QED
        BY <4>2
    <3>2. CASE i = Len(d) + 1
      <4>1. k + 1 \in 1 .. k + 1 /\ t[i] = s[k + 1]
        BY <2>1, <3>2
      <4>2. QED
        BY <4>1
    <3>3. QED
      BY <2>4, <3>1, <3>2
  <2>7. ASSUME NEW j \in 1 .. k + 1 PROVE \E i \in DOMAIN t : t[i] = s[j]
    <3>1. CASE j \in 1 .. k
      <4>1. PICK i \in DOMAIN d : d[i] = s[j]
        BY <3>1 DEF Deduplicates
      <4>2. i \in DOMAIN t /\ t[i] = s[j]
        BY <1>1, <2>1, <2>2, <4>1
      <4>3. QED
        BY <4>2
    <3>2. CASE j = k + 1
      <4>1. Len(d) + 1 \in DOMAIN t /\ t[Len(d) + 1] = s[j]
        BY <1>1, <2>1, <2>2, <3>2
      <4>2. QED
        BY <4>1
    <3>3. QED
      BY <1>2, <3>1, <3>2
  <2>8. Deduplicates(t, s, k + 1, S)
    BY Zenon, <2>1, <2>5, <2>6, <2>7 DEF Deduplicates
  <2>9. QED
    BY <1>4, <2>8 DEF t
<1>5. QED
  BY <1>3, <1>4

\* Deduped() has the elements of its argument, each of them once.
LEMMA DedupedProperties ==
  ASSUME NEW S, NEW s \in Seq(S)
  PROVE  Deduplicates(Deduped(s), s, Len(s), S)
<1> DEFINE g == DedupFold(s)
           n == Len(s)
           T == {k \in Nat : k <= n => Deduplicates(g[1 .. k], s, k, S)}
<1>1. n \in Nat /\ DOMAIN s = 1 .. n
  BY LenProperties
<1> HIDE DEF n
<1>2. g = [x \in SUBSET (1 .. n) |->
             IF x = {} THEN <<>>
             ELSE IF Contains(g[x \ {Max(x)}], s[Max(x)]) THEN g[x \ {Max(x)}]
                  ELSE Append(g[x \ {Max(x)}], s[Max(x)])]
  BY Zenon, <1>1, DedupFoldExists
<1> HIDE DEF g
<1>3. 0 \in T
  <2>1. 1 .. 0 = {} /\ {} \in SUBSET (1 .. n)
    OBVIOUS
  <2>2. g[1 .. 0] = <<>>
    BY <1>2, <2>1
  <2>3. Deduplicates(<<>>, s, 0, S)
    BY DEF Deduplicates
  <2>4. QED
    BY <2>2, <2>3
<1>4. ASSUME NEW k \in Nat, k \in T PROVE k + 1 \in T
  <2>1. SUFFICES ASSUME k + 1 <= n PROVE Deduplicates(g[1 .. k + 1], s, k + 1, S)
    OBVIOUS
  <2>2. Deduplicates(g[1 .. k], s, k, S) /\ k + 1 \in DOMAIN s
    BY <1>1, <1>4, <2>1
  <2>3. 1 .. k + 1 \in SUBSET (1 .. n) /\ 1 .. k + 1 # {} /\ k + 1 \in Nat
    <3>1. k + 1 \in Nat /\ 1 \in 1 .. k + 1
      BY <1>4
    <3>2. \A j \in 1 .. k + 1 : j \in 1 .. n
      BY <1>1, <1>4, <2>1
    <3>3. QED
      BY Zenon, <3>1, <3>2
  <2>4. Max(1 .. k + 1) \in 1 .. k + 1 /\ \A y \in 1 .. k + 1 : y <= Max(1 .. k + 1)
    BY Zenon, <2>3, MaxOfIndices
  <2>5. Max(1 .. k + 1) = k + 1
    BY <2>4
  <2>6. (1 .. k + 1) \ {k + 1} = 1 .. k
    OBVIOUS
  <2>7. g[1 .. k + 1] = IF Contains(g[1 .. k], s[k + 1]) THEN g[1 .. k] ELSE Append(g[1 .. k], s[k + 1])
    BY Zenon, <1>2, <2>3, <2>5, <2>6
  <2>8. QED
    BY Zenon, <2>2, <2>7, DedupStep
<1>5. n \in T
  <2> HIDE DEF T
  <2>1. QED
    BY <1>1, <1>3, <1>4, SetInduction
<1>6. Deduplicates(g[1 .. n], s, n, S)
  BY <1>1, <1>5
<1>7. QED
  BY Zenon, <1>1, <1>6, DedupedIsFold DEF g, n

-----------------------------------------------------------------------------
(* Types                                                                   *)

AllFlags == {"STATE_CHANGED", "PORT_ENABLED", "PORT_DISABLED", "PORT_FLUSH", "ERROR", "EOS",
             "PARAMETER_CHANGED", "CONFIG_CHANGED", "EMPTY_BUFFER_DONE"}

TypeOK ==
  /\ list \in [Components -> Seq(Events)]
  /\ flags \in [Components -> SUBSET AllFlags]
  /\ related \in [Components -> Components \cup {NoOne}]
  /\ mask \in [Components -> SUBSET {"PortUnpopulated"}]
  /\ inList \in Seq(Buffers) /\ hand \in Seq(Buffers) /\ held \in Seq(Buffers)
  /\ call \in CallNames /\ value \in Int /\ failed \in BOOLEAN
  /\ omx \in [Components -> [state : States, queue : Seq(Commands \X Arguments \X BOOLEAN)]]
  /\ \A c \in Components : omx[c].queue \in Seq(CommandsOf(c))
  /\ enabled \in [Ports -> BOOLEAN] /\ connected \in BOOLEAN
  /\ allocated \in SUBSET Buffers
  /\ returned \in BOOLEAN /\ asserted \in BOOLEAN
  /\ left \in [calls : Nat, faults : Nat, troubles : Nat]

\* What is left of a call is a script that ends with the call's value, every instruction
\* of which has the fields its step reads.
Shape == todo # <<>> => \E a, I, W : a \in Lost /\ Sealed(call, W, I) /\ <<a, todo>> \in W

\* In the middle of a call the next instruction is well formed.
LEMMA ShapeIsTyped ==
  ASSUME Shape, todo # <<>> PROVE Typed(Now) /\ \E I : todo \in Seq(I)
<1>1. PICK a, I, W : a \in Lost /\ Sealed(call, W, I) /\ <<a, todo>> \in W
  BY Zenon DEF Shape
<1>2. Proceeds(call, a, todo, W, W, I)
  BY Zenon, <1>1 DEF Sealed
<1>3. ~Benign(a)
  BY <1>1 DEF Lost, Benign
<1>4. Legal(call, a, Head(todo))
  BY Zenon, <1>2, <1>3 DEF Proceeds, Goes
<1>5. todo \in Seq(I)
  BY <1>1 DEF Sealed
<1>6. QED
  BY Zenon, <1>4, <1>5 DEF Legal, Now

\* A step of a call leads to an instruction that is well formed.
LEMMA ShapeStep ==
  ASSUME Shape, todo # <<>>, Run, ~RunReadIntoBufferAndEmpty, call' = call PROVE Shape'
<1>1. Typed(Now) /\ \E I : todo \in Seq(I)
  BY ShapeIsTyped
<1>2. Followed
  BY Zenon, <1>1, StepFollows
<1>3. PICK a, I, W : a \in Lost /\ Sealed(call, W, I) /\ <<a, todo>> \in W
  BY Zenon DEF Shape
<1>4. Proceeds(call, a, todo, W, W, I)
  BY Zenon, <1>3 DEF Sealed
<1>5. ~Benign(a) /\ a.mode # "normal" /\ a.mode # "giveUp"
  BY <1>3 DEF Lost, Benign
<1>6. Goes(call, a, todo, W, W, I)
  BY Zenon, <1>4, <1>5 DEF Proceeds
<1>7. SUFFICES ASSUME todo' # <<>> PROVE <<a, todo'>> \in W
  BY Zenon, <1>3 DEF Shape
<1>8. CASE \E p : Continues(Now, p) /\ todo' = p \o Rest
  <2>1. PICK p : Continues(Now, p) /\ todo' = p \o Rest
    BY Zenon, <1>8
  <2>2. Falls(call, a, Now, a, p)
    BY Zenon, <1>5, <2>1 DEF Falls
  <2>3. QED
    BY Zenon, <1>6, <2>1, <2>2 DEF Goes, Now, Rest
<1>9. CASE \E p : Escapes(Now, p) /\ todo' = p
  <2>1. PICK p : Escapes(Now, p) /\ todo' = p
    BY Zenon, <1>9
  <2>2. Jumps(call, a, Now, a, p)
    BY Zenon, <1>5, <2>1 DEF Jumps
  <2>3. QED
    BY Zenon, <1>6, <2>1, <2>2 DEF Goes, Now
<1>10. QED
  BY Zenon, <1>2, <1>7, <1>8, <1>9 DEF Followed

\* The answers of the components are events, and raise flags that exist.
LEMMA EventsAreKnown ==
  /\ \A c \in Components, k \in Commands \X Arguments \X BOOLEAN :
       Answer(c, k) \in Events /\ FlagsOf(Answer(c, k)) \subseteq AllFlags
  /\ Error("InsufficientResources", "command") \in Events
  /\ \A e \in Events : FlagsOf(e) \subseteq AllFlags
<1>1. ASSUME NEW e \in Events PROVE FlagsOf(e) \subseteq AllFlags
  <2>1. CASE \E cmd \in Commands, arg \in Arguments : e = Done(cmd, arg)
    BY <2>1 DEF FlagsOf, AllFlags, Done, FlagOfCommand, Commands
  <2>2. CASE \E code \in {"SameState", "IncorrectStateTransition", "InsufficientResources"} :
               e = Error(code, "command")
    BY <2>2 DEF FlagsOf, AllFlags, Error, IsError
  <2>3. CASE e \in Unsolicited
    BY <2>3, UnsolicitedAssumption DEF FlagsOf, AllFlags, IsError
  <2>4. QED
    BY <1>1, <2>1, <2>2, <2>3 DEF Events
<1>2. ASSUME NEW c \in Components, NEW k \in Commands \X Arguments \X BOOLEAN
      PROVE  Answer(c, k) \in Events
  <2>1. Done(k[1], k[2]) \in Events
    <3>1. k[1] \in Commands /\ k[2] \in Arguments
      OBVIOUS
    <3>2. QED
      BY <3>1 DEF Events
  <2>2. Error("SameState", "command") \in Events /\ Error("IncorrectStateTransition", "command") \in Events
    BY DEF Events
  <2>3. QED
    BY <2>1, <2>2 DEF Answer
<1>3. Error("InsufficientResources", "command") \in Events
  BY DEF Events
<1>4. QED
  BY <1>1, <1>2, <1>3

\* The event callback keeps the types: lists hold events, flags are flags.
LEMMA NotifyTypes ==
  ASSUME TypeOK, NEW c \in Components, NEW e \in Events, Notify(c, e)
  PROVE  /\ list' \in [Components -> Seq(Events)] /\ flags' \in [Components -> SUBSET AllFlags]
         /\ asserted' \in BOOLEAN
<1>1. \A s \in Seq(Events) : Deduped(s) \in Seq(Events) /\ <<e>> \o Deduped(s) \in Seq(Events)
  <2> TAKE s \in Seq(Events)
  <2>1. Deduped(s) \in Seq(Events)
    BY DedupedProperties DEF Deduplicates
  <2>2. <<e>> \in Seq(Events)
    OBVIOUS
  <2>3. QED
    BY <2>1, <2>2, ConcatProperties
<1>2. list[c] \in Seq(Events)
  BY DEF TypeOK
<1> DEFINE kept == [list EXCEPT ![c] = Deduped(@)]
<1>3. kept \in [Components -> Seq(Events)] /\ [kept EXCEPT ![c] = <<e>> \o @] \in [Components -> Seq(Events)]
  BY <1>1, <1>2 DEF TypeOK
<1>4. list' \in [Components -> Seq(Events)]
  BY <1>3 DEF Notify
<1>5. FlagsOf(e) \subseteq AllFlags /\ "ERROR" \in AllFlags
  BY EventsAreKnown DEF AllFlags
<1>6. flags' \in [Components -> SUBSET AllFlags]
  BY <1>5 DEF Notify, TypeOK
<1>7. asserted' \in BOOLEAN
  BY DEF Notify, TypeOK
<1>8. QED
  BY <1>4, <1>6, <1>7

\* Taking a record off a list keeps the types.
LEMMA TakeTypes ==
  ASSUME TypeOK, NEW c \in Components, NEW k \in DOMAIN list[c]
  PROVE  /\ [list EXCEPT ![c] = RemoveAt(@, k)] \in [Components -> Seq(Events)]
         /\ Take(c, k) => list' \in [Components -> Seq(Events)] /\ flags' \in [Components -> SUBSET AllFlags]
<1>1. RemoveAt(list[c], k) \in Seq(Events)
  BY RemoveAtProperties DEF TypeOK
<1>2. [list EXCEPT ![c] = RemoveAt(@, k)] \in [Components -> Seq(Events)]
  BY <1>1 DEF TypeOK
<1>3. \A fs : [flags EXCEPT ![c] = @ \ fs] \in [Components -> SUBSET AllFlags]
  BY DEF TypeOK
<1>4. ASSUME Take(c, k)
      PROVE  list' \in [Components -> Seq(Events)] /\ flags' \in [Components -> SUBSET AllFlags]
  <2>1. PICK fs : flags' = [flags EXCEPT ![c] = @ \ fs]
    BY Zenon, <1>4 DEF Take
  <2>2. list' = [list EXCEPT ![c] = RemoveAt(@, k)]
    BY <1>4 DEF Take
  <2>3. QED
    BY Zenon, <1>2, <1>3, <2>1, <2>2
<1>5. QED
  BY Zenon, <1>2, <1>4

\* So does clearing flags.
LEMMA ClearsTypes ==
  ASSUME TypeOK, NEW c \in Components, NEW fs, Clears(c, fs)
  PROVE  flags' \in [Components -> SUBSET AllFlags]
BY DEF Clears, TypeOK

\* OMX_SendCommand keeps the types.
LEMMA CommandTypes ==
  ASSUME TypeOK, RunCommand, Typed(Now) PROVE TypeOK'
<1>1. Now.op = "command" /\ Now.c \in Components /\ KnownCommand(Now.c, Now.cmd, Now.arg)
  BY DEF RunCommand, At, Now, Typed, Waiting, EventOps, Draining, Getting, Plain
<1> DEFINE flag == IF Now.cmd \in {"PortEnable", "PortDisable"} THEN enabled[Now.arg] = (Now.cmd = "PortEnable") ELSE FALSE
           k == <<Now.cmd, Now.arg, flag>>
           q == omx[Now.c].queue
<1>2. Now.cmd \in Commands /\ Now.arg \in Arguments /\ (Now.cmd # "StateSet" => Now.arg \in Ports)
  BY <1>1 DEF KnownCommand, Commands, Arguments, PortsOf, Ports
<1>3. flag \in BOOLEAN
  OBVIOUS
<1>4. k \in CommandsOf(Now.c) /\ k \in Commands \X Arguments \X BOOLEAN
  <2> HIDE DEF flag
  <2>1. QED
    BY <1>1, <1>2, <1>3 DEF CommandsOf
<1>5. Append(q, k) \in Seq(CommandsOf(Now.c)) /\ Append(q, k) \in Seq(Commands \X Arguments \X BOOLEAN)
  <2>1. q \in Seq(CommandsOf(Now.c)) /\ q \in Seq(Commands \X Arguments \X BOOLEAN)
    BY <1>1 DEF TypeOK
  <2> HIDE DEF k, q
  <2>2. QED
    BY <1>4, <2>1, AppendProperties
<1>6. omx' = [omx EXCEPT ![Now.c].queue = Append(q, k)]
  BY <1>1, <1>2 DEF RunCommand, TypeOK
<1>7. /\ omx' \in [Components -> [state : States, queue : Seq(Commands \X Arguments \X BOOLEAN)]]
      /\ \A c \in Components : omx'[c].queue \in Seq(CommandsOf(c))
  <2>0. /\ omx \in [Components -> [state : States, queue : Seq(Commands \X Arguments \X BOOLEAN)]]
        /\ \A c \in Components : omx[c].queue \in Seq(CommandsOf(c))
    BY DEF TypeOK
  <2> DEFINE v == Append(q, k)
  <2>1. omx' = [omx EXCEPT ![Now.c] = [omx[Now.c] EXCEPT !.queue = v]]
    BY <1>6
  <2>2. v \in Seq(CommandsOf(Now.c)) /\ v \in Seq(Commands \X Arguments \X BOOLEAN)
    BY <1>5
  <2> HIDE DEF k, q, v
  <2> DEFINE r == [omx[Now.c] EXCEPT !.queue = v]
  <2>3. r \in [state : States, queue : Seq(Commands \X Arguments \X BOOLEAN)] /\ r.queue = v
    BY <1>1, <2>0, <2>2
  <2> HIDE DEF r
  <2>4. omx' = [omx EXCEPT ![Now.c] = r]
    BY <2>1 DEF r
  <2>5. QED
    BY <1>1, <2>0, <2>2, <2>3, <2>4
<1>8. enabled' \in [Ports -> BOOLEAN]
  BY <1>2 DEF RunCommand, TypeOK
<1>9. QED
  BY <1>7, <1>8 DEF RunCommand, TypeOK, library, AllFlags

\* The wait for an answer keeps the types.
LEMMA AwaitTypes ==
  ASSUME TypeOK, RunAwait, Typed(Now) PROVE TypeOK'
<1>1. Now.c \in Components /\ Now.other \in Components \cup {NoOne}
  BY DEF RunAwait, At, Now, Typed, Waiting, EventOps, Draining, Getting, Plain
<1> DEFINE k == AnswerAt(Now.c, Now.cmd, Now.arg)
<1>2. list[Now.c] \in Seq(Events)
  BY <1>1 DEF TypeOK
<1>3. k # 0 => k \in DOMAIN list[Now.c]
  BY <1>1, <1>2, AnswerFinds
<1>4. k # 0 => /\ [list EXCEPT ![Now.c] = RemoveAt(@, k)] \in [Components -> Seq(Events)]
               /\ Take(Now.c, k) => list' \in [Components -> Seq(Events)] /\ flags' \in [Components -> SUBSET AllFlags]
  <2> HIDE DEF k
  <2>1. QED
    BY <1>1, <1>3, TakeTypes
<1>5. /\ \/ k # 0 /\ (Take(Now.c, k) \/ (list' = [list EXCEPT ![Now.c] = RemoveAt(@, k)] /\ UNCHANGED flags))
         \/ UNCHANGED <<list, flags>>
      /\ \E d : related' = [c \in Components |-> IF c = Now.other THEN d ELSE related[c]]
                 /\ d \in Components \cup {NoOne}
  BY <1>1 DEF RunAwait, AnswerAt
<1>6. list' \in [Components -> Seq(Events)] /\ flags' \in [Components -> SUBSET AllFlags]
  BY <1>4, <1>5 DEF TypeOK
<1>7. related' \in [Components -> Components \cup {NoOne}]
  BY <1>5 DEF TypeOK
<1>8. UNCHANGED <<mask, inList, hand, call, value, failed, core, asserted, left>>
  BY DEF RunAwait
<1>9. QED
  BY <1>6, <1>7, <1>8 DEF TypeOK, core

\* So do the other steps that read or change the lists.
LEMMA ListTypes ==
  ASSUME TypeOK, Typed(Now), Sleep \/ RunEvent \/ RunEventErrors \/ RunEventLast \/ EventSleep \/ RunRemove
  PROVE  TypeOK'
<1>1. Now.c \in Components
  BY DEF Sleep, RunEvent, RunEventErrors, RunEventLast, EventSleep, RunRemove, At, Now, Typed, Waiting, EventOps, Draining, Getting, Plain
<1>2. list[Now.c] \in Seq(Events)
  BY <1>1 DEF TypeOK
<1>3. \A k : k \in DOMAIN list[Now.c] /\ Take(Now.c, k) =>
        list' \in [Components -> Seq(Events)] /\ flags' \in [Components -> SUBSET AllFlags]
  BY Zenon, <1>1, TakeTypes
<1>4. \A fs : Clears(Now.c, fs) => flags' \in [Components -> SUBSET AllFlags]
  BY Zenon, <1>1, ClearsTypes
<1>5. Where(Now.c, Now.event) # 0 => Where(Now.c, Now.event) \in DOMAIN list[Now.c]
  BY <1>1, <1>2, WhereFinds
<1>6. FirstError(Now.c, Now.all) # 0 => FirstError(Now.c, Now.all) \in DOMAIN list[Now.c]
  BY <1>1, <1>2, FirstErrorFinds
<1>7. list' \in [Components -> Seq(Events)] /\ flags' \in [Components -> SUBSET AllFlags]
  <2>0. list \in [Components -> Seq(Events)] /\ flags \in [Components -> SUBSET AllFlags]
    BY DEF TypeOK
  <2>1. CASE Sleep
    BY <1>4, <2>0, <2>1 DEF Sleep
  <2>2. CASE RunEvent
    BY <1>3, <1>5, <2>0, <2>2 DEF RunEvent
  <2>3. CASE RunEventErrors
    BY <1>4, <2>0, <2>3 DEF RunEventErrors
  <2>4. CASE RunEventLast
    BY <1>3, <1>5, <2>0, <2>4 DEF RunEventLast
  <2>5. CASE EventSleep
    BY <1>4, <2>0, <2>5 DEF EventSleep
  <2>6. CASE RunRemove
    BY <1>3, <1>6, <2>0, <2>6 DEF RunRemove
  <2>7. QED
    BY <2>1, <2>2, <2>3, <2>4, <2>5, <2>6
<1>8. UNCHANGED <<related, mask, inList, hand, call, value, failed, core, asserted, left>>
  BY DEF Sleep, RunEvent, RunEventErrors, RunEventLast, EventSleep, RunRemove
<1>9. QED
  BY <1>7, <1>8 DEF TypeOK, core

\* A component's new state and queue are of the types of omx.
LEMMA OmxTypes ==
  ASSUME TypeOK, NEW c \in Components, NEW s \in States, NEW q \in Seq(CommandsOf(c)),
         omx' = [omx EXCEPT ![c] = [state |-> s, queue |-> q]]
  PROVE  /\ omx' \in [Components -> [state : States, queue : Seq(Commands \X Arguments \X BOOLEAN)]]
         /\ \A d \in Components : omx'[d].queue \in Seq(CommandsOf(d))
<1>1. q \in Seq(Commands \X Arguments \X BOOLEAN)
  <2>1. CommandsOf(c) \subseteq Commands \X Arguments \X BOOLEAN
    BY DEF CommandsOf
  <2>2. QED
    BY <2>1, SeqMonotonic
<1> DEFINE r == [state |-> s, queue |-> q]
<1>2. r \in [state : States, queue : Seq(Commands \X Arguments \X BOOLEAN)] /\ r.queue = q
  BY <1>1
<1> HIDE DEF r
<1>3. omx' = [omx EXCEPT ![c] = r]
  BY DEF r
<1>4. QED
  <2>1. /\ omx \in [Components -> [state : States, queue : Seq(Commands \X Arguments \X BOOLEAN)]]
        /\ \A d \in Components : omx[d].queue \in Seq(CommandsOf(d))
    BY DEF TypeOK
  <2>2. QED
    BY <1>2, <1>3, <2>1

\* A fault uses up one of the troubles left.
LEMMA FaultTypes ==
  ASSUME left \in [calls : Nat, faults : Nat, troubles : Nat], Fault
  PROVE  /\ left' \in [calls : Nat, faults : Nat, troubles : Nat]
         /\ left.troubles > 0 /\ left'.troubles = left.troubles - 1 /\ left'.calls = left.calls
<1>1. left.calls \in Nat /\ left.faults \in Nat \ {0} /\ left.troubles \in Nat \ {0}
  BY DEF Fault
<1> DEFINE r == [calls |-> left.calls, faults |-> left.faults - 1, troubles |-> left.troubles - 1]
<1>2. r \in [calls : Nat, faults : Nat, troubles : Nat]
  <2>1. left.faults - 1 \in Nat /\ left.troubles - 1 \in Nat
    BY <1>1
  <2>2. QED
    BY <1>1, <2>1
<1>3. left' = r
  BY DEF Fault
<1>4. r.calls = left.calls /\ r.troubles = left.troubles - 1
  OBVIOUS
<1> HIDE DEF r
<1>5. QED
  BY <1>1, <1>2, <1>3, <1>4

\* Steps of control, masks, returns and calls of external code keep the types.
LEMMA ControlTypes ==
  ASSUME TypeOK, Typed(Now), RunIf \/ RunMask \/ RunReturn \/ RunExternal PROVE TypeOK'
<1>1. CASE RunIf
  BY <1>1 DEF RunIf, TypeOK, core, library
<1>2. CASE RunMask
  <2>1. mask' \in [Components -> SUBSET {"PortUnpopulated"}] /\ flags' \in [Components -> SUBSET AllFlags]
    <3>1. CASE At("mask")
      <4>1. flags' = flags /\ mask' = [c \in Components |-> IF Now.on THEN {"PortUnpopulated"} ELSE {}]
        BY <1>2, <3>1 DEF RunMask, At
      <4>2. flags \in [Components -> SUBSET AllFlags]
        BY DEF TypeOK
      <4>3. QED
        BY <4>1, <4>2
    <3>2. CASE At("clear")
      <4>1. Now.c \in Components
        BY <3>2 DEF At, Now, Typed, Waiting, EventOps, Draining, Getting, Plain
      <4>2. Clears(Now.c, {"ERROR"}) /\ UNCHANGED mask
        BY <1>2, <3>2 DEF RunMask, At, Now
      <4>3. flags' \in [Components -> SUBSET AllFlags]
        BY Zenon, <4>1, <4>2, ClearsTypes
      <4>4. QED
        BY <4>2, <4>3 DEF TypeOK
    <3>3. QED
      BY <1>2, <3>1, <3>2 DEF RunMask
  <2>2. UNCHANGED <<list, related, inList, hand, call, value, failed, core, asserted, left>>
    BY <1>2 DEF RunMask
  <2>3. QED
    BY <2>1, <2>2 DEF TypeOK, core
<1>3. CASE RunReturn
  <2>1. Now.value \in Int
    BY <1>3 DEF RunReturn, At, Now, Typed, Waiting, EventOps, Draining, Getting, Plain
  <2>2. value' = Now.value /\ failed' \in BOOLEAN /\ asserted' \in BOOLEAN
        /\ UNCHANGED <<library, hand, call, core, left>>
    BY <1>3 DEF RunReturn
  <2>3. QED
    BY <2>1, <2>2 DEF TypeOK, core, library
<1>4. CASE RunExternal
  <2>1. connected' \in BOOLEAN /\ left' \in [calls : Nat, faults : Nat, troubles : Nat]
    <3>1. Fault => left' \in [calls : Nat, faults : Nat, troubles : Nat]
      BY FaultTypes DEF TypeOK
    <3>2. /\ connected' \in {TRUE, FALSE, connected}
          /\ UNCHANGED left \/ Fault
      BY <1>4 DEF RunExternal
    <3>3. QED
      BY <3>1, <3>2 DEF TypeOK
  <2>2. UNCHANGED <<library, hand, call, value, failed, omx, enabled, allocated, held, returned, asserted>>
    BY <1>4 DEF RunExternal
  <2>3. QED
    BY <2>1, <2>2 DEF TypeOK, library
<1>5. QED
  BY <1>1, <1>2, <1>3, <1>4

\* So do getting a component and freeing it.
LEMMA ComponentTypes ==
  ASSUME TypeOK, Typed(Now), RunGetHandle \/ RunFree PROVE TypeOK'
<1>1. CASE RunGetHandle
  <2>1. omx["source"].queue \in Seq(CommandsOf("source")) /\ "source" \in Components /\ "Loaded" \in States
    BY DEF TypeOK, Components, States
  <2>2. /\ omx' \in [Components -> [state : States, queue : Seq(Commands \X Arguments \X BOOLEAN)]]
        /\ \A d \in Components : omx'[d].queue \in Seq(CommandsOf(d))
    <3>1. CASE omx' = [omx EXCEPT !["source"].state = "Loaded"]
      <4>1. omx["source"] \in [state : States, queue : Seq(Commands \X Arguments \X BOOLEAN)]
        BY <2>1 DEF TypeOK
      <4>2. [omx["source"] EXCEPT !.state = "Loaded"] = [state |-> "Loaded", queue |-> omx["source"].queue]
        BY <4>1
      <4>3. omx' = [omx EXCEPT !["source"] = [state |-> "Loaded", queue |-> omx["source"].queue]]
        BY <3>1, <4>2
      <4>4. QED
        BY Zenon, <2>1, <4>3, OmxTypes
    <3>2. CASE UNCHANGED omx
      BY <3>2 DEF TypeOK
    <3>3. QED
      BY <1>1, <3>1, <3>2 DEF RunGetHandle
  <2>3. enabled' \in [Ports -> BOOLEAN]
    BY <1>1 DEF RunGetHandle, TypeOK
  <2>4. left' \in [calls : Nat, faults : Nat, troubles : Nat]
    <3>1. Fault => left' \in [calls : Nat, faults : Nat, troubles : Nat]
      BY FaultTypes DEF TypeOK
    <3>2. UNCHANGED left \/ Fault
      BY <1>1 DEF RunGetHandle
    <3>3. QED
      BY <3>1, <3>2 DEF TypeOK
  <2>5. UNCHANGED <<library, hand, call, value, failed, connected, allocated, held, returned, asserted>>
    BY <1>1 DEF RunGetHandle
  <2>6. QED
    BY <2>2, <2>3, <2>4, <2>5 DEF TypeOK, library
<1>2. CASE RunFree
  <2>1. Now.c \in Components
    BY <1>2 DEF RunFree, At, Now, Typed, Waiting, EventOps, Draining, Getting, Plain
  <2>2. <<>> \in Seq(CommandsOf(Now.c)) /\ <<>> \in Seq(Events) /\ <<>> \in Seq(Buffers) /\ "None" \in States
    BY EmptySeq DEF States
  <2>3. /\ omx' \in [Components -> [state : States, queue : Seq(Commands \X Arguments \X BOOLEAN)]]
        /\ \A d \in Components : omx'[d].queue \in Seq(CommandsOf(d))
    <3>1. omx' = [omx EXCEPT ![Now.c] = [state |-> "None", queue |-> <<>>]]
      BY <1>2 DEF RunFree
    <3>2. QED
      BY Zenon, <2>1, <2>2, <3>1, OmxTypes
  <2>4. /\ list' \in [Components -> Seq(Events)] /\ flags' \in [Components -> SUBSET AllFlags]
        /\ mask' \in [Components -> SUBSET {"PortUnpopulated"}]
    BY <1>2, <2>2 DEF RunFree, TypeOK
  <2>5. inList' \in Seq(Buffers) /\ allocated' \in SUBSET Buffers /\ held' \in Seq(Buffers)
    BY <1>2, <2>2 DEF RunFree, TypeOK
  <2>6. UNCHANGED <<related, hand, call, value, failed, enabled, connected, returned, asserted, left>>
    BY <1>2 DEF RunFree
  <2>7. QED
    BY <2>3, <2>4, <2>5, <2>6 DEF TypeOK
<1>3. QED
  BY <1>1, <1>2

\* So do the steps that move buffers.
LEMMA BufferTypes ==
  ASSUME TypeOK, Typed(Now), RunUse \/ RunQueue \/ RunDrain \/ RunFreeBuffers \/ RunGetBuffer \/ RunEmptyBuffer
           \/ RunReadIntoBufferAndEmpty
  PROVE  TypeOK'
<1>1. <<>> \in Seq(Buffers) /\ hand \o inList \in Seq(Buffers) /\ held \o hand \in Seq(Buffers)
      /\ Reverse(inList) \in Seq(Buffers)
  <2>1. hand \in Seq(Buffers) /\ inList \in Seq(Buffers) /\ held \in Seq(Buffers)
    BY DEF TypeOK
  <2>2. QED
    BY <2>1, EmptySeq, ConcatProperties, ReverseProperties
<1>2. CASE RunUse
  <2>1. Now.b \in Buffers
    BY <1>2 DEF RunUse, At, Now, Typed, Waiting, EventOps, Draining, Getting, Plain
  <2>2. Append(hand, Now.b) \in Seq(Buffers)
    BY <2>1, AppendProperties DEF TypeOK
  <2>3. allocated' \in SUBSET Buffers /\ hand' \in Seq(Buffers)
        /\ left' \in [calls : Nat, faults : Nat, troubles : Nat]
    <3>1. Fault => left' \in [calls : Nat, faults : Nat, troubles : Nat]
      BY FaultTypes DEF TypeOK
    <3>2. \/ UNCHANGED left /\ allocated' = allocated \cup {Now.b} /\ hand' = Append(hand, Now.b)
          \/ Fault /\ UNCHANGED <<allocated, hand>>
      BY <1>2 DEF RunUse
    <3>3. QED
      BY <2>1, <2>2, <3>1, <3>2 DEF TypeOK
  <2>4. UNCHANGED <<library, call, value, failed, omx, enabled, connected, held, returned, asserted>>
    BY <1>2 DEF RunUse
  <2>5. QED
    BY <2>3, <2>4 DEF TypeOK, library
<1>3. CASE RunQueue
  BY <1>1, <1>3 DEF RunQueue, TypeOK, core
<1>4. CASE RunDrain
  BY <1>1, <1>4 DEF RunDrain, TypeOK, core
<1>5. CASE RunFreeBuffers
  <2>1. hand # <<>> => Tail(hand) \in Seq(Buffers)
    BY HeadTailProperties DEF TypeOK
  <2>2. QED
    BY <1>5, <2>1 DEF RunFreeBuffers, TypeOK, library
<1>6. CASE RunGetBuffer
  <2>1. inList # <<>> => Tail(inList) \in Seq(Buffers) /\ Head(inList) \in Buffers
    BY HeadTailProperties DEF TypeOK
  <2>2. inList # <<>> => <<Head(inList)>> \in Seq(Buffers)
    BY <2>1
  <2>3. QED
    BY <1>6, <2>1, <2>2 DEF RunGetBuffer, TypeOK, core
<1>7. CASE RunEmptyBuffer
  BY <1>1, <1>7 DEF RunEmptyBuffer, TypeOK, library
<1>8. CASE RunReadIntoBufferAndEmpty
  <2>1. held' \in Seq(Buffers)
    BY <1>1, <1>8 DEF RunReadIntoBufferAndEmpty, TypeOK
  <2>2. QED
    BY <1>8, <2>1 DEF RunReadIntoBufferAndEmpty, TypeOK, library, caller
<1>9. QED
  BY <1>2, <1>3, <1>4, <1>5, <1>6, <1>7, <1>8

\* So do the waits for buffers.
LEMMA SleepTypes ==
  ASSUME TypeOK, Typed(Now), DrainSleep \/ GetSleep PROVE TypeOK'
<1>1. "source" \in Components /\ list["source"] \in Seq(Events)
  BY DEF Components, TypeOK
<1>2. CASE GetSleep
  <2>1. flags' \in [Components -> SUBSET AllFlags]
    BY Zenon, <1>1, <1>2, ClearsTypes DEF GetSleep
  <2>2. QED
    BY <1>2, <2>1 DEF GetSleep, TypeOK, core
<1>3. CASE DrainSleep
  <2>1. /\ FirstError("source", FALSE) # 0 => FirstError("source", FALSE) \in DOMAIN list["source"]
        /\ Where("source", Done("PortDisable", "in")) # 0
             => Where("source", Done("PortDisable", "in")) \in DOMAIN list["source"]
    BY <1>1, FirstErrorFinds, WhereFinds
  <2>2. \A k \in DOMAIN list["source"] : [list EXCEPT !["source"] = RemoveAt(@, k)] \in [Components -> Seq(Events)]
    BY <1>1, TakeTypes
  <2>3. list' \in [Components -> Seq(Events)]
    <3>1. list \in [Components -> Seq(Events)]
      BY DEF TypeOK
    <3>2. QED
      BY <1>3, <2>1, <2>2, <3>1 DEF DrainSleep
  <2>4. flags' \in [Components -> SUBSET AllFlags]
    BY <1>3 DEF DrainSleep, TypeOK
  <2>5. QED
    BY <1>3, <2>3, <2>4 DEF DrainSleep, TypeOK, core
<1>4. QED
  BY <1>2, <1>3

\* Every step of the client thread keeps the types and the shape of the call.
LEMMA RunTypes ==
  ASSUME TypeOK, Shape, Run PROVE TypeOK' /\ Shape'
<1>1. todo # <<>> /\ call' = call
  BY DEF Run, At, RunCommand, RunAwait, Sleep, RunEvent, RunEventErrors, RunEventLast, EventSleep, RunRemove, RunIf, RunMask, RunReturn, RunExternal, RunGetHandle, RunFree, RunUse, RunQueue, RunDrain, RunFreeBuffers, DrainSleep, RunGetBuffer, GetSleep, RunEmptyBuffer, RunReadIntoBufferAndEmpty, caller
<1>2. Typed(Now)
  BY <1>1, ShapeIsTyped
<1>3. TypeOK'
  BY Zenon, <1>2, CommandTypes, AwaitTypes, ListTypes, ControlTypes, ComponentTypes, BufferTypes, SleepTypes DEF Run
<1>4. Shape'
  <2>1. CASE RunReadIntoBufferAndEmpty
    BY <1>1, <2>1 DEF RunReadIntoBufferAndEmpty, caller, Shape
  <2>2. CASE ~RunReadIntoBufferAndEmpty
    BY <1>1, <2>2, ShapeStep
  <2>3. QED
    BY <2>1, <2>2
<1>5. QED
  BY <1>3, <1>4

\* So does a new call.
LEMMA CallTypes ==
  ASSUME TypeOK, Call PROVE TypeOK' /\ Shape'
<1>1. PICK f, s : f \in CallNames /\ Started(s) /\ Calls(f, s)
  BY Zenon, LooseCall
<1>2. todo' = s \o Return(0) /\ call' = f
  BY <1>1 DEF Calls
<1>3. Ends(f, Lost, s \o Return(0))
  BY Zenon, <1>1 DEF Started, LooseEnd
<1>4. Shape'
  <2>1. PICK I, W : Sealed(f, W, I) /\ \A a \in Lost : <<a, s \o Return(0)>> \in W
    BY Zenon, <1>3 DEF Ends
  <2>2. PICK a \in Lost : TRUE
    BY SomeLost
  <2>3. QED
    BY Zenon, <1>2, <2>1, <2>2 DEF Shape
<1>5. left' \in [calls : Nat, faults : Nat, troubles : Nat]
  <2>1. left.calls \in Nat \ {0} /\ left' = [left EXCEPT !.calls = left.calls - 1]
    BY <1>1 DEF Calls, TypeOK
  <2> DEFINE n == left.calls - 1
  <2>2. n \in Nat /\ left' = [left EXCEPT !.calls = n]
    BY <2>1
  <2> HIDE DEF n
  <2>3. QED
    BY <2>2 DEF TypeOK
<1>6. UNCHANGED <<library, hand, value, failed, core, asserted>>
  BY <1>1 DEF Calls
<1>7. QED
  BY <1>1, <1>2, <1>4, <1>5, <1>6 DEF TypeOK, library, core

\* A component that completes or refuses a command keeps the types.
LEMMA CompleteTypes ==
  ASSUME TypeOK, NEW c \in Components, Complete(c) PROVE TypeOK'
<1> DEFINE k == Head(omx[c].queue)
           q == Tail(omx[c].queue)
<1>1. omx[c].queue \in Seq(CommandsOf(c)) /\ omx[c].queue # <<>> /\ omx[c].state \in States
  BY DEF TypeOK, Complete
<1>2. k \in CommandsOf(c) /\ q \in Seq(CommandsOf(c))
  BY <1>1, HeadTailProperties
<1>3. k \in Commands \X Arguments \X BOOLEAN /\ k = <<k[1], k[2], k[3]>>
      /\ (k[1] = "StateSet" => k[2] \in States) /\ (k[1] = "PortEnable" => k[2] \in Ports)
  <2> HIDE DEF k
  <2>1. QED
    BY <1>2 DEF CommandsOf, KnownCommand, States, PortsOf
<1>4. \E e \in Events : Notify(c, e)
  <2> HIDE DEF k
  <2>1. \E e : Notify(c, e) /\ (e = Answer(c, k) \/ e = Error("InsufficientResources", "command"))
    BY DEF Complete, k
  <2>2. QED
    BY Zenon, <1>3, <2>1, EventsAreKnown
<1>5. /\ list' \in [Components -> Seq(Events)] /\ flags' \in [Components -> SUBSET AllFlags]
      /\ asserted' \in BOOLEAN
  BY Zenon, <1>4, NotifyTypes
<1>6. /\ \E s \in States : omx' = [omx EXCEPT ![c] = [state |-> s, queue |-> q]]
      /\ enabled' \in [Ports -> BOOLEAN]
      /\ UNCHANGED left \/ Fault
  <2>1. omx[c] = [state |-> omx[c].state, queue |-> omx[c].queue]
    BY DEF TypeOK
  <2>2. omx \in [Components -> [state : States, queue : Seq(Commands \X Arguments \X BOOLEAN)]]
        /\ enabled \in [Ports -> BOOLEAN]
    BY DEF TypeOK
  <2> DEFINE next == [omx EXCEPT ![c].queue = Tail(@)]
  <2>3. next = [omx EXCEPT ![c] = [state |-> omx[c].state, queue |-> q]]
    <3>1. next = [omx EXCEPT ![c] = [omx[c] EXCEPT !.queue = q]]
      OBVIOUS
    <3> HIDE DEF next, q
    <3>2. [omx[c] EXCEPT !.queue = q] = [state |-> omx[c].state, queue |-> q]
      BY <2>2
    <3>3. QED
      BY Zenon, <3>1, <3>2
  <2>4. [next EXCEPT ![c].state = k[2]] = [omx EXCEPT ![c] = [state |-> k[2], queue |-> q]]
    <3>1. DOMAIN omx = Components
      BY <2>2
    <3> HIDE DEF next, q, k
    <3>2. next[c] = [state |-> omx[c].state, queue |-> q]
      BY <2>3, <3>1
    <3>3. [next EXCEPT ![c].state = k[2]] = [next EXCEPT ![c] = [next[c] EXCEPT !.state = k[2]]]
      OBVIOUS
    <3>4. [next[c] EXCEPT !.state = k[2]] = [state |-> k[2], queue |-> q]
      BY <3>2
    <3> DEFINE r == [state |-> omx[c].state, queue |-> q]
               s == [state |-> k[2], queue |-> q]
    <3>5. next = [omx EXCEPT ![c] = r] /\ [next EXCEPT ![c].state = k[2]] = [next EXCEPT ![c] = s]
      BY Zenon, <2>3, <3>3, <3>4
    <3> HIDE DEF r, s
    <3>6. [next EXCEPT ![c] = s] = [omx EXCEPT ![c] = s]
      BY <3>1, <3>5
    <3>7. QED
      BY Zenon, <3>5, <3>6 DEF s
  <2>5. /\ \/ omx' = next
           \/ k[1] = "StateSet" /\ omx' = [next EXCEPT ![c].state = k[2]]
        /\ enabled' = enabled \/ (k[1] = "PortEnable" /\ enabled' = [enabled EXCEPT ![k[2]] = FALSE])
        /\ UNCHANGED left \/ Fault
    BY DEF Complete
  <2> HIDE DEF k, q, next
  <2>6. \E s \in States : omx' = [omx EXCEPT ![c] = [state |-> s, queue |-> q]]
    BY Zenon, <1>1, <1>3, <2>3, <2>4, <2>5
  <2>7. enabled' \in [Ports -> BOOLEAN]
    BY <1>3, <2>2, <2>5
  <2>8. QED
    BY Zenon, <2>5, <2>6, <2>7
<1>7. /\ omx' \in [Components -> [state : States, queue : Seq(Commands \X Arguments \X BOOLEAN)]]
      /\ \A d \in Components : omx'[d].queue \in Seq(CommandsOf(d))
  <2> HIDE DEF q
  <2>1. QED
    BY Zenon, <1>2, <1>6, OmxTypes
<1>8. left' \in [calls : Nat, faults : Nat, troubles : Nat]
  BY <1>6, FaultTypes DEF TypeOK
<1>9. UNCHANGED <<related, mask, inList, caller, connected, allocated, held, returned>>
  BY DEF Complete
<1>10. QED
  BY <1>5, <1>6, <1>7, <1>8, <1>9 DEF TypeOK, caller

\* So does an event that nobody asked for.
LEMMA SurpriseTypes ==
  ASSUME TypeOK, NEW c \in Components, Surprise(c) PROVE TypeOK'
<1>1. PICK e \in Unsolicited : /\ Notify(c, e)
                               /\ \/ UNCHANGED left
                                  \/ left.troubles > 0 /\ left' = [left EXCEPT !.troubles = @ - 1]
  BY DEF Surprise
<1>2. e \in Events
  BY DEF Events
<1>3. /\ list' \in [Components -> Seq(Events)] /\ flags' \in [Components -> SUBSET AllFlags]
      /\ asserted' \in BOOLEAN
  BY Zenon, <1>1, <1>2, NotifyTypes
<1>4. left' \in [calls : Nat, faults : Nat, troubles : Nat]
  <2>1. CASE UNCHANGED left
    BY <2>1 DEF TypeOK
  <2>2. CASE left.troubles > 0 /\ left' = [left EXCEPT !.troubles = @ - 1]
    <3> DEFINE n == left.troubles - 1
    <3>1. n \in Nat /\ left' = [left EXCEPT !.troubles = n]
      BY <2>2 DEF TypeOK
    <3> HIDE DEF n
    <3>2. QED
      BY <3>1 DEF TypeOK
  <2>3. QED
    BY <1>1, <2>1, <2>2
<1>5. UNCHANGED <<related, mask, inList, caller, core>>
  BY DEF Surprise
<1>6. QED
  BY <1>3, <1>4, <1>5 DEF TypeOK, caller, core

\* So do the returns of buffers.
LEMMA BufferTypesOfComponents ==
  ASSUME TypeOK, BufferDone \/ BufferFlag PROVE TypeOK'
<1>1. CASE BufferDone
  <2>1. Tail(held) \in Seq(Buffers) /\ Append(inList, Head(held)) \in Seq(Buffers)
    BY <1>1, HeadTailProperties, AppendProperties DEF BufferDone, TypeOK
  <2>2. QED
    BY <1>1, <2>1 DEF BufferDone, TypeOK, caller
<1>2. CASE BufferFlag
  <2>1. flags' \in [Components -> SUBSET AllFlags]
    BY <1>2 DEF BufferFlag, TypeOK, AllFlags
  <2>2. QED
    BY <1>2, <2>1 DEF BufferFlag, TypeOK, caller
<1>3. QED
  BY <1>1, <1>2

\* The types hold in the beginning.
LEMMA InitTypes ==
  ASSUME Init PROVE TypeOK /\ Shape
<1>1. PICK created \in BOOLEAN :
        /\ call = (IF created THEN "create_component" ELSE "open")
        /\ todo = (IF created THEN <<>> ELSE Open)
        /\ omx = [c \in Components |-> [state |-> IF created THEN "Loaded" ELSE "None", queue |-> <<>>]]
  BY DEF Init
<1>2. Shape
  <2>1. CASE created
    BY <1>1, <2>1 DEF Shape
  <2>2. CASE ~created
    <3>1. PICK I, W : Sealed(call, W, I) /\ \A a \in Lost : <<a, Open>> \in W
      BY Zenon, LooseOpen DEF LooseEnd, Ends
    <3>2. PICK a \in Lost : TRUE
      BY SomeLost
    <3>3. todo = Open
      BY <1>1, <2>2
    <3>4. QED
      BY Zenon, <3>1, <3>2, <3>3 DEF Shape
  <2>3. QED
    BY <2>1, <2>2
<1>3. /\ omx \in [Components -> [state : States, queue : Seq(Commands \X Arguments \X BOOLEAN)]]
      /\ \A d \in Components : omx[d].queue \in Seq(CommandsOf(d))
  <2> DEFINE s == IF created THEN "Loaded" ELSE "None"
  <2>1. omx = [c \in Components |-> [state |-> s, queue |-> <<>>]] /\ s \in States
    BY <1>1 DEF States
  <2> HIDE DEF s
  <2> DEFINE r == [state |-> s, queue |-> <<>>]
  <2>2. r \in [state : States, queue : Seq(Commands \X Arguments \X BOOLEAN)] /\ r.queue = <<>>
    BY <2>1
  <2>3. omx = [c \in Components |-> r]
    BY <2>1
  <2> HIDE DEF r
  <2>4. \A d \in Components : <<>> \in Seq(CommandsOf(d))
    OBVIOUS
  <2>5. QED
    BY <2>2, <2>3, <2>4
<1>4. call \in CallNames
  BY <1>1 DEF CallNames
<1>5. left \in [calls : Nat, faults : Nat, troubles : Nat]
  BY DEF Init
<1>6. /\ list \in [Components -> Seq(Events)] /\ flags \in [Components -> SUBSET AllFlags]
      /\ related \in [Components -> Components \cup {NoOne}]
      /\ mask \in [Components -> SUBSET {"PortUnpopulated"}]
  BY DEF Init
<1>7. /\ inList \in Seq(Buffers) /\ hand \in Seq(Buffers) /\ held \in Seq(Buffers)
      /\ value \in Int /\ failed \in BOOLEAN /\ connected \in BOOLEAN
      /\ enabled \in [Ports -> BOOLEAN] /\ allocated \in SUBSET Buffers
      /\ returned \in BOOLEAN /\ asserted \in BOOLEAN
  <2>1. inList = <<>> /\ hand = <<>> /\ held = <<>> /\ value = 0 /\ allocated = {}
        /\ failed = FALSE /\ connected = FALSE /\ returned = FALSE /\ asserted = FALSE
        /\ enabled = [p \in Ports |-> FALSE]
    BY DEF Init
  <2>2. <<>> \in Seq(Buffers) /\ {} \in SUBSET Buffers /\ 0 \in Int
    BY EmptySeq
  <2>3. [p \in Ports |-> FALSE] \in [Ports -> BOOLEAN]
    OBVIOUS
  <2>4. QED
    BY Zenon, <2>1, <2>2, <2>3
<1>8. QED
  BY Zenon, <1>2, <1>3, <1>4, <1>5, <1>6, <1>7 DEF TypeOK

\* Every variable of the library, of its callers and of the components keeps its type,
\* and the rest of a call in progress is always a script whose steps find the fields
\* they read and which ends with the call's value.
THEOREM Types == Spec => [](TypeOK /\ Shape)
<1>1. Init => TypeOK /\ Shape
  BY InitTypes
<1>2. TypeOK /\ Shape /\ [Next]_vars => TypeOK' /\ Shape'
  <2>1. SUFFICES ASSUME TypeOK, Shape, [Next]_vars PROVE TypeOK' /\ Shape'
    OBVIOUS
  <2>2. ASSUME UNCHANGED <<todo, call>> PROVE Shape'
    BY Zenon, <2>1, <2>2 DEF Shape
  <2>3. CASE Run
    BY <2>1, <2>3, RunTypes
  <2>4. CASE Call
    BY <2>1, <2>4, CallTypes
  <2>5. CASE BufferDone \/ BufferFlag
    BY <2>1, <2>2, <2>5, BufferTypesOfComponents DEF BufferDone, BufferFlag, caller
  <2>6. ASSUME NEW c \in Components, Complete(c) PROVE TypeOK' /\ Shape'
    BY <2>1, <2>2, <2>6, CompleteTypes DEF Complete, caller
  <2>7. ASSUME NEW c \in Components, Surprise(c) PROVE TypeOK' /\ Shape'
    BY <2>1, <2>2, <2>7, SurpriseTypes DEF Surprise, caller
  <2>8. CASE UNCHANGED vars
    BY <2>1, <2>2, <2>8 DEF TypeOK, vars, library, caller, core
  <2>9. QED
    BY Zenon, <2>1, <2>3, <2>4, <2>5, <2>6, <2>7, <2>8 DEF Next
<1>3. QED
  BY <1>1, <1>2, PTL DEF Spec

-----------------------------------------------------------------------------
(* The spare records                                                       *)

\* A list holds an event once but for the newest, and there are 24 reports of
\* completion and three errors that end a command besides those nobody asked for.
Enough == NumEvents >= 56 + 2 * Cardinality(Unsolicited)
Bounded == \A c \in Components : Len(list[c]) <= 28 + Cardinality(Unsolicited)

\* One element more makes a set larger by at most one.
LEMMA OneMore ==
  ASSUME NEW S, NEW x, NEW n \in Nat, NEW m, m = n + 1, IsFiniteSet(S), Cardinality(S) <= n
  PROVE  IsFiniteSet(S \cup {x}) /\ Cardinality(S \cup {x}) <= m
<1>1. IsFiniteSet(S \cup {x}) /\ Cardinality(S \cup {x}) = IF x \in S THEN Cardinality(S) ELSE Cardinality(S) + 1
  BY FS_AddElement
<1>2. Cardinality(S) \in Nat
  BY FS_CardinalityType
<1>3. QED
  BY <1>1, <1>2

\* The size of a union is at most the sum of the sizes.
LEMMA BothFew ==
  ASSUME NEW S, NEW T, NEW m \in Nat, NEW n \in Nat, IsFiniteSet(S), Cardinality(S) <= m,
         IsFiniteSet(T), Cardinality(T) <= n
  PROVE  IsFiniteSet(S \cup T) /\ Cardinality(S \cup T) <= m + n
<1>1. IsFiniteSet(S \cup T)
      /\ Cardinality(S \cup T) = Cardinality(S) + Cardinality(T) - Cardinality(S \cap T)
  BY FS_Union
<1>2. Cardinality(S) \in Nat /\ Cardinality(T) \in Nat
  BY FS_CardinalityType
<1>3. Cardinality(S \cap T) \in Nat
  <2>1. S \cap T \in SUBSET S
    OBVIOUS
  <2>2. IsFiniteSet(S \cap T)
    BY <2>1, FS_Subset
  <2>3. QED
    BY <2>2, FS_CardinalityType
<1>4. QED
  BY <1>1, <1>2, <1>3

\* There are at most 27 events besides those that nobody asked for.
LEMMA EventsAreFew ==
  IsFiniteSet(Events) /\ Cardinality(Events) <= 27 + Cardinality(Unsolicited)
      /\ Cardinality(Unsolicited) \in Nat
<1> DEFINE D == {Done(cmd, arg) : cmd \in Commands, arg \in Arguments}
           E == {Error(code, "command") : code \in {"SameState", "IncorrectStateTransition", "InsufficientResources"}}
<1>0. /\ 0 \in Nat /\ 1 \in Nat /\ 2 \in Nat /\ 3 \in Nat /\ 4 \in Nat /\ 5 \in Nat
      /\ 1 = 0 + 1 /\ 2 = 1 + 1 /\ 3 = 2 + 1 /\ 4 = 3 + 1 /\ 5 = 4 + 1 /\ 6 = 5 + 1
  OBVIOUS
<1>1. IsFiniteSet(Commands) /\ Cardinality(Commands) <= 4
  <2>1. Commands = {"StateSet"} \cup {"PortEnable"} \cup {"PortDisable"} \cup {"Flush"}
    BY DEF Commands
  <2>2. /\ IsFiniteSet({}) /\ Cardinality({}) <= 0 /\ {} \cup {"StateSet"} = {"StateSet"}
    BY FS_EmptySet
  <2>3. IsFiniteSet({"StateSet"}) /\ Cardinality({"StateSet"}) <= 1
    BY Zenon, <1>0, <2>2, OneMore
  <2> DEFINE A == {"StateSet"} \cup {"PortEnable"}
             B == A \cup {"PortDisable"}
             C == B \cup {"Flush"}
  <2>4. IsFiniteSet(A) /\ Cardinality(A) <= 2
    BY Zenon, <1>0, <2>3, OneMore
  <2> HIDE DEF A
  <2>5. IsFiniteSet(B) /\ Cardinality(B) <= 3
    BY Zenon, <1>0, <2>4, OneMore
  <2> HIDE DEF B
  <2>6. IsFiniteSet(C) /\ Cardinality(C) <= 4
    BY Zenon, <1>0, <2>5, OneMore
  <2>7. QED
    BY <2>1, <2>6 DEF A, B
<1>2. IsFiniteSet(Arguments) /\ Cardinality(Arguments) <= 6
  <2> DEFINE A1 == {"Loaded"}
             A2 == A1 \cup {"Idle"}
             A3 == A2 \cup {"Executing"}
             A4 == A3 \cup {"in"}
             A5 == A4 \cup {"out"}
             A6 == A5 \cup {"render"}
  <2>0. A6 = Arguments
    BY DEF Arguments
  <2>1. /\ IsFiniteSet({}) /\ Cardinality({}) <= 0 /\ {} \cup {"Loaded"} = A1
    BY FS_EmptySet
  <2>2. IsFiniteSet(A1) /\ Cardinality(A1) <= 1
    BY Zenon, <1>0, <2>1, OneMore
  <2> HIDE DEF A1
  <2>3. IsFiniteSet(A2) /\ Cardinality(A2) <= 2
    BY Zenon, <1>0, <2>2, OneMore
  <2> HIDE DEF A2
  <2>4. IsFiniteSet(A3) /\ Cardinality(A3) <= 3
    BY Zenon, <1>0, <2>3, OneMore
  <2> HIDE DEF A3
  <2>5. IsFiniteSet(A4) /\ Cardinality(A4) <= 4
    BY Zenon, <1>0, <2>4, OneMore
  <2> HIDE DEF A4
  <2>6. IsFiniteSet(A5) /\ Cardinality(A5) <= 5
    BY Zenon, <1>0, <2>5, OneMore
  <2> HIDE DEF A5
  <2>7. IsFiniteSet(A6) /\ Cardinality(A6) <= 6
    BY Zenon, <1>0, <2>6, OneMore
  <2> HIDE DEF A6
  <2>8. QED
    BY <2>0, <2>7
<1>3. IsFiniteSet(D) /\ Cardinality(D) <= 24
  <2> DEFINE P == Commands \X Arguments
             g == [x \in P |-> Done(x[1], x[2])]
  <2>1. IsFiniteSet(P) /\ Cardinality(P) = Cardinality(Commands) * Cardinality(Arguments)
    BY <1>1, <1>2, FS_Product
  <2>2. Cardinality(Commands) \in Nat /\ Cardinality(Arguments) \in Nat
    BY <1>1, <1>2, FS_CardinalityType
  <2>3. \A m, n \in Nat : m <= 4 /\ n <= 6 => m * n <= 24
    <3>1. SUFFICES ASSUME NEW m \in Nat, NEW n \in Nat, m <= 4, n <= 6 PROVE m * n <= 24
      OBVIOUS
    <3>2. m = 0 \/ m = 1 \/ m = 2 \/ m = 3 \/ m = 4
      BY <3>1
    <3>3. QED
      BY <3>1, <3>2
  <2>4. Cardinality(P) <= 24
    BY <1>1, <1>2, <2>1, <2>2, <2>3
  <2>5. g \in Surjection(P, D)
    <3>1. g \in [P -> D]
      OBVIOUS
    <3>2. \A e \in D : \E x \in P : g[x] = e
      <4> TAKE e \in D
      <4>1. PICK cmd \in Commands, arg \in Arguments : e = Done(cmd, arg)
        OBVIOUS
      <4>2. <<cmd, arg>> \in P /\ g[<<cmd, arg>>] = e
        BY <4>1
      <4>3. QED
        BY <4>2
    <3> HIDE DEF g, D, P
    <3>3. QED
      BY <3>1, <3>2 DEF Surjection
  <2> HIDE DEF g, P, D
  <2>6. IsFiniteSet(D) /\ Cardinality(D) <= Cardinality(P)
    BY <2>1, <2>5, FS_Surjection
  <2>7. QED
    BY <2>1, <2>4, <2>6, FS_CardinalityType
<1>4. IsFiniteSet(E) /\ Cardinality(E) <= 3
  <2> DEFINE E1 == {Error("SameState", "command")}
             E2 == E1 \cup {Error("IncorrectStateTransition", "command")}
             E3 == E2 \cup {Error("InsufficientResources", "command")}
  <2>0. E3 = E
    OBVIOUS
  <2>1. /\ IsFiniteSet({}) /\ Cardinality({}) <= 0 /\ {} \cup {Error("SameState", "command")} = E1
    BY FS_EmptySet
  <2>2. IsFiniteSet(E1) /\ Cardinality(E1) <= 1
    BY Zenon, <1>0, <2>1, OneMore
  <2> HIDE DEF E1
  <2>3. IsFiniteSet(E2) /\ Cardinality(E2) <= 2
    BY Zenon, <1>0, <2>2, OneMore
  <2> HIDE DEF E2
  <2>4. IsFiniteSet(E3) /\ Cardinality(E3) <= 3
    BY Zenon, <1>0, <2>3, OneMore
  <2> HIDE DEF E, E3
  <2>5. QED
    BY <2>0, <2>4
<1>5. IsFiniteSet(Unsolicited) /\ Cardinality(Unsolicited) \in Nat
  BY UnsolicitedAssumption, FS_CardinalityType
<1> HIDE DEF D, E
<1>6. IsFiniteSet(D \cup E) /\ Cardinality(D \cup E) <= 24 + 3
  BY <1>3, <1>4, BothFew
<1> DEFINE G == D \cup E
           u == Cardinality(Unsolicited)
<1>7. IsFiniteSet(G) /\ Cardinality(G) <= 27 /\ u \in Nat /\ u <= u
  BY <1>5, <1>6
<1> HIDE DEF G
<1>8. IsFiniteSet(G \cup Unsolicited) /\ Cardinality(G \cup Unsolicited) <= 27 + u
  BY Zenon, <1>5, <1>7, BothFew, 27 \in Nat
<1>9. Events = G \cup Unsolicited
  BY DEF Events, D, E, G
<1>10. QED
  BY <1>5, <1>8, <1>9

\* A list without duplicates is no longer than there are events.
LEMMA DedupedIsFew ==
  ASSUME NEW s \in Seq(Events)
  PROVE  Deduped(s) \in Seq(Events) /\ Len(Deduped(s)) <= 27 + Cardinality(Unsolicited)
<1> DEFINE d == Deduped(s)
<1>1. d \in Seq(Events) /\ \A i, j \in DOMAIN d : d[i] = d[j] => i = j
  BY Zenon, DedupedProperties DEF Deduplicates
<1> HIDE DEF d
<1>2. Len(d) \in Nat /\ d \in [1 .. Len(d) -> Events] /\ DOMAIN d = 1 .. Len(d)
  BY <1>1, LenProperties
<1>3. d \in Injection(1 .. Len(d), Events)
  BY <1>1, <1>2 DEF Injection, IsInjective
<1>4. Cardinality(1 .. Len(d)) <= Cardinality(Events)
  <2>1. /\ IsFiniteSet(1 .. Len(d)) /\ Cardinality(1 .. Len(d)) <= Cardinality(Events)
        /\ Cardinality(1 .. Len(d)) = Cardinality(Events) <=> d \in Surjection(1 .. Len(d), Events)
    <3>1. IsFiniteSet(Events)
      BY EventsAreFew
    <3>2. QED
      BY Zenon, <1>3, <3>1, FS_Injection
  <2>2. QED
    BY <2>1
<1>5. Cardinality(1 .. Len(d)) = Len(d)
  <2>1. 1 \in Int /\ Len(d) \in Int
    BY <1>2
  <2>2. Cardinality(1 .. Len(d)) = IF 1 > Len(d) THEN 0 ELSE Len(d) - 1 + 1
    BY Zenon, <2>1, FS_Interval
  <2>3. QED
    BY <1>2, <2>2
<1>6. Cardinality(Events) \in Nat
  <2>1. IsFiniteSet(Events)
    BY EventsAreFew
  <2>2. QED
    BY Zenon, <2>1, FS_CardinalityType
<1>7. QED
  BY <1>1, <1>2, <1>4, <1>5, <1>6, EventsAreFew DEF d

\* A report finds a spare record, and the lists stay short.
LEMMA NotifyBounded ==
  ASSUME TypeOK, Bounded, Enough, NEW c \in Components, NEW e \in Events, Notify(c, e)
  PROVE  Bounded' /\ asserted' = asserted
<1> DEFINE u == Cardinality(Unsolicited)
           kept == [list EXCEPT ![c] = Deduped(@)]
<1>1. u \in Nat
  BY EventsAreFew
<1> HIDE DEF u
<1>2. \A d \in Components : list[d] \in Seq(Events) /\ Len(list[d]) \in Nat /\ Len(list[d]) <= 28 + u
  BY LenProperties DEF TypeOK, Bounded, u
<1>3. Deduped(list[c]) \in Seq(Events) /\ Len(Deduped(list[c])) \in Nat /\ Len(Deduped(list[c])) <= 27 + u
  BY <1>2, DedupedIsFew, LenProperties DEF u
<1>4. \A d \in Components : kept[d] = IF d = c THEN Deduped(list[c]) ELSE list[d]
  BY DEF TypeOK
<1> HIDE DEF kept
<1>5. Spare(kept) \in Int /\ Spare(kept) > 0
  <2>1. NumEvents \in Nat /\ NumEvents >= 56 + 2 * u
    BY DEF Enough, u
  <2>2. \A d \in Components : /\ Len(kept[d]) \in Nat /\ Len(kept[d]) <= 28 + u
                              /\ d = c => Len(kept[d]) <= 27 + u
    <3> TAKE d \in Components
    <3>1. CASE d = c
      <4>1. kept[d] = Deduped(list[c])
        BY <1>4, <3>1
      <4>2. QED
        BY <1>1, <1>3, <4>1
    <3>2. CASE d # c
      <4>1. kept[d] = list[d]
        BY <1>4, <3>2
      <4>2. QED
        BY <1>2, <3>2, <4>1
    <3>3. QED
      BY <3>1, <3>2
  <2>3. /\ "source" \in Components /\ "sink" \in Components /\ (c = "source" \/ c = "sink")
    BY DEF Components
  <2> DEFINE m == Len(kept["source"])
             n == Len(kept["sink"])
  <2>4. m \in Nat /\ n \in Nat /\ m <= 28 + u /\ n <= 28 + u /\ (m <= 27 + u \/ n <= 27 + u)
    BY Zenon, <2>2, <2>3
  <2>5. Spare(kept) = NumEvents - (m + n)
    BY DEF Spare
  <2> HIDE DEF m, n
  <2>6. QED
    BY <1>1, <2>1, <2>4, <2>5
<1>6. asserted' = asserted
  <2>1. asserted' = (asserted \/ Spare(kept) <= 0)
    BY DEF Notify, kept
  <2>2. ~(Spare(kept) <= 0)
    BY <1>5
  <2>3. asserted \in BOOLEAN
    BY DEF TypeOK
  <2>4. QED
    BY <2>1, <2>2, <2>3
<1>7. ASSUME NEW d \in Components PROVE Len(list'[d]) <= 28 + u
  <2>1. list'[d] = kept[d] \/ (d = c /\ list'[d] = <<e>> \o Deduped(list[c]))
    BY <1>4 DEF Notify, TypeOK, kept
  <2>2. Len(<<e>> \o Deduped(list[c])) = 1 + Len(Deduped(list[c]))
    <3>1. <<e>> \in Seq(Events) /\ Len(<<e>>) = 1
      OBVIOUS
    <3>2. QED
      BY <1>3, <3>1, ConcatProperties
  <2> HIDE DEF kept
  <2>3. QED
    BY <1>1, <1>2, <1>3, <1>4, <2>1, <2>2
<1>8. QED
  BY <1>6, <1>7 DEF Bounded, u

\* Taking a record off makes no list longer.
LEMMA RemovalShrinks ==
  ASSUME TypeOK, NEW c \in Components, NEW k \in DOMAIN list[c], list' = [list EXCEPT ![c] = RemoveAt(@, k)]
  PROVE  \A d \in Components : Len(list'[d]) <= Len(list[d])
<1>1. list[c] \in Seq(Events) /\ \A d \in Components : Len(list[d]) \in Nat
  BY LenProperties DEF TypeOK
<1>2. Len(RemoveAt(list[c], k)) = Len(list[c]) - 1
  BY <1>1, RemoveAtProperties
<1>3. \A d \in Components : list'[d] = IF d = c THEN RemoveAt(list[c], k) ELSE list[d]
  BY DEF TypeOK
<1>4. QED
  BY <1>1, <1>2, <1>3

\* The client thread's own steps make no list longer.
LEMMA ListsShrink ==
  ASSUME TypeOK, Run, Typed(Now)
  PROVE  \A d \in Components : Len(list'[d]) <= Len(list[d])
<1> DEFINE Goal == \A d \in Components : Len(list'[d]) <= Len(list[d])
<1>1. \A d \in Components : list[d] \in Seq(Events) /\ Len(list[d]) \in Nat
  BY LenProperties DEF TypeOK
<1>2. ASSUME UNCHANGED list PROVE Goal
  BY <1>1, <1>2
<1>3. ASSUME NEW c \in Components, NEW k \in DOMAIN list[c], list' = [list EXCEPT ![c] = RemoveAt(@, k)] PROVE Goal
  BY Zenon, <1>3, RemovalShrinks
<1>4. ASSUME NEW c \in Components, NEW k \in DOMAIN list[c], Take(c, k) PROVE Goal
  BY Zenon, <1>3, <1>4 DEF Take
<1> SUFFICES Goal
  OBVIOUS
<1> HIDE DEF Goal
<1>5. CASE RunAwait
  <2>1. Now.c \in Components
    BY <1>5 DEF RunAwait, At, Now, Typed, Waiting, EventOps, Draining, Getting, Plain
  <2> DEFINE k == AnswerAt(Now.c, Now.cmd, Now.arg)
  <2>2. k # 0 => k \in DOMAIN list[Now.c]
    BY <1>1, <2>1, AnswerFinds
  <2>3. \/ k # 0 /\ (Take(Now.c, k) \/ list' = [list EXCEPT ![Now.c] = RemoveAt(@, k)])
        \/ UNCHANGED list
    BY <1>5 DEF RunAwait, AnswerAt
  <2> HIDE DEF k
  <2>4. QED
    BY Zenon, <1>2, <1>3, <1>4, <2>1, <2>2, <2>3
<1>6. CASE RunEvent \/ RunEventErrors \/ RunEventLast \/ EventSleep \/ RunRemove
  <2>1. Now.c \in Components
    BY <1>6 DEF RunEvent, RunEventErrors, RunEventLast, EventSleep, RunRemove, At, Now, Typed, Waiting, EventOps, Draining, Getting, Plain
  <2>2. Where(Now.c, Now.event) # 0 => Where(Now.c, Now.event) \in DOMAIN list[Now.c]
    BY <1>1, <2>1, WhereFinds
  <2>3. FirstError(Now.c, Now.all) # 0 => FirstError(Now.c, Now.all) \in DOMAIN list[Now.c]
    BY <1>1, <2>1, FirstErrorFinds
  <2>4. \/ UNCHANGED list
        \/ Where(Now.c, Now.event) # 0 /\ Take(Now.c, Where(Now.c, Now.event))
        \/ FirstError(Now.c, Now.all) # 0 /\ Take(Now.c, FirstError(Now.c, Now.all))
    BY <1>6 DEF RunEvent, RunEventErrors, RunEventLast, EventSleep, RunRemove
  <2>5. QED
    BY Zenon, <1>2, <1>4, <2>1, <2>2, <2>3, <2>4
<1>7. CASE DrainSleep
  <2>1. "source" \in Components
    BY DEF Components
  <2>2. /\ FirstError("source", FALSE) # 0 => FirstError("source", FALSE) \in DOMAIN list["source"]
        /\ Where("source", Done("PortDisable", "in")) # 0
             => Where("source", Done("PortDisable", "in")) \in DOMAIN list["source"]
    BY <1>1, <2>1, FirstErrorFinds, WhereFinds
  <2>3. \/ UNCHANGED list
        \/ \E k \in DOMAIN list["source"] : list' = [list EXCEPT !["source"] = RemoveAt(@, k)]
    BY <1>7, <2>2 DEF DrainSleep
  <2>4. QED
    BY Zenon, <1>2, <1>3, <2>1, <2>3
<1>8. CASE RunFree
  <2>1. Now.c \in Components
    BY <1>8 DEF RunFree, At, Now, Typed, Waiting, EventOps, Draining, Getting, Plain
  <2>2. \A d \in Components : list'[d] = IF d = Now.c THEN <<>> ELSE list[d]
    BY <1>8 DEF RunFree, TypeOK
  <2>3. Len(<<>>) = 0
    OBVIOUS
  <2>4. QED
    BY <1>1, <2>2, <2>3 DEF Goal
<1>9. CASE RunCommand \/ Sleep \/ RunIf \/ RunMask \/ RunReturn \/ RunExternal \/ RunGetHandle
             \/ RunUse \/ RunQueue \/ RunDrain \/ RunFreeBuffers \/ RunGetBuffer \/ GetSleep \/ RunEmptyBuffer
             \/ RunReadIntoBufferAndEmpty
  <2>1. UNCHANGED list
    BY <1>9 DEF RunCommand, Sleep, RunIf, RunMask, RunReturn, RunExternal, RunGetHandle, RunUse, RunQueue, RunDrain, RunFreeBuffers, RunGetBuffer, GetSleep, RunEmptyBuffer, RunReadIntoBufferAndEmpty, library
  <2>2. QED
    BY Zenon, <1>2, <2>1
<1>10. QED
  BY Zenon, <1>5, <1>6, <1>7, <1>8, <1>9 DEF Run

\* A step of the client leaves asserted alone, but for the end of a call that gives up.
LEMMA RunAsserts ==
  ASSUME TypeOK, Run PROVE asserted' = asserted \/ (At("return") /\ Now.value = Aborted)
<1>1. CASE RunReturn
  <2>1. asserted' = (Now.value = Aborted) /\ At("return") /\ ~asserted
    BY <1>1 DEF RunReturn, At
  <2>2. QED
    BY <2>1 DEF TypeOK
<1>2. CASE ~RunReturn
  BY <1>2 DEF Run, RunCommand, RunAwait, Sleep, RunEvent, RunEventErrors, RunEventLast, EventSleep, RunRemove, RunIf, RunMask, RunExternal, RunGetHandle, RunFree, RunUse, RunQueue, RunDrain, RunFreeBuffers, DrainSleep, RunGetBuffer, GetSleep, RunEmptyBuffer, RunReadIntoBufferAndEmpty
<1>3. QED
  BY <1>1, <1>2

\* No step makes a list longer than NumEvents allows, so no assertion fails for want of a
\* record; the only assertion that is left is that of a call which gives up.
LEMMA NextBounded ==
  ASSUME TypeOK, Shape, Bounded, Enough, [Next]_vars
  PROVE  Bounded' /\ (asserted' = asserted \/ (At("return") /\ Now.value = Aborted))
<1>1. ASSUME UNCHANGED <<list, asserted>> PROVE Bounded' /\ asserted' = asserted
  BY <1>1 DEF Bounded
<1>2. CASE Run
  <2>1. todo # <<>>
    BY <1>2 DEF Run, At, RunCommand, RunAwait, Sleep, RunEvent, RunEventErrors, RunEventLast, EventSleep, RunRemove, RunIf, RunMask, RunReturn, RunExternal, RunGetHandle, RunFree, RunUse, RunQueue, RunDrain, RunFreeBuffers, DrainSleep, RunGetBuffer, GetSleep, RunEmptyBuffer, RunReadIntoBufferAndEmpty
  <2>2. Typed(Now)
    BY <2>1, ShapeIsTyped
  <2>3. \A d \in Components : Len(list'[d]) <= Len(list[d])
    BY <1>2, <2>2, ListsShrink
  <2>4. \A d \in Components : Len(list'[d]) \in Nat /\ Len(list[d]) \in Nat
    <3>1. TypeOK'
      BY <1>2, RunTypes
    <3>2. QED
      BY <3>1, LenProperties DEF TypeOK
  <2>5. Bounded'
    <3>1. Cardinality(Unsolicited) \in Nat
      BY EventsAreFew
    <3>2. QED
      BY <2>3, <2>4, <3>1 DEF Bounded
  <2>6. QED
    BY <1>2, <2>5, RunAsserts
<1>3. ASSUME NEW c \in Components, Complete(c) \/ Surprise(c) PROVE Bounded' /\ asserted' = asserted
  <2>1. \E e \in Events : Notify(c, e)
    <3>1. CASE Complete(c)
      <4> DEFINE k == Head(omx[c].queue)
      <4>1. omx[c].queue \in Seq(CommandsOf(c)) /\ omx[c].queue # <<>>
        BY <3>1 DEF TypeOK, Complete
      <4>2. k \in Commands \X Arguments \X BOOLEAN
        BY <4>1, HeadTailProperties DEF CommandsOf
      <4>3. \E e : Notify(c, e) /\ (e = Answer(c, k) \/ e = Error("InsufficientResources", "command"))
        BY <3>1 DEF Complete
      <4> HIDE DEF k
      <4>4. QED
        BY Zenon, <4>2, <4>3, EventsAreKnown
    <3>2. CASE Surprise(c)
      BY <3>2 DEF Surprise, Events
    <3>3. QED
      BY <1>3, <3>1, <3>2
  <2>2. QED
    BY Zenon, <2>1, NotifyBounded
<1>4. CASE Call \/ BufferDone \/ BufferFlag \/ UNCHANGED vars
  <2>1. Call => UNCHANGED <<list, asserted>>
    <3>1. Call => \E f \in CallNames : \E s : Calls(f, s)
      BY Zenon, LooseCall
    <3>2. QED
      BY <3>1 DEF Calls, library
  <2>2. UNCHANGED <<list, asserted>>
    BY <1>4, <2>1 DEF BufferDone, BufferFlag, vars, library
  <2>3. QED
    BY <1>1, <2>2
<1>5. QED
  BY Zenon, <1>2, <1>3, <1>4 DEF Next

\* A component may report as much as it likes: with the hundred records that the code
\* has, and at most 22 events that come unasked, the spare list is never empty in the
\* event handler, so that only a command the library takes to be certain can make an
\* assertion fail.
THEOREM RecordsSuffice ==
  ASSUME Enough
  PROVE  Spec => /\ [][asserted' = asserted \/ (At("return") /\ Now.value = Aborted)]_vars
                 /\ []Bounded
<1>1. Init => Bounded
  <2>1. Init => \A c \in Components : list[c] = <<>>
    BY DEF Init
  <2>2. Len(<<>>) = 0 /\ Cardinality(Unsolicited) \in Nat
    BY EventsAreFew
  <2>3. QED
    BY <2>1, <2>2 DEF Bounded
<1>2. TypeOK /\ Shape /\ Bounded /\ [Next]_vars => Bounded'
  BY NextBounded
<1>3. TypeOK /\ Shape /\ Bounded /\ [Next]_vars
        => [asserted' = asserted \/ (At("return") /\ Now.value = Aborted)]_vars
  BY NextBounded
<1>4. QED
  BY <1>1, <1>2, <1>3, Types, PTL DEF Spec

-----------------------------------------------------------------------------
(* What is on the lists                                                    *)

On(l, e) == \E k \in DOMAIN l : l[k] = e
\* the events that a wait for a command looks for
Relevant(e) == IsAnswer(e) \/ EndsCommand(e)
Quiet(l) == \A k \in DOMAIN l : ~Relevant(l[k])
Only(l, e) == \E k \in DOMAIN l : l[k] = e /\ \A j \in DOMAIN l : j # k => ~Relevant(l[j])

\* Deduped() holds the same events, and no new ones that matter to a call.
LEMMA DedupedContents ==
  ASSUME NEW s \in Seq(Events)
  PROVE  /\ Deduped(s) \in Seq(Events)
         /\ \A e : On(Deduped(s), e) <=> On(s, e)
         /\ Quiet(s) => Quiet(Deduped(s))
         /\ \A e : Only(s, e) /\ Relevant(e) => Only(Deduped(s), e)
<1> DEFINE d == Deduped(s)
<1>1. /\ d \in Seq(Events) /\ (\A i, j \in DOMAIN d : d[i] = d[j] => i = j)
      /\ (\A i \in DOMAIN d : \E j \in 1 .. Len(s) : d[i] = s[j])
      /\ \A j \in 1 .. Len(s) : \E i \in DOMAIN d : d[i] = s[j]
  BY Zenon, DedupedProperties DEF Deduplicates
<1>2. DOMAIN s = 1 .. Len(s)
  BY LenProperties
<1> HIDE DEF d
<1>3. \A e : On(d, e) <=> On(s, e)
  BY Zenon, <1>1, <1>2 DEF On
<1>4. Quiet(s) => Quiet(d)
  BY Zenon, <1>1, <1>2 DEF Quiet
<1>5. ASSUME NEW e, Only(s, e), Relevant(e) PROVE Only(d, e)
  <2>1. PICK k \in DOMAIN s : s[k] = e /\ \A j \in DOMAIN s : j # k => ~Relevant(s[j])
    BY Zenon, <1>5 DEF Only
  <2>2. PICK i \in DOMAIN d : d[i] = e
    BY Zenon, <1>1, <1>2, <2>1
  <2>3. ASSUME NEW j \in DOMAIN d, j # i PROVE ~Relevant(d[j])
    <3>1. PICK m \in DOMAIN s : d[j] = s[m]
      BY Zenon, <1>1, <1>2
    <3>2. m # k
      BY Zenon, <1>1, <2>1, <2>2, <2>3, <3>1
    <3>3. QED
      BY Zenon, <2>1, <3>1, <3>2
  <2>4. QED
    BY Zenon, <2>2, <2>3 DEF Only
<1>6. QED
  BY Zenon, <1>1, <1>3, <1>4, <1>5 DEF d

\* What a list holds with an event in front of it.
LEMMA Prepended ==
  ASSUME NEW s \in Seq(Events), NEW e \in Events
  PROVE  /\ <<e>> \o s \in Seq(Events)
         /\ \A x : On(<<e>> \o s, x) <=> x = e \/ On(s, x)
         /\ Quiet(s) => Only(<<e>> \o s, e)
         /\ ~Relevant(e) => /\ Quiet(s) => Quiet(<<e>> \o s)
                            /\ \A x : Only(s, x) => Only(<<e>> \o s, x)
<1> DEFINE t == <<e>> \o s
<1>1. /\ t \in Seq(Events) /\ Len(t) = 1 + Len(s) /\ Len(s) \in Nat
      /\ t[1] = e /\ \A k \in 1 .. Len(s) : t[k + 1] = s[k]
  <2>1. <<e>> \in Seq(Events) /\ Len(<<e>>) = 1 /\ <<e>>[1] = e /\ Len(s) \in Nat
    BY LenProperties
  <2>2. /\ t \in Seq(Events) /\ Len(t) = 1 + Len(s)
        /\ \A i \in 1 .. 1 + Len(s) : t[i] = IF i <= 1 THEN <<e>>[i] ELSE s[i - 1]
    BY <2>1, ConcatProperties
  <2> HIDE DEF t
  <2>3. t[1] = e
    BY <2>1, <2>2
  <2>4. ASSUME NEW k \in 1 .. Len(s) PROVE t[k + 1] = s[k]
    <3>1. k + 1 \in 1 .. 1 + Len(s) /\ ~(k + 1 <= 1) /\ (k + 1) - 1 = k
      BY <2>1
    <3>2. QED
      BY <2>2, <3>1
  <2>5. QED
    BY <2>1, <2>2, <2>3, <2>4
<1> HIDE DEF t
<1>2. DOMAIN s = 1 .. Len(s) /\ DOMAIN t = 1 .. 1 + Len(s)
  BY <1>1, LenProperties
<1>3. /\ 1 \in DOMAIN t
      /\ \A k \in DOMAIN s : k + 1 \in DOMAIN t /\ k + 1 # 1
      /\ \A i \in DOMAIN t : i = 1 \/ \E k \in DOMAIN s : i = k + 1
  <2>1. \A i \in DOMAIN t : i # 1 => i - 1 \in DOMAIN s /\ i = (i - 1) + 1
    BY <1>1, <1>2
  <2>2. \A k \in DOMAIN s : k + 1 \in DOMAIN t /\ k + 1 # 1
    BY <1>1, <1>2
  <2>3. 1 \in DOMAIN t
    BY <1>1, <1>2
  <2>4. QED
    BY Zenon, <2>1, <2>2, <2>3
<1>4. t[1] = e /\ \A k \in DOMAIN s : t[k + 1] = s[k]
  BY <1>1, <1>2
<1>5. ASSUME NEW x PROVE On(t, x) <=> x = e \/ On(s, x)
  <2>1. ASSUME On(t, x) PROVE x = e \/ On(s, x)
    <3>1. PICK i \in DOMAIN t : t[i] = x
      BY <2>1 DEF On
    <3>2. CASE i = 1
      BY <1>4, <3>1, <3>2
    <3>3. CASE \E k \in DOMAIN s : i = k + 1
      <4>1. PICK k \in DOMAIN s : i = k + 1
        BY <3>3
      <4>2. s[k] = x
        BY Zenon, <1>4, <3>1, <4>1
      <4>3. QED
        BY Zenon, <4>2 DEF On
    <3>4. QED
      BY Zenon, <1>3, <3>2, <3>3
  <2>2. ASSUME x = e PROVE On(t, x)
    BY Zenon, <1>3, <1>4, <2>2 DEF On
  <2>3. ASSUME On(s, x) PROVE On(t, x)
    <3>1. PICK k \in DOMAIN s : s[k] = x
      BY Zenon, <2>3 DEF On
    <3>2. t[k + 1] = x /\ k + 1 \in DOMAIN t
      BY Zenon, <1>3, <1>4, <3>1
    <3>3. QED
      BY Zenon, <3>2 DEF On
  <2>4. QED
    BY Zenon, <2>1, <2>2, <2>3
<1>6. Quiet(s) => Only(t, e)
  BY Zenon, <1>3, <1>4 DEF Quiet, Only
<1>7. ~Relevant(e) /\ Quiet(s) => Quiet(t)
  BY Zenon, <1>3, <1>4 DEF Quiet
<1>8. ASSUME ~Relevant(e), NEW x, Only(s, x) PROVE Only(t, x)
  <2>1. PICK m \in DOMAIN s : s[m] = x /\ \A j \in DOMAIN s : j # m => ~Relevant(s[j])
    BY Zenon, <1>8 DEF Only
  <2>2. m + 1 \in DOMAIN t /\ t[m + 1] = x
    BY Zenon, <1>3, <1>4, <2>1
  <2>3. ASSUME NEW j \in DOMAIN t, j # m + 1 PROVE ~Relevant(t[j])
    <3>1. CASE j = 1
      BY <1>4, <1>8, <3>1
    <3>2. CASE \E k \in DOMAIN s : j = k + 1
      <4>1. PICK k \in DOMAIN s : j = k + 1
        BY <3>2
      <4>2. k # m /\ t[j] = s[k]
        BY Zenon, <1>4, <2>3, <4>1
      <4>3. QED
        BY Zenon, <2>1, <4>2
    <3>3. QED
      BY Zenon, <1>3, <3>1, <3>2
  <2>4. QED
    BY Zenon, <2>2, <2>3 DEF Only
<1>9. QED
  BY Zenon, <1>1, <1>5, <1>6, <1>7, <1>8 DEF t

\* What a list holds with a record taken off.
LEMMA Removed ==
  ASSUME NEW s \in Seq(Events), NEW k \in DOMAIN s
  PROVE  /\ RemoveAt(s, k) \in Seq(Events)
         /\ \A x : On(RemoveAt(s, k), x) => On(s, x)
         /\ \A x : On(s, x) /\ x # s[k] => On(RemoveAt(s, k), x)
         /\ Quiet(s) => Quiet(RemoveAt(s, k))
         /\ \A x : Only(s, x) /\ Relevant(s[k]) => Quiet(RemoveAt(s, k)) /\ s[k] = x
         /\ \A x : Only(s, x) /\ Relevant(x) /\ ~Relevant(s[k]) => Only(RemoveAt(s, k), x)
<1> DEFINE t == RemoveAt(s, k)
           up(j) == IF j < k THEN j ELSE j + 1
           down(i) == IF i < k THEN i ELSE i - 1
<1>1. t \in Seq(Events) /\ Len(t) = Len(s) - 1 /\ \A j \in 1 .. Len(s) - 1 : t[j] = IF j < k THEN s[j] ELSE s[j + 1]
  BY RemoveAtProperties
<1>2. Len(s) \in Nat /\ DOMAIN s = 1 .. Len(s) /\ DOMAIN t = 1 .. Len(s) - 1
  BY <1>1, LenProperties
<1> HIDE DEF t
<1>3. \A j \in DOMAIN t : up(j) \in DOMAIN s /\ up(j) # k /\ t[j] = s[up(j)]
  BY <1>1, <1>2
<1>4. \A i \in DOMAIN s : i # k => down(i) \in DOMAIN t /\ t[down(i)] = s[i]
  <2>1. TAKE i \in DOMAIN s
  <2>2. HAVE i # k
  <2>3. CASE i < k
    BY <1>1, <1>2, <2>3
  <2>4. CASE ~(i < k)
    <3>1. i - 1 \in 1 .. Len(s) - 1 /\ ~(i - 1 < k) /\ (i - 1) + 1 = i
      BY <1>2, <2>2, <2>4
    <3>2. t[i - 1] = s[i]
      BY <1>1, <3>1
    <3>3. QED
      BY <1>2, <2>4, <3>1, <3>2
  <2>5. QED
    BY <2>3, <2>4
<1>5. \A i, j \in DOMAIN t : up(i) = up(j) => i = j
  BY <1>1, <1>2
<1> HIDE DEF up, down
<1>6. /\ \A x : On(t, x) => On(s, x)
      /\ \A x : On(s, x) /\ x # s[k] => On(t, x)
      /\ Quiet(s) => Quiet(t)
  BY Zenon, <1>3, <1>4 DEF On, Quiet
<1>7. \A x : Only(s, x) /\ Relevant(s[k]) => Quiet(t) /\ s[k] = x
  BY Zenon, <1>3 DEF Quiet, Only
<1>8. ASSUME NEW x, Only(s, x), Relevant(x), ~Relevant(s[k]) PROVE Only(t, x)
  <2>1. PICK m \in DOMAIN s : s[m] = x /\ \A j \in DOMAIN s : j # m => ~Relevant(s[j])
    BY Zenon, <1>8 DEF Only
  <2>2. m # k
    BY Zenon, <1>8, <2>1
  <2>3. down(m) \in DOMAIN t /\ t[down(m)] = x
    BY Zenon, <1>4, <2>1, <2>2
  <2>4. ASSUME NEW j \in DOMAIN t, j # down(m) PROVE ~Relevant(t[j])
    <3>1. up(j) # m
      <4>1. SUFFICES ASSUME up(j) = m PROVE FALSE
        OBVIOUS
      <4>2. j = down(m)
        BY <1>2, <2>1, <4>1 DEF up, down
      <4>3. QED
        BY <2>4, <4>2
    <3>2. QED
      BY Zenon, <1>3, <2>1, <3>1
  <2>5. QED
    BY Zenon, <2>3, <2>4 DEF Only
<1>9. QED
  BY Zenon, <1>1, <1>6, <1>7, <1>8 DEF t

\* What the event callback does to lists and flags, whatever was masked.
LEMMA NotifyEffects ==
  ASSUME TypeOK, NEW c \in Components, NEW e \in Events, Notify(c, e)
  PROVE  LET masked == IsError(e) /\ e[2] \in mask[c]
         IN  /\ \A d \in Components : flags[d] \subseteq flags'[d]
             /\ \A d \in Components : d # c => list'[d] = list[d]
             /\ \A x : On(list'[c], x) <=> On(list[c], x) \/ (x = e /\ ~masked)
             /\ ~masked => FlagsOf(e) \subseteq flags'[c]
             /\ \A d \in Told(c, e) : "ERROR" \in flags'[d]
             /\ Quiet(list[c]) /\ ~masked => Only(list'[c], e)
             /\ Quiet(list[c]) /\ ~Relevant(e) => Quiet(list'[c])
             /\ \A x : Only(list[c], x) /\ Relevant(x) /\ ~Relevant(e) => Only(list'[c], x)
<1> DEFINE masked == IsError(e) /\ e[2] \in mask[c]
           kept == [list EXCEPT ![c] = Deduped(@)]
           raised(d) == (IF d = c /\ ~masked THEN FlagsOf(e) ELSE {})
                          \cup (IF d \in Told(c, e) THEN {"ERROR"} ELSE {})
<1>1. /\ list' = IF masked THEN kept ELSE [kept EXCEPT ![c] = <<e>> \o @]
      /\ flags' = [d \in Components |-> flags[d] \cup raised(d)]
  BY DEF Notify
<1>2. \A d \in Components : flags'[d] = flags[d] \cup raised(d)
  BY <1>1
<1>3. \A d \in Components : list'[d] = IF d # c THEN list[d]
                                       ELSE IF masked THEN Deduped(list[c]) ELSE <<e>> \o Deduped(list[c])
  <2> HIDE DEF masked
  <2>1. QED
    BY <1>1 DEF TypeOK
<1>4. Told(c, e) \subseteq Components
  BY DEF Told
<1>5. /\ \A d \in Components : flags[d] \subseteq flags'[d]
      /\ ~masked => FlagsOf(e) \subseteq flags'[c]
      /\ \A d \in Told(c, e) : "ERROR" \in flags'[d]
  <2> HIDE DEF masked
  <2>1. QED
    BY <1>2, <1>4
<1> DEFINE s == Deduped(list[c])
<1>6. /\ s \in Seq(Events) /\ (\A x : On(s, x) <=> On(list[c], x))
      /\ (Quiet(list[c]) => Quiet(s)) /\ \A x : Only(list[c], x) /\ Relevant(x) => Only(s, x)
  <2>1. list[c] \in Seq(Events)
    BY DEF TypeOK
  <2>2. QED
    BY Zenon, <2>1, DedupedContents
<1>7. list'[c] = IF masked THEN s ELSE <<e>> \o s
  BY <1>3
<1> HIDE DEF s, masked
<1>8. /\ \A x : On(<<e>> \o s, x) <=> x = e \/ On(s, x)
      /\ Quiet(s) => Only(<<e>> \o s, e)
      /\ ~Relevant(e) => /\ Quiet(s) => Quiet(<<e>> \o s)
                         /\ \A x : Only(s, x) => Only(<<e>> \o s, x)
  BY Zenon, <1>6, Prepended
<1>9. CASE masked
  BY Zenon, <1>3, <1>5, <1>6, <1>7, <1>9 DEF masked
<1>10. CASE ~masked
  <2>1. list'[c] = <<e>> \o s
    BY <1>7, <1>10
  <2>2. \A x : On(list'[c], x) <=> On(list[c], x) \/ x = e
    BY Zenon, <1>6, <1>8, <2>1
  <2>3. /\ Quiet(list[c]) => Only(list'[c], e)
        /\ Quiet(list[c]) /\ ~Relevant(e) => Quiet(list'[c])
        /\ \A x : Only(list[c], x) /\ Relevant(x) /\ ~Relevant(e) => Only(list'[c], x)
    BY Zenon, <1>6, <1>8, <2>1
  <2>4. QED
    BY Zenon, <1>3, <1>5, <1>10, <2>2, <2>3 DEF masked
<1>11. QED
  BY Zenon, <1>9, <1>10

-----------------------------------------------------------------------------
(* No wake-up is lost                                                      *)

\* The instructions that others turn into: none is part of a script from the start.
Asleep == {"sleep", "eventErrors", "eventLast", "eventSleep", "freeBuffers", "drainSleep", "getSleep"}

\* The scripts that instruction i may go on with hold instructions of I alone ...
Within(i, I) ==
  /\ i.op \in Waiting => i.onFail \in Seq(I) /\ i.onOther \in Seq(I)
  /\ i.op \in EventOps \cup {"connect", "configure", "getHandle", "use"} => i.onFail \in Seq(I)
  /\ i.op = "if" => i.yes \in Seq(I) /\ i.no \in Seq(I)
  /\ i.op \in Draining => Await("source", "PortDisable", "in", FailAssert) \in Seq(I)
\* ... and I is a set of instructions that are not asleep.
Closed(I) == \A i \in I : i.op \notin Asleep /\ Within(i, I)
Awake(s) == \E I : Closed(I) /\ s \in Seq(I)

\* Two closed sets of instructions together are closed.
LEMMA AwakeTogether ==
  ASSUME NEW I, NEW J, Closed(I), Closed(J) PROVE Closed(I \cup J)
<1>1. Seq(I) \subseteq Seq(I \cup J) /\ Seq(J) \subseteq Seq(I \cup J)
  BY SeqMonotonic
<1>2. QED
  BY <1>1 DEF Closed, Within

\* Scripts whose waits can be woken, one after the other, are such a script.
LEMMA AwakeSequence ==
  ASSUME NEW s, NEW t, Awake(s), Awake(t) PROVE Awake(s \o t)
<1>1. PICK I : Closed(I) /\ s \in Seq(I)
  BY Zenon DEF Awake
<1>2. PICK J : Closed(J) /\ t \in Seq(J)
  BY Zenon DEF Awake
<1>3. s \in Seq(I \cup J) /\ t \in Seq(I \cup J)
  BY <1>1, <1>2, SeqMonotonic
<1>4. s \o t \in Seq(I \cup J) /\ Closed(I \cup J)
  BY <1>1, <1>2, <1>3, ConcatProperties, AwakeTogether
<1>5. QED
  BY Zenon, <1>4 DEF Awake

\* The empty script has no wait.
LEMMA AwakeSkip == Awake(<<>>)
<1>1. Closed({}) /\ <<>> \in Seq({})
  BY EmptySeq DEF Closed
<1>2. QED
  BY Zenon, <1>1 DEF Awake

\* An instruction whose scripts are awake.
LEMMA AwakeInstruction ==
  ASSUME NEW i, i.op \notin Asleep, NEW s, NEW t, Awake(s), Awake(t),
         \A I : s \in Seq(I) /\ t \in Seq(I) => Within(i, I)
  PROVE  Awake(<<i>>)
<1>1. PICK I : Closed(I) /\ s \in Seq(I)
  BY Zenon DEF Awake
<1>2. PICK J : Closed(J) /\ t \in Seq(J)
  BY Zenon DEF Awake
<1> DEFINE K == I \cup J
           L == K \cup {i}
<1>3. Closed(K)
  BY <1>1, <1>2, AwakeTogether
<1>4. s \in Seq(K) /\ t \in Seq(K)
  BY <1>1, <1>2, SeqMonotonic
<1> HIDE DEF K
<1>5. Seq(K) \subseteq Seq(L)
  BY SeqMonotonic
<1>6. s \in Seq(L) /\ t \in Seq(L)
  BY <1>4, <1>5
<1>7. <<i>> \in Seq(L)
  OBVIOUS
<1>8. Closed(L)
  <2>1. Within(i, L)
    <3> HIDE DEF L
    <3>1. QED
      BY Zenon, <1>6
  <2>2. \A j \in K : j.op \notin Asleep /\ Within(j, L)
    <3> HIDE DEF L
    <3>1. QED
      BY <1>3, <1>5 DEF Closed, Within
  <2>3. QED
    BY <2>1, <2>2 DEF Closed
<1>9. QED
  <2> HIDE DEF L
  <2>1. QED
    BY Zenon, <1>7, <1>8 DEF Awake

\* Instructions without a wait, and the buffer instructions, which look before they sleep.
LEMMA AwakeCommands ==
  /\ \A c, cmd, arg : Awake(Command(c, cmd, arg))
  /\ \A c, all : Awake(RemoveError(c, all))
  /\ \A v : Awake(Return(v))
  /\ \A on : Awake(MaskUnpopulated(on))
  /\ \A c : Awake(ClearError(c)) /\ Awake(<<[op |-> "free", c |-> c]>>)
  /\ Awake(<<[op |-> "queue"]>>)
  /\ Awake(<<[op |-> "getBuffer"]>>) /\ Awake(<<[op |-> "emptyBuffer"]>>) /\ Awake(<<[op |-> "readIntoBuffer"]>>)
<1>1. ASSUME NEW i, i.op \in {"command", "remove", "return", "mask", "clear", "free", "queue", "getBuffer", "emptyBuffer",
                              "readIntoBuffer"}
      PROVE  Awake(<<i>>)
  <2>1. i.op \notin Asleep /\ \A I : Within(i, I)
    BY <1>1 DEF Within, Asleep, Waiting, EventOps, Draining
  <2>2. QED
    BY Zenon, <2>1, AwakeSkip, AwakeInstruction
<1>2. QED
  BY <1>1 DEF Command, RemoveError, Return, MaskUnpopulated, ClearError

\* Waits for an answer look at the list before they sleep.
LEMMA AwakeAwaits ==
  ASSUME NEW c, NEW cmd, NEW arg, NEW other, NEW onFail, NEW onOther, Awake(onFail), Awake(onOther)
  PROVE  Awake(AwaitEither(c, cmd, arg, other, onFail, onOther)) /\ Awake(Await(c, cmd, arg, onFail))
<1>1. ASSUME NEW x, NEW t, Awake(t) PROVE Awake(AwaitEither(c, cmd, arg, x, onFail, t))
  <2> DEFINE i == [op |-> "await", c |-> c, cmd |-> cmd, arg |-> arg, other |-> x, onFail |-> onFail, onOther |-> t]
  <2>1. i.op = "await" /\ i.onFail = onFail /\ i.onOther = t
    OBVIOUS
  <2>2. AwaitEither(c, cmd, arg, x, onFail, t) = <<i>>
    BY DEF AwaitEither
  <2> HIDE DEF i
  <2>3. i.op \notin Asleep /\ \A I : onFail \in Seq(I) /\ t \in Seq(I) => Within(i, I)
    BY <2>1 DEF Within, Asleep, EventOps, Draining
  <2>4. QED
    BY Zenon, <1>1, <2>2, <2>3, AwakeInstruction
<1>2. QED
  BY Zenon, <1>1, AwakeSkip DEF Await

\* Waits for an event look at the flags before they sleep.
LEMMA AwakeEvents ==
  ASSUME NEW c, NEW event, NEW fs, NEW timed, NEW onFail, Awake(onFail)
  PROVE  Awake(AwaitEvent(c, event, fs, timed, onFail))
<1> DEFINE i == [op |-> "event", c |-> c, event |-> event, flags |-> fs, timed |-> timed, onFail |-> onFail]
<1>1. i.op = "event" /\ i.onFail = onFail
  OBVIOUS
<1>2. AwaitEvent(c, event, fs, timed, onFail) = <<i>>
  BY DEF AwaitEvent
<1> HIDE DEF i
<1>3. i.op \notin Asleep /\ \A I : onFail \in Seq(I) /\ onFail \in Seq(I) => Within(i, I)
  BY <1>1 DEF Within, Asleep, Waiting, Draining
<1>4. QED
  BY Zenon, <1>2, <1>3, AwakeInstruction

\* A choice between such scripts is one.
LEMMA AwakeIf ==
  ASSUME NEW condition, NEW yes, NEW no, Awake(yes), Awake(no)
  PROVE  Awake(If(condition, yes, no))
<1> DEFINE i == [op |-> "if", condition |-> condition, yes |-> yes, no |-> no]
<1>1. i.op = "if" /\ i.yes = yes /\ i.no = no
  OBVIOUS
<1>2. If(condition, yes, no) = <<i>>
  BY DEF If
<1> HIDE DEF i
<1>3. i.op \notin Asleep /\ \A I : yes \in Seq(I) /\ no \in Seq(I) => Within(i, I)
  BY <1>1 DEF Within, Asleep, Waiting, Draining, EventOps
<1>4. QED
  BY Zenon, <1>2, <1>3, AwakeInstruction

\* Calls of external code do not sleep.
LEMMA AwakeExternal ==
  ASSUME NEW what \in {"disconnect", "connect", "streams", "configure", "getHandle"}, NEW onFail, Awake(onFail)
  PROVE  Awake(External(what, onFail))
<1> DEFINE i == [op |-> what, onFail |-> onFail]
<1>1. i.op = what /\ i.onFail = onFail
  OBVIOUS
<1>2. External(what, onFail) = <<i>>
  BY DEF External
<1> HIDE DEF i
<1>3. i.op \notin Asleep /\ \A I : onFail \in Seq(I) /\ onFail \in Seq(I) => Within(i, I)
  BY <1>1 DEF Within, Asleep, Waiting, Draining, EventOps
<1>4. QED
  BY Zenon, <1>2, <1>3, AwakeInstruction

\* The loop that collects buffers looks at its list before it sleeps.
LEMMA AwakeDrain == Awake(<<[op |-> "drain", num |-> NumBuffers]>>)
<1> DEFINE i == [op |-> "drain", num |-> NumBuffers]
           t == Await("source", "PortDisable", "in", FailAssert)
<1>1. Awake(t)
  BY Zenon, AwakeCommands, AwakeAwaits, AwakeSkip DEF FailAssert
<1>2. i.op = "drain"
  OBVIOUS
<1> HIDE DEF i
<1>3. i.op \notin Asleep /\ \A I : t \in Seq(I) /\ t \in Seq(I) => Within(i, I)
  <2> HIDE DEF t
  <2>1. QED
    BY <1>2 DEF Within, Asleep, Waiting, Draining, EventOps, t
<1>4. Awake(<<i>>)
  <2> HIDE DEF t
  <2>1. QED
    BY Zenon, <1>1, <1>3, AwakeInstruction
<1>5. QED
  BY <1>4 DEF i

\* OMX_UseBuffer does not sleep.
LEMMA AwakeUses ==
  ASSUME NEW onFail, Awake(onFail) PROVE Awake(Uses(NumBuffers, onFail))
<1> DEFINE T == {n \in Nat : Awake(Uses(n, onFail))}
<1>1. 0 \in T
  <2>1. Uses(0, onFail) = <<>>
    BY DEF Uses
  <2>2. QED
    BY <2>1, AwakeSkip
<1>2. ASSUME NEW n \in Nat, n \in T PROVE n + 1 \in T
  <2> DEFINE i == UseOf(n + 1, onFail)
  <2>1. i.op = "use" /\ i.onFail = onFail
    BY DEF UseOf
  <2> HIDE DEF i
  <2>2. i.op \notin Asleep /\ \A I : onFail \in Seq(I) /\ onFail \in Seq(I) => Within(i, I)
    BY <2>1 DEF Within, Asleep, Waiting, Draining, EventOps
  <2>3. Awake(<<i>>)
    BY Zenon, <2>2, AwakeInstruction
  <2>4. Awake(Uses(n, onFail))
    BY <1>2
  <2>5. Awake(Uses(n + 1, onFail))
    <3>1. Uses(n + 1, onFail) = Uses(n, onFail) \o <<i>>
      BY OneMoreUse DEF i
    <3>2. QED
      BY Zenon, <2>3, <2>4, <3>1, AwakeSequence
  <2>6. QED
    BY <2>5
<1>3. NumBuffers \in T
  <2> HIDE DEF T
  <2>1. NumBuffers \in Nat
    OBVIOUS
  <2>2. QED
    BY <1>1, <1>2, <2>1, SetInduction
<1>4. QED
  BY <1>3

\* The calls on tunnels are such scripts.
LEMMA AwakeTunnels ==
  /\ Awake(DisableTunnel) /\ Awake(FlushTunnels) /\ Awake(TeardownTunnels)
  /\ \A onFail : Awake(onFail) => Awake(EnableTunnel(onFail))
  /\ \A timed \in BOOLEAN : Awake(SetupTunnel(timed))
<1>1. \A p : Awake(DisablePort(p))
  BY Zenon, AwakeCommands, AwakeAwaits, AwakeSkip, AwakeSequence DEF DisablePort, FailAssert
<1>2. \A c, s, onFail : Awake(onFail) => Awake(ChangeComponentState(c, s, onFail))
  BY Zenon, AwakeCommands, AwakeAwaits, AwakeSkip, AwakeSequence DEF ChangeComponentState
<1>3. Awake(DisableTunnel)
  BY Zenon, AwakeCommands, AwakeAwaits, AwakeSkip, AwakeSequence DEF DisableTunnel, FailAssert
<1>4. Awake(FlushTunnels)
  BY Zenon, AwakeCommands, AwakeEvents, AwakeSkip, AwakeSequence DEF FlushTunnels
<1>5. Awake(TeardownTunnels)
  BY AwakeExternal, AwakeSkip DEF TeardownTunnels
<1>6. ASSUME NEW onFail, Awake(onFail) PROVE Awake(EnableTunnel(onFail))
  <2> DEFINE sourceFailed == DisablePort("render") \o DisablePort("out") \o onFail
             toIdle == Await("sink", "PortEnable", "render", DisablePort("out") \o onFail)
                         \o Command("sink", "StateSet", "Idle")
                         \o AwaitEither("sink", "StateSet", "Idle", "source", DisablePort("out") \o onFail,
                                        Await("source", "PortEnable", "out", sourceFailed) \o sourceFailed)
             noSink == DisablePort("out")
                         \o AwaitEvent("source", Done("PortEnable", "out"), {"PORT_ENABLED", "ERROR"}, FALSE, onFail)
                         \o onFail
             branch == If("sink Loaded", toIdle, Await("sink", "PortEnable", "render", noSink))
  <2>1. Awake(sourceFailed)
    BY Zenon, <1>1, <1>6, AwakeSequence
  <2> HIDE DEF sourceFailed
  <2>2. Awake(DisablePort("out") \o onFail) /\ Awake(DisablePort("render") \o onFail)
    BY Zenon, <1>1, <1>6, AwakeSequence
  <2>3. Awake(Await("source", "PortEnable", "out", sourceFailed) \o sourceFailed)
    BY Zenon, <2>1, AwakeSkip, AwakeAwaits, AwakeSequence
  <2>4. Awake(toIdle)
    BY Zenon, <2>2, <2>3, AwakeSkip, AwakeCommands, AwakeAwaits, AwakeSequence
  <2>5. Awake(noSink)
    BY Zenon, <1>1, <1>6, AwakeEvents, AwakeSequence
  <2> HIDE DEF toIdle, noSink
  <2>6. Awake(branch)
    BY Zenon, <2>4, <2>5, AwakeSkip, AwakeAwaits, AwakeIf
  <2> HIDE DEF branch
  <2>7. Awake(Command("source", "PortEnable", "out") \o Command("sink", "PortEnable", "render") \o branch
                \o Await("source", "PortEnable", "out", DisablePort("render") \o onFail))
    BY Zenon, <2>2, <2>6, AwakeSkip, AwakeCommands, AwakeAwaits, AwakeSequence
  <2>8. QED
    BY Zenon, <2>7 DEF EnableTunnel, branch, toIdle, noSink, sourceFailed
<1>7. ASSUME NEW timed \in BOOLEAN PROVE Awake(SetupTunnel(timed))
  <2> DEFINE incompatible == TeardownTunnels \o Return(-5)
             notEnabled == TeardownTunnels \o RemoveError("sink", TRUE) \o RemoveError("source", TRUE) \o Return(-5)
             settings == AwaitEvent("source", <<"PortSettingsChanged", "out", "-">>,
                                    {"PARAMETER_CHANGED", "ERROR"}, TRUE, <<>>)
             first == If("source Loaded", ChangeComponentState("source", "Idle", Return(-2)), <<>>)
             second == IF timed THEN settings ELSE <<>>
  <2>1. Awake(incompatible) /\ Awake(notEnabled)
    BY Zenon, <1>5, AwakeCommands, AwakeSequence
  <2> HIDE DEF incompatible, notEnabled
  <2>2. Awake(first)
    BY Zenon, <1>2, AwakeSkip, AwakeCommands, AwakeIf
  <2>3. Awake(second)
    BY Zenon, AwakeSkip, AwakeEvents
  <2>4. Awake(External("streams", <<>>)) /\ Awake(External("connect", incompatible))
    <3>1. "streams" \in {"disconnect", "connect", "streams", "configure", "getHandle"}
          /\ "connect" \in {"disconnect", "connect", "streams", "configure", "getHandle"}
      OBVIOUS
    <3>2. QED
      BY Zenon, <2>1, <3>1, AwakeSkip, AwakeExternal
  <2>5. Awake(EnableTunnel(notEnabled))
    BY Zenon, <1>6, <2>1
  <2> HIDE DEF first, second
  <2>6. Awake(first \o second \o DisableTunnel \o External("streams", <<>>) \o External("connect", incompatible)
                \o EnableTunnel(notEnabled) \o Return(0))
    BY Zenon, <1>3, <2>2, <2>3, <2>4, <2>5, AwakeCommands, AwakeSequence
  <2>7. QED
    BY Zenon, <2>6 DEF SetupTunnel, incompatible, notEnabled, first, second
<1>8. QED
  BY Zenon, <1>3, <1>4, <1>5, <1>6, <1>7

\* The calls on states are such scripts.
LEMMA AwakeStates ==
  /\ \A c, s, onFail : Awake(onFail) => Awake(ChangeComponentState(c, s, onFail))
  /\ \A first, second, s : Awake(StateTransition(first, second, s))
  /\ Awake(CleanupComponents(<<"source">>)) /\ Awake(CleanupComponents(<<"source", "sink">>))
<1>1. \A c, s, onFail : Awake(onFail) => Awake(ChangeComponentState(c, s, onFail))
  BY Zenon, AwakeCommands, AwakeAwaits, AwakeSkip, AwakeSequence DEF ChangeComponentState
<1>2. \A first, second, s : Awake(StateTransition(first, second, s))
  BY Zenon, AwakeCommands, AwakeAwaits, AwakeSkip, AwakeSequence DEF StateTransition, FailAssert
<1>3. Awake(CleanupComponents(<<"source">>))
  <2>1. CleanupComponents(<<"source">>) = <<[op |-> "free", c |-> "source"]>>
    BY DEF CleanupComponents
  <2>2. QED
    BY Zenon, <2>1, AwakeCommands
<1>4. Awake(CleanupComponents(<<"source", "sink">>))
  <2>1. CleanupComponents(<<"source", "sink">>)
          = <<[op |-> "free", c |-> "source"]>> \o <<[op |-> "free", c |-> "sink"]>>
    BY DEF CleanupComponents
  <2>2. QED
    BY Zenon, <2>1, AwakeCommands, AwakeSequence
<1>5. QED
  BY Zenon, <1>1, <1>2, <1>3, <1>4

\* The calls on buffers are such scripts.
LEMMA AwakeBuffers ==
  /\ Awake(DisablePortBuffers)
  /\ \A onFail : Awake(onFail) => Awake(EnablePortBuffers(onFail))
  /\ Awake(EmptyBuffer \o EmptyBuffer \o EmptyBuffer) /\ Awake(Render)
<1>1. Awake(DisablePortBuffers)
  BY Zenon, AwakeCommands, AwakeDrain, AwakeSkip, AwakeSequence, AwakeIf DEF DisablePortBuffers
<1>2. ASSUME NEW onFail, Awake(onFail) PROVE Awake(EnablePortBuffers(onFail))
  <2> DEFINE queue == <<[op |-> "queue"]>>
             giveUp == DisablePortBuffers \o RemoveError("source", FALSE) \o onFail
             useBuffers == [b \in Buffers |-> [op |-> "use", b |-> b, onFail |-> queue \o giveUp]]
  <2>1. Awake(queue) /\ Awake(giveUp)
    BY Zenon, <1>1, <1>2, AwakeCommands, AwakeSequence
  <2> HIDE DEF queue, giveUp
  <2>2. Awake(queue \o giveUp)
    BY Zenon, <2>1, AwakeSequence
  <2>3. Awake(useBuffers)
    <3>1. useBuffers = Uses(NumBuffers, queue \o giveUp)
      BY Zenon DEF Uses, Buffers
    <3>2. QED
      BY Zenon, <2>2, <3>1, AwakeUses
  <2> HIDE DEF useBuffers
  <2>4. Awake(If("in may be enabled", <<>>, onFail) \o Command("source", "PortEnable", "in") \o useBuffers \o queue
                \o Await("source", "PortEnable", "in", giveUp))
    BY Zenon, <1>2, <2>1, <2>3, AwakeSkip, AwakeIf, AwakeCommands, AwakeAwaits, AwakeSequence
  <2>5. QED
    BY Zenon, <2>4 DEF EnablePortBuffers, useBuffers, queue, giveUp
<1>3. Awake(Render) /\ Awake(EmptyBuffer)
  <2>1. /\ Render = <<[op |-> "getBuffer"]>> \o <<[op |-> "readIntoBuffer"]>>
        /\ EmptyBuffer = <<[op |-> "getBuffer"]>> \o <<[op |-> "emptyBuffer"]>>
    BY DEF Render, EmptyBuffer
  <2>2. QED
    BY Zenon, <2>1, AwakeCommands, AwakeSequence
<1>4. QED
  BY Zenon, <1>1, <1>2, <1>3, AwakeSequence

\* Open() and Close() of the renderer are such scripts.
LEMMA AwakeRenderer ==
  Awake(Open) /\ \A next : Awake(next) => Awake(Close(next))
<1> DEFINE kinds == {"disconnect", "connect", "streams", "configure", "getHandle"}
<1>1. "configure" \in kinds /\ "getHandle" \in kinds
  OBVIOUS
<1>2. Awake(Open)
  <2> DEFINE no == Return(-1)
  <2>1. Awake(no) /\ Awake(Return(0))
    BY Zenon, AwakeCommands
  <2> HIDE DEF no
  <2>2. \A p : Awake(DisablePort(p))
    BY Zenon, AwakeCommands, AwakeAwaits, AwakeSkip, AwakeSequence DEF DisablePort, FailAssert
  <2>3. Awake(External("getHandle", no)) /\ Awake(External("configure", no))
    BY Zenon, <1>1, <2>1, AwakeExternal
  <2>4. Awake(CreateComponent(no))
    BY Zenon, <2>2, <2>3, AwakeSequence DEF CreateComponent
  <2>5. Awake(ChangeComponentState("source", "Idle", no)) /\ Awake(ChangeComponentState("source", "Executing", no))
        /\ Awake(EnablePortBuffers(no))
    BY Zenon, <2>1, AwakeStates, AwakeBuffers
  <2>6. Awake(CreateComponent(no) \o External("configure", no) \o ChangeComponentState("source", "Idle", no)
                \o EnablePortBuffers(no) \o ChangeComponentState("source", "Executing", no)
                \o External("configure", no) \o Return(0))
    BY Zenon, <2>1, <2>3, <2>4, <2>5, AwakeSequence
  <2>7. QED
    BY Zenon, <2>6 DEF Open, SetAudioRendererInputFormat, SetOutputDevice, no
<1>3. ASSUME NEW next, Awake(next) PROVE Awake(Close(next))
  <2> DEFINE cleanup == CleanupComponents(<<"source">>) \o next
             unload == DisablePortBuffers \o ChangeComponentState("source", "Loaded", cleanup) \o cleanup
  <2>1. Awake(cleanup)
    BY Zenon, <1>3, AwakeStates, AwakeSequence
  <2> HIDE DEF cleanup
  <2>2. Awake(unload)
    BY Zenon, <2>1, AwakeStates, AwakeBuffers, AwakeSequence
  <2> HIDE DEF unload
  <2>3. Awake(ChangeComponentState("source", "Idle", unload) \o unload)
    BY Zenon, <2>2, AwakeStates, AwakeSequence
  <2>4. QED
    BY Zenon, <2>3 DEF Close, unload, cleanup
<1>4. QED
  BY Zenon, <1>2, <1>3

\* Every call is such a script.
LEMMA AwakeCall ==
  ASSUME Call PROVE Awake(todo')
<1>1. ASSUME NEW f, NEW s, Calls(f, s), Awake(s) PROVE Awake(todo')
  BY Zenon, <1>1, AwakeCommands, AwakeSequence DEF Calls
<1>2. CASE CallTunnel
  <2>1. (~connected) \in BOOLEAN /\ Awake(Return(-1))
    BY AwakeCommands
  <2>2. QED
    BY Zenon, <1>1, <1>2, <2>1, AwakeTunnels, AwakeStates DEF CallTunnel
<1>3. CASE CallComponent
  BY Zenon, <1>1, <1>3, AwakeStates, AwakeBuffers, AwakeCommands, AwakeSkip, AwakeEvents DEF CallComponent
<1>4. CASE CallRenderer
  BY Zenon, <1>1, <1>4, AwakeRenderer, AwakeBuffers, AwakeCommands DEF CallRenderer, Reconfigure
<1>5. QED
  BY Zenon, <1>2, <1>3, <1>4 DEF Call

\* A script that is awake is so after its first instruction.
LEMMA AwakeHead ==
  ASSUME NEW s, Awake(s), s # <<>>
  PROVE  Head(s).op \notin Asleep /\ \E I : Closed(I) /\ Within(Head(s), I) /\ Tail(s) \in Seq(I)
<1>1. PICK I : Closed(I) /\ s \in Seq(I)
  BY Zenon DEF Awake
<1>2. Head(s) \in I /\ Tail(s) \in Seq(I)
  BY <1>1, HeadTailProperties
<1>3. QED
  BY Zenon, <1>1, <1>2 DEF Closed

\* What is left of a call: its first instruction may be asleep, the others are not.
AwakeInv == todo # <<>> => \E I : Closed(I) /\ Within(Now, I) /\ Rest \in Seq(I)

\* An instruction that has turned into another one keeps its fields.
LEMMA TurnedFields ==
  ASSUME NEW i, Typed(i), NEW j, Continues(i, <<j>>), i.op \notin {"if", "drain"}
  PROVE  /\ j.op # i.op \/ i.op = "freeBuffers"
         /\ i.op \in Waiting => /\ j.op \in Waiting /\ j.c = i.c /\ j.cmd = i.cmd /\ j.arg = i.arg /\ j.other = i.other
                                /\ j.onFail = i.onFail /\ j.onOther = i.onOther
         /\ i.op \in EventOps => /\ j.op \in EventOps /\ j.c = i.c /\ j.event = i.event /\ j.flags = i.flags
                                 /\ j.onFail = i.onFail
         /\ i.op \in Draining => j.op \in Draining
         /\ i.op \in Getting => j.op \in Getting
         /\ i.op \in Waiting \cup EventOps \cup Draining \cup Getting
<1>1. CASE i.op \in Waiting
  <2>1. AwaitShape(i)
    BY <1>1 DEF Typed, Waiting, EventOps, Draining, Getting, Plain
  <2>2. j \in {Turned(i, "sleep"), Turned(i, "await")} /\ j.op # i.op
    <3>1. \/ i.op = "await" /\ j = Turned(i, "sleep")
          \/ i.op = "sleep" /\ j = Turned(i, "await")
      BY <1>1 DEF Continues, Waiting
    <3>2. Turned(i, "sleep").op = "sleep" /\ Turned(i, "await").op = "await"
      BY <2>1 DEF AwaitShape, Turned
    <3>3. QED
      BY <3>1, <3>2
  <2>3. \A op \in {"sleep", "await"} :
          LET t == Turned(i, op)
          IN  t.op = op /\ t.c = i.c /\ t.cmd = i.cmd /\ t.arg = i.arg /\ t.other = i.other
              /\ t.onFail = i.onFail /\ t.onOther = i.onOther
    BY <2>1 DEF AwaitShape, Turned
  <2>4. QED
    BY <1>1, <2>2, <2>3 DEF Waiting, EventOps, Draining, Getting
<1>2. CASE i.op \in EventOps
  <2>1. EventShape(i)
    BY <1>2 DEF Typed, Waiting, EventOps, Draining, Getting, Plain
  <2>2. \E op \in EventOps : j = Turned(i, op) /\ op # i.op
    BY <1>2 DEF Continues, EventOps
  <2>3. \A op \in EventOps :
          LET t == Turned(i, op)
          IN  t.op = op /\ t.c = i.c /\ t.event = i.event /\ t.flags = i.flags /\ t.onFail = i.onFail
    BY <2>1 DEF EventShape, Turned
  <2>4. QED
    BY <1>2, <2>2, <2>3 DEF Waiting, EventOps, Draining, Getting
<1>3. CASE i.op \in Draining
  <2>1. DrainShape(i) /\ i.num \in Int
    BY <1>3 DEF Typed, Waiting, EventOps, Draining, Getting, Plain
  <2>2. \/ j = Counted(i) /\ i.op = "freeBuffers"
        \/ \E op \in Draining : j = Turned(i, op) /\ op # i.op
    BY <1>3 DEF Continues, Draining
  <2>3. Counted(i).op = i.op /\ \A op \in Draining : Turned(i, op).op = op
    BY <2>1 DEF DrainShape, Turned, Counted
  <2>4. QED
    BY <1>3, <2>2, <2>3 DEF Waiting, EventOps, Draining, Getting
<1>4. CASE i.op \in Getting
  <2>1. GetShape(i)
    BY <1>4 DEF Typed, Waiting, EventOps, Draining, Getting, Plain
  <2>2. \E op \in Getting : j = Turned(i, op) /\ op # i.op
    BY <1>4 DEF Continues, Getting
  <2>3. \A op \in Getting : Turned(i, op).op = op
    BY <2>1 DEF GetShape, Turned
  <2>4. QED
    BY <1>4, <2>2, <2>3 DEF Waiting, EventOps, Draining, Getting
<1>5. i.op \in Waiting \cup EventOps \cup Draining \cup Getting
  BY DEF Continues, Waiting, EventOps, Draining, Getting
<1>6. QED
  BY <1>1, <1>2, <1>3, <1>4, <1>5

\* A step of the call leads to a script that is awake, or lets one instruction sleep or wake.
Turning == \E j : /\ Continues(Now, <<j>>) /\ Now.op \notin {"if", "drain"} /\ todo' = <<j>> \o Rest
                  /\ \E I : Closed(I) /\ Within(j, I) /\ Rest \in Seq(I)
Dozing == /\ Now.op = "drain" /\ todo' = <<Turned(Now, "freeBuffers")>> \o Rest
          /\ \E I : Closed(I) /\ Within(Turned(Now, "freeBuffers"), I) /\ Rest \in Seq(I)

\* A step leads to such a script again, or to or from a wait.
LEMMA AwakeStep ==
  ASSUME AwakeInv, Shape, todo # <<>>, Run, ~RunReadIntoBufferAndEmpty
  PROVE  Awake(todo') \/ Turning \/ Dozing
<1>1. Typed(Now) /\ \E S : todo \in Seq(S)
  BY ShapeIsTyped
<1>2. Followed
  BY Zenon, <1>1, StepFollows
<1>3. PICK I : Closed(I) /\ Within(Now, I) /\ Rest \in Seq(I)
  BY DEF AwakeInv
<1>4. Awake(Rest)
  BY Zenon, <1>3 DEF Awake
<1>5. ASSUME NEW p, Continues(Now, p), todo' = p \o Rest PROVE Awake(todo') \/ Turning \/ Dozing
  <2>1. CASE p = <<>>
    BY Zenon, <1>4, <1>5, <2>1, AwakeSkip, AwakeSequence
  <2>2. CASE Now.op = "if"
    <3>1. p \in {Now.yes, Now.no}
      BY <1>5, <2>1, <2>2 DEF Continues
    <3>2. Now.yes \in Seq(I) /\ Now.no \in Seq(I)
      BY Zenon, <1>3, <2>2 DEF Within
    <3>3. p \in Seq(I)
      BY <3>1, <3>2
    <3>4. QED
      BY Zenon, <1>3, <1>4, <1>5, <3>3, AwakeSequence DEF Awake
  <2>3. CASE Now.op = "drain"
    <3>1. p \in {Await("source", "PortDisable", "in", FailAssert), <<Turned(Now, "freeBuffers")>>}
      BY Zenon, <1>5, <2>1, <2>3 DEF Continues
    <3>2. CASE p = Await("source", "PortDisable", "in", FailAssert)
      <4>1. Awake(p)
        BY Zenon, <3>2, AwakeCommands, AwakeAwaits, AwakeSkip DEF FailAssert
      <4>2. QED
        BY Zenon, <1>4, <1>5, <4>1, AwakeSequence
    <3>3. CASE p = <<Turned(Now, "freeBuffers")>>
      <4>1. Turned(Now, "freeBuffers").op = "freeBuffers"
        <5>1. DrainShape(Now)
          BY <1>1, <2>3 DEF Typed, Waiting, EventOps, Draining, Getting, Plain
        <5>2. QED
          BY <5>1 DEF DrainShape, Turned
      <4> DEFINE j == Turned(Now, "freeBuffers")
      <4> HIDE DEF j
      <4>2. Within(j, I)
        BY <1>3, <2>3, <4>1 DEF j, Within, Waiting, EventOps, Draining
      <4>3. QED
        BY Zenon, <1>3, <1>5, <2>3, <3>3, <4>2 DEF Dozing, j
    <3>4. QED
      BY <3>1, <3>2, <3>3
  <2>4. CASE p # <<>> /\ Now.op \notin {"if", "drain"}
    <3>1. PICK j : p = <<j>>
      BY Zenon, <1>5, <2>4 DEF Continues
    <3>2. Continues(Now, <<j>>)
      BY Zenon, <1>5, <3>1
    <3>3. Within(j, I)
      <4>1. /\ j.op \in Waiting <=> Now.op \in Waiting
            /\ j.op \in EventOps <=> Now.op \in EventOps
            /\ j.op \in Draining <=> Now.op \in Draining
            /\ j.op \notin {"connect", "configure", "getHandle", "use", "if"}
            /\ j.op \in Waiting => j.onFail = Now.onFail /\ j.onOther = Now.onOther
            /\ j.op \in EventOps => j.onFail = Now.onFail
        BY <1>1, <2>4, <3>2, TurnedFields DEF Waiting, EventOps, Draining, Getting
      <4>2. QED
        BY <1>3, <4>1 DEF Within
    <3>4. QED
      BY Zenon, <1>3, <1>5, <2>4, <3>1, <3>2, <3>3 DEF Turning
  <2>5. QED
    BY <2>1, <2>2, <2>3, <2>4
<1>6. ASSUME NEW p, Escapes(Now, p), todo' = p PROVE Awake(todo')
  <2>1. CASE \E v : p = Return(v)
    BY Zenon, <1>6, <2>1, AwakeCommands
  <2>2. CASE ~\E v : p = Return(v)
    <3>1. p \in Seq(I)
      <4>1. \/ Now.op \in Waiting /\ p \in {Now.onFail, Now.onOther}
            \/ Now.op \in EventOps \cup {"connect", "configure", "getHandle", "use"} /\ p = Now.onFail
            \/ Now.op = "if" /\ p = Now.no
        BY <1>6, <2>2 DEF Escapes, Waiting
      <4>2. QED
        BY <1>3, <4>1 DEF Within
    <3>2. QED
      BY Zenon, <1>3, <1>6, <3>1 DEF Awake
  <2>3. QED
    BY <2>1, <2>2
<1>7. CASE todo' = <<>>
  BY Zenon, <1>7, AwakeSkip
<1>8. QED
  BY Zenon, <1>2, <1>5, <1>6, <1>7 DEF Followed

\* What a sleeping call waits for is not there unless the flag that wakes it is up:
\* ilclient_wait_for_command_complete_dual() and ilclient_wait_for_event() search the
\* lists under the lock, and sleep on the flags without it; so do the loops that wait
\* for buffers.
Answers(l, i) == On(l, Done(i.cmd, i.arg)) \/ \E e : On(l, e) /\ EndsCommand(e)
WaitWakes(i) ==
  i.op = "sleep" =>
    /\ i.other # NoOne => related[i.other] = i.c
    /\ Answers(list[i.c], i) \/ (i.other # NoOne /\ \E e : On(list[i.other], e) /\ EndsCommand(e))
         => flags[i.c] \cap {"ERROR", FlagOfCommand(i.cmd)} # {}
EventWakes(i) == i.op \in {"eventErrors", "eventSleep"} /\ On(list[i.c], i.event) => flags[i.c] \cap i.flags # {}
BufferWakes(i) ==
  i.op \in {"getSleep", "freeBuffers", "drainSleep"} /\ inList # <<>>
    => returned \/ "EMPTY_BUFFER_DONE" \in flags["source"]
NoLostWakeUp == todo # <<>> => WaitWakes(Now) /\ EventWakes(Now) /\ BufferWakes(Now)

\* Who is not asleep is not woken.
LEMMA AwakeWakes ==
  ASSUME Awake(todo') PROVE AwakeInv' /\ NoLostWakeUp'
<1>1. SUFFICES ASSUME todo' # <<>> PROVE AwakeInv' /\ NoLostWakeUp'
  BY DEF AwakeInv, NoLostWakeUp
<1>2. Now' = Head(todo') /\ Rest' = Tail(todo')
  BY DEF Now, Rest
<1>3. Now'.op \notin Asleep /\ \E I : Closed(I) /\ Within(Now', I) /\ Rest' \in Seq(I)
  BY Zenon, <1>1, <1>2, AwakeHead
<1>4. Now'.op \notin {"sleep", "eventErrors", "eventSleep", "getSleep", "freeBuffers", "drainSleep"}
  BY <1>3 DEF Asleep
<1>5. QED
  BY <1>3, <1>4 DEF AwakeInv, NoLostWakeUp, WaitWakes, EventWakes, BufferWakes

\* What the components do: they put an event on a list and raise its flags.
LEMMA NotifyWakes ==
  ASSUME TypeOK, NoLostWakeUp, Shape, todo # <<>>, NEW c \in Components, NEW e \in Events, Notify(c, e),
         UNCHANGED <<related, inList, todo, returned>>
  PROVE  NoLostWakeUp'
<1>1. Typed(Now) /\ Now' = Now
  BY ShapeIsTyped DEF Now
<1>2. /\ \A d \in Components : flags[d] \subseteq flags'[d]
      /\ \A d \in Components : d # c => list'[d] = list[d]
      /\ \A x : On(list'[c], x) <=> On(list[c], x) \/ (x = e /\ ~(IsError(e) /\ e[2] \in mask[c]))
      /\ ~(IsError(e) /\ e[2] \in mask[c]) => FlagsOf(e) \subseteq flags'[c]
      /\ \A d \in Told(c, e) : "ERROR" \in flags'[d]
  BY Zenon, NotifyEffects
<1>3. \A d \in Components : \A x : On(list'[d], x) =>
        On(list[d], x) \/ (d = c /\ x = e /\ FlagsOf(e) \subseteq flags'[c])
  BY Zenon, <1>2
<1>4. \A x \in Events : EndsCommand(x) => FlagsOf(x) = {"ERROR"}
  <2>1. ASSUME NEW x \in Events, EndsCommand(x) PROVE FlagsOf(x) = {"ERROR"}
    <3>1. x \notin Unsolicited /\ x[1] = "Error"
      BY <2>1, UnsolicitedAssumption DEF EndsCommand, IsError
    <3>2. \E code \in {"SameState", "IncorrectStateTransition", "InsufficientResources"} : x = Error(code, "command")
      <4>1. \A cmd, arg : x # Done(cmd, arg)
        BY <3>1 DEF Done
      <4>2. QED
        BY <2>1, <3>1, <4>1 DEF Events
    <3>3. QED
      BY <3>2 DEF FlagsOf, Error, IsError
  <2>2. QED
    BY <2>1
<1>5. WaitWakes(Now)'
  <2>1. SUFFICES ASSUME Now.op = "sleep"
                 PROVE  /\ Now.other # NoOne => related'[Now.other] = Now.c
                        /\ Answers(list'[Now.c], Now)
                             \/ (Now.other # NoOne /\ \E x : On(list'[Now.other], x) /\ EndsCommand(x))
                             => flags'[Now.c] \cap {"ERROR", FlagOfCommand(Now.cmd)} # {}
    BY <1>1 DEF WaitWakes
  <2>2. Now.c \in Components /\ (Now.other # NoOne => Now.other \in Components)
        /\ Now.cmd \in {"StateSet", "PortEnable", "PortDisable"}
    BY <1>1, <2>1 DEF Typed, Waiting, EventOps, Draining, Getting, Plain, KnownCommand
  <2>3. WaitWakes(Now)
    BY DEF NoLostWakeUp
  <2>4. Now.other # NoOne => related[Now.other] = Now.c /\ related'[Now.other] = Now.c
    BY <2>1, <2>3 DEF WaitWakes
  <2>5. FlagsOf(Done(Now.cmd, Now.arg)) = {FlagOfCommand(Now.cmd)}
    BY <2>2 DEF FlagsOf, Done, IsError, FlagOfCommand
  <2>6. ASSUME On(list'[Now.c], Done(Now.cmd, Now.arg))
        PROVE  flags'[Now.c] \cap {"ERROR", FlagOfCommand(Now.cmd)} # {}
    <3>1. \/ On(list[Now.c], Done(Now.cmd, Now.arg))
          \/ Done(Now.cmd, Now.arg) = e /\ c = Now.c /\ FlagsOf(e) \subseteq flags'[c]
      BY <1>3, <2>2, <2>6
    <3>2. CASE On(list[Now.c], Done(Now.cmd, Now.arg))
      <4>1. flags[Now.c] \cap {"ERROR", FlagOfCommand(Now.cmd)} # {}
        BY <2>1, <2>3, <3>2 DEF WaitWakes, Answers
      <4>2. QED
        BY <1>2, <2>2, <4>1
    <3>3. CASE Done(Now.cmd, Now.arg) = e /\ c = Now.c /\ FlagsOf(e) \subseteq flags'[c]
      BY <2>5, <3>3
    <3>4. QED
      BY <3>1, <3>2, <3>3
  <2>7. ASSUME NEW x, On(list'[Now.c], x), EndsCommand(x)
        PROVE  flags'[Now.c] \cap {"ERROR", FlagOfCommand(Now.cmd)} # {}
    <3>1. On(list[Now.c], x) \/ (x = e /\ c = Now.c /\ FlagsOf(e) \subseteq flags'[c])
      BY <1>3, <2>2, <2>7
    <3>2. CASE On(list[Now.c], x)
      <4>1. Answers(list[Now.c], Now)
        BY Zenon, <2>7, <3>2 DEF Answers
      <4>2. flags[Now.c] \cap {"ERROR", FlagOfCommand(Now.cmd)} # {}
        BY Zenon, <2>1, <2>3, <4>1 DEF WaitWakes
      <4>3. QED
        BY <1>2, <2>2, <4>2
    <3>3. CASE x = e /\ c = Now.c /\ FlagsOf(e) \subseteq flags'[c]
      BY <1>4, <2>7, <3>3
    <3>4. QED
      BY <3>1, <3>2, <3>3
  <2>8. ASSUME Now.other # NoOne, NEW x, On(list'[Now.other], x), EndsCommand(x)
        PROVE  flags'[Now.c] \cap {"ERROR", FlagOfCommand(Now.cmd)} # {}
    <3>1. On(list[Now.other], x) \/ (x = e /\ c = Now.other)
      BY <1>3, <2>2, <2>8
    <3>2. CASE On(list[Now.other], x)
      <4>1. flags[Now.c] \cap {"ERROR", FlagOfCommand(Now.cmd)} # {}
        BY Zenon, <2>1, <2>3, <2>8, <3>2 DEF WaitWakes
      <4>2. QED
        BY <1>2, <2>2, <4>1
    <3>3. CASE x = e /\ c = Now.other
      <4>1. Now.c \in Told(c, e)
        BY <2>2, <2>4, <2>8, <3>3 DEF Told
      <4>2. QED
        BY <1>2, <4>1
    <3>4. QED
      BY <3>1, <3>2, <3>3
  <2>9. QED
    BY Zenon, <2>4, <2>6, <2>7, <2>8 DEF Answers
<1>6. EventWakes(Now)'
  <2>1. SUFFICES ASSUME Now.op \in {"eventErrors", "eventSleep"}, On(list'[Now.c], Now.event)
                 PROVE  flags'[Now.c] \cap Now.flags # {}
    BY <1>1 DEF EventWakes
  <2>2. Now.c \in Components /\ FlagsOf(Now.event) \cap Now.flags # {}
    BY <1>1, <2>1 DEF Typed, Waiting, EventOps, Draining, Getting, Plain
  <2>3. On(list[Now.c], Now.event) \/ (Now.event = e /\ c = Now.c /\ FlagsOf(e) \subseteq flags'[c])
    BY Zenon, <1>3, <2>1, <2>2
  <2>4. On(list[Now.c], Now.event) => flags[Now.c] \cap Now.flags # {}
    BY <2>1 DEF NoLostWakeUp, EventWakes
  <2>5. QED
    BY <1>2, <2>2, <2>3, <2>4
<1>7. BufferWakes(Now)'
  <2>1. "source" \in Components /\ BufferWakes(Now)
    BY DEF Components, NoLostWakeUp
  <2>2. QED
    BY <1>1, <1>2, <2>1 DEF BufferWakes
<1>8. QED
  BY <1>1, <1>5, <1>6, <1>7 DEF NoLostWakeUp

\* The first instruction of a script.
LEMMA Prefixed ==
  ASSUME NEW S, NEW t \in Seq(S), NEW j
  PROVE  <<j>> \o t # <<>> /\ Head(<<j>> \o t) = j /\ Tail(<<j>> \o t) = t
<1> DEFINE T == S \cup {j}
<1>1. t \in Seq(T)
  BY SeqMonotonic
<1>2. <<j>> \in Seq(T) /\ <<j>> # <<>> /\ Head(<<j>>) = j /\ Tail(<<j>>) = <<>>
  OBVIOUS
<1> HIDE DEF T
<1>3. <<>> \o t = t
  BY <1>1, ConcatEmptySeq
<1>4. QED
  BY <1>1, <1>2, <1>3, HeadTailOfConcat

\* A waiting instruction is the same one in another form.
LEMMA TurnedOp ==
  ASSUME NEW i, Typed(i), i.op \in Waiting \cup EventOps \cup Draining \cup Getting, NEW op
  PROVE  Turned(i, op).op = op
<1>1. CASE i.op \in Waiting
  <2>1. AwaitShape(i)
    BY <1>1 DEF Typed, Waiting, EventOps, Draining, Getting, Plain
  <2>2. QED
    BY <2>1 DEF AwaitShape, Turned
<1>2. CASE i.op \in EventOps
  <2>1. EventShape(i)
    BY <1>2 DEF Typed, Waiting, EventOps, Draining, Getting, Plain
  <2>2. QED
    BY <2>1 DEF EventShape, Turned
<1>3. CASE i.op \in Draining
  <2>1. DrainShape(i)
    BY <1>3 DEF Typed, Waiting, EventOps, Draining, Getting, Plain
  <2>2. QED
    BY <2>1 DEF DrainShape, Turned
<1>4. CASE i.op \in Getting
  <2>1. GetShape(i)
    BY <1>4 DEF Typed, Waiting, EventOps, Draining, Getting, Plain
  <2>2. QED
    BY <2>1 DEF GetShape, Turned
<1>5. QED
  BY <1>1, <1>2, <1>3, <1>4

\* What the client does: before it sleeps it has found nothing.
LEMMA RunWakes ==
  ASSUME TypeOK, Shape, AwakeInv, NoLostWakeUp, todo # <<>>, Run PROVE AwakeInv' /\ NoLostWakeUp'
<1>1. CASE Awake(todo')
  BY <1>1, AwakeWakes
<1>2. CASE ~Awake(todo') /\ ~RunReadIntoBufferAndEmpty
  <2>1. Typed(Now)
    BY ShapeIsTyped
  <2>2. PICK I : Closed(I) /\ Within(Now, I) /\ Rest \in Seq(I)
    BY DEF AwakeInv
  <2>3. todo' # Rest
    BY Zenon, <1>2, <2>2 DEF Awake
  <2>4. Now.op \in Waiting => todo' # Now.onFail /\ todo' # Now.onOther
    BY Zenon, <1>2, <2>2 DEF Awake, Within
  <2>5. Now.op \in EventOps => ~\E v : Fails(v)
    <3>1. Now.op \in EventOps => todo' # Now.onFail /\ \A v : todo' # Return(v)
      BY Zenon, <1>2, <2>2, AwakeCommands DEF Awake, Within
    <3>2. QED
      BY <3>1 DEF Fails
  <2>6. \E j, J : /\ todo' = <<j>> \o Rest /\ Closed(J) /\ Within(j, J) /\ Rest \in Seq(J)
                  /\ \/ Continues(Now, <<j>>) /\ Now.op \notin {"if", "drain"}
                     \/ Now.op = "drain" /\ j = Turned(Now, "freeBuffers")
    BY Zenon, <1>2, AwakeStep DEF Turning, Dozing
  <2>7. PICK j, J : /\ todo' = <<j>> \o Rest /\ Closed(J) /\ Within(j, J) /\ Rest \in Seq(J)
                    /\ \/ Continues(Now, <<j>>) /\ Now.op \notin {"if", "drain"}
                       \/ Now.op = "drain" /\ j = Turned(Now, "freeBuffers")
    BY Zenon, <2>6
  <2>8. Now' = j /\ Rest' = Rest /\ \A k : todo' = <<k>> \o Rest => k = j
    BY <2>2, <2>7, Prefixed DEF Now, Rest
  <2>9. AwakeInv'
    BY Zenon, <2>7, <2>8 DEF AwakeInv
  <2>10. \A op : todo' = <<Turned(Now, op)>> \o Rest => j = Turned(Now, op)
    BY <2>8
  <2>11. Now.op \in Waiting \cup EventOps \cup Draining \cup Getting
         /\ \A op : todo' = <<Turned(Now, op)>> \o Rest => j.op = op
    <3>1. Now.op \in Waiting \cup EventOps \cup Draining \cup Getting
      BY <2>1, <2>7, TurnedFields DEF Draining
    <3>2. QED
      BY <2>1, <2>10, <3>1, TurnedOp
  <2>12. ASSUME j.op = "sleep" PROVE WaitWakes(j)'
    <3>1. Now.op = "await" /\ j.c = Now.c /\ j.cmd = Now.cmd /\ j.arg = Now.arg /\ j.other = Now.other
      <4>1. Now.op # "drain"
        BY <2>1, <2>7, <2>12, TurnedOp DEF Draining
      <4>2. Continues(Now, <<j>>) /\ Now.op \notin {"if", "drain"}
        BY <2>7, <4>1
      <4>3. QED
        BY <2>1, <2>12, <4>2, TurnedFields DEF Waiting, EventOps, Draining, Getting
    <3>2. Now.c \in Components /\ Now.other \in Components \cup {NoOne} /\ Now.other # Now.c
      BY <2>1, <3>1 DEF Typed, Waiting, EventOps, Draining, Getting, Plain
    <3>3. RunAwait
      BY <3>1 DEF Run, At, RunCommand, Sleep, RunEvent, RunEventErrors, RunEventLast, EventSleep, RunRemove, RunIf, RunMask, RunReturn, RunExternal, RunGetHandle, RunFree, RunUse, RunQueue, RunDrain, RunFreeBuffers, DrainSleep, RunGetBuffer, GetSleep, RunEmptyBuffer, RunReadIntoBufferAndEmpty, Now
    <3> DEFINE k == AnswerAt(Now.c, Now.cmd, Now.arg)
    <3>4. /\ k = 0 /\ (Now.other # NoOne => FirstError(Now.other, FALSE) = 0)
          /\ related' = [d \in Components |-> IF d = Now.other THEN Now.c ELSE related[d]]
          /\ UNCHANGED <<list, flags>>
      BY <2>3, <2>4, <3>1, <3>3 DEF RunAwait, AnswerAt, Waiting
    <3>5. list[Now.c] \in Seq(Events) /\ (Now.other # NoOne => list[Now.other] \in Seq(Events))
      BY <3>2 DEF TypeOK
    <3>6. ~Answers(list[Now.c], Now)
      <4>1. ~\E x \in DOMAIN list[Now.c] : list[Now.c][x] = Done(Now.cmd, Now.arg) \/ EndsCommand(list[Now.c][x])
        <5>1. 0 \notin DOMAIN list[Now.c]
          BY <3>5, LenProperties
        <5>2. QED
          BY <3>2, <3>4, <3>5, <5>1, AnswerFinds
      <4>2. QED
        BY <4>1 DEF Answers, On
    <3>7. Now.other # NoOne => ~\E e : On(list[Now.other], e) /\ EndsCommand(e)
      <4>1. SUFFICES ASSUME Now.other # NoOne
                     PROVE  ~\E x \in DOMAIN list[Now.other] : EndsCommand(list[Now.other][x])
        BY DEF On
      <4>2. Now.other \in Components /\ list[Now.other] \in Seq(Events) /\ FirstError(Now.other, FALSE) = 0
        BY <3>2, <3>4, <3>5, <4>1
      <4>3. 0 \notin DOMAIN list[Now.other]
        BY <4>2, LenProperties
      <4>4. \A e : EndsCommand(e) => IsError(e)
        BY DEF EndsCommand
      <4>5. QED
        BY <4>2, <4>3, <4>4, FirstErrorFinds
    <3>8. Answers(list'[j.c], j) <=> Answers(list[Now.c], Now)
      BY <3>1, <3>4 DEF Answers
    <3>9. j.other # NoOne => related'[j.other] = j.c
      BY <3>1, <3>2, <3>4
    <3>10. QED
      BY <3>1, <3>4, <3>6, <3>7, <3>8, <3>9 DEF WaitWakes
  <2>13. ASSUME j.op \in {"eventErrors", "eventSleep"} PROVE EventWakes(j)'
    <3>1. Now.op \in EventOps /\ Now.op # j.op /\ j.c = Now.c /\ j.event = Now.event /\ j.flags = Now.flags
      <4>1. Now.op # "drain"
        BY <2>1, <2>7, <2>13, TurnedOp DEF Draining
      <4>2. Continues(Now, <<j>>) /\ Now.op \notin {"if", "drain"}
        BY <2>7, <4>1
      <4>3. QED
        BY <2>1, <2>13, <4>2, TurnedFields DEF Waiting, EventOps, Draining, Getting
    <3>2. Now.c \in Components /\ list[Now.c] \in Seq(Events)
      <4>1. Now.c \in Components
        BY <2>1, <3>1 DEF Typed, Waiting, EventOps, Draining, Getting, Plain
      <4>2. QED
        BY <4>1 DEF TypeOK
    <3>3. RunEvent \/ RunEventErrors \/ RunEventLast \/ EventSleep
      BY <3>1 DEF EventOps, Run, At, RunCommand, RunAwait, Sleep, RunRemove, RunIf, RunMask, RunReturn, RunExternal, RunGetHandle, RunFree, RunUse, RunQueue, RunDrain, RunFreeBuffers, DrainSleep, RunGetBuffer, GetSleep, RunEmptyBuffer, RunReadIntoBufferAndEmpty, Now
    <3>4. CASE RunEvent
      <4>1. Where(Now.c, Now.event) = 0 /\ UNCHANGED list
        BY <2>3, <3>4 DEF RunEvent
      <4>2. ~On(list[Now.c], Now.event)
        <5>1. 0 \notin DOMAIN list[Now.c]
          BY <3>2, LenProperties
        <5>2. QED
          BY <3>2, <4>1, <5>1, WhereFinds DEF On
      <4>3. QED
        BY <3>1, <4>1, <4>2 DEF EventWakes
    <3>5. CASE RunEventErrors
      <4>1. Now.op = "eventErrors" /\ j.op = "eventSleep"
        BY <2>13, <3>1, <3>5 DEF RunEventErrors, At, Now
      <4>2. ~Turns("eventLast")
        BY <2>11, <4>1 DEF Turns, Turned
      <4>3. UNCHANGED <<list, flags>>
        BY <2>5, <3>1, <3>5, <4>2 DEF RunEventErrors
      <4>4. EventWakes(Now)
        BY DEF NoLostWakeUp
      <4>5. QED
        BY <3>1, <4>1, <4>3, <4>4 DEF EventWakes
    <3>6. CASE RunEventLast
      BY <2>3, <2>5, <3>1, <3>6 DEF RunEventLast
    <3>7. CASE EventSleep
      <4>1. ~Turns("eventLast") /\ ~Turns("event")
        BY <2>11, <2>13 DEF Turns, Turned
      <4>2. QED
        BY <2>5, <3>1, <3>7, <4>1 DEF EventSleep
    <3>8. QED
      BY <3>3, <3>4, <3>5, <3>6, <3>7
  <2>14. ASSUME j.op \in {"getSleep", "freeBuffers", "drainSleep"} PROVE BufferWakes(j)'
    <3>1. Now.op \in Draining \cup Getting
      BY <2>1, <2>7, <2>14, TurnedFields DEF Waiting, EventOps, Draining, Getting
    <3>2. RunDrain \/ RunFreeBuffers \/ DrainSleep \/ RunGetBuffer \/ GetSleep
      BY <3>1 DEF Draining, Getting, Run, At, RunCommand, RunAwait, Sleep, RunEvent, RunEventErrors, RunEventLast, EventSleep, RunRemove, RunIf, RunMask, RunReturn, RunExternal, RunGetHandle, RunFree, RunUse, RunQueue, RunEmptyBuffer, RunReadIntoBufferAndEmpty, Now
    <3>3. CASE RunDrain
      <4>1. CASE Now.num <= 0
        <5>1. Awake(todo')
          <6>1. todo' = Await("source", "PortDisable", "in", FailAssert) \o Rest
            BY <3>3, <4>1 DEF RunDrain
          <6>2. Awake(Rest)
            BY Zenon, <2>2 DEF Awake
          <6>3. QED
            BY Zenon, <6>1, <6>2, AwakeCommands, AwakeAwaits, AwakeSkip, AwakeSequence DEF FailAssert
        <5>2. QED
          BY <1>2, <5>1
      <4>2. CASE ~(Now.num <= 0)
        <5>1. inList' = <<>>
          BY <3>3, <4>2 DEF RunDrain
        <5>2. QED
          BY <5>1 DEF BufferWakes
      <4>3. QED
        BY <4>1, <4>2
    <3>4. CASE RunFreeBuffers
      <4>1. Now.op = "freeBuffers" /\ UNCHANGED <<inList, flags, returned>>
        BY <3>4 DEF RunFreeBuffers, At, Now, library
      <4>2. BufferWakes(Now)
        BY DEF NoLostWakeUp
      <4>3. QED
        BY <4>1, <4>2 DEF BufferWakes
    <3>5. CASE DrainSleep
      <4>1. ~Turns("drain")
        BY <2>11, <2>14 DEF Turns, Turned
      <4>2. QED
        BY <2>3, <3>5, <4>1 DEF DrainSleep
    <3>6. CASE RunGetBuffer
      <4>1. inList = <<>> /\ inList' = inList
        BY <2>3, <3>6 DEF RunGetBuffer
      <4>2. QED
        BY <4>1 DEF BufferWakes
    <3>7. CASE GetSleep
      <4>1. ~Turns("getBuffer")
        BY <2>11, <2>14 DEF Turns, Turned
      <4>2. QED
        BY <3>7, <4>1 DEF GetSleep
    <3>8. QED
      BY <3>2, <3>3, <3>4, <3>5, <3>6, <3>7
  <2>15. WaitWakes(j)' /\ EventWakes(j)' /\ BufferWakes(j)'
    <3>1. j.op # "sleep" => WaitWakes(j)'
      BY DEF WaitWakes
    <3>2. j.op \notin {"eventErrors", "eventSleep"} => EventWakes(j)'
      BY DEF EventWakes
    <3>3. j.op \notin {"getSleep", "freeBuffers", "drainSleep"} => BufferWakes(j)'
      BY DEF BufferWakes
    <3>4. QED
      BY <2>12, <2>13, <2>14, <3>1, <3>2, <3>3
  <2>16. QED
    BY <2>8, <2>9, <2>15 DEF NoLostWakeUp, WaitWakes, EventWakes, BufferWakes
<1>3. CASE RunReadIntoBufferAndEmpty
  <2>1. UNCHANGED todo /\ Now.op = "readIntoBuffer"
    BY <1>3 DEF RunReadIntoBufferAndEmpty, At, Now, caller
  <2>2. QED
    BY <2>1 DEF AwakeInv, NoLostWakeUp, WaitWakes, EventWakes, BufferWakes, Now, Rest
<1>4. QED
  BY <1>1, <1>2, <1>3

\* Every step keeps NoLostWakeUp: what a waiting call waits for raises a flag it sleeps on,
\* and is on its list, or among the free buffers, when it looks again.
LEMMA NextWakes ==
  ASSUME TypeOK, Shape, AwakeInv, NoLostWakeUp, [Next]_vars PROVE AwakeInv' /\ NoLostWakeUp'
<1>1. CASE Run
  <2>1. todo # <<>>
    BY <1>1 DEF Run, At, RunCommand, RunAwait, Sleep, RunEvent, RunEventErrors, RunEventLast, EventSleep, RunRemove, RunIf, RunMask, RunReturn, RunExternal, RunGetHandle, RunFree, RunUse, RunQueue, RunDrain, RunFreeBuffers, DrainSleep, RunGetBuffer, GetSleep, RunEmptyBuffer, RunReadIntoBufferAndEmpty
  <2>2. QED
    BY <1>1, <2>1, RunWakes
<1>2. CASE Call
  BY <1>2, AwakeCall, AwakeWakes
<1>3. ASSUME UNCHANGED todo PROVE AwakeInv'
  BY <1>3 DEF AwakeInv, Now, Rest
<1>4. ASSUME NEW c \in Components, Complete(c) \/ Surprise(c) PROVE AwakeInv' /\ NoLostWakeUp'
  <2>1. \E e \in Events : Notify(c, e)
    <3>1. CASE Complete(c)
      <4> DEFINE k == Head(omx[c].queue)
      <4>1. omx[c].queue \in Seq(CommandsOf(c)) /\ omx[c].queue # <<>>
        BY <3>1 DEF TypeOK, Complete
      <4>2. k \in Commands \X Arguments \X BOOLEAN
        BY <4>1, HeadTailProperties DEF CommandsOf
      <4>3. \E e : Notify(c, e) /\ (e = Answer(c, k) \/ e = Error("InsufficientResources", "command"))
        BY <3>1 DEF Complete
      <4> HIDE DEF k
      <4>4. QED
        BY Zenon, <4>2, <4>3, EventsAreKnown
    <3>2. CASE Surprise(c)
      BY <3>2 DEF Surprise, Events
    <3>3. QED
      BY <1>4, <3>1, <3>2
  <2>2. UNCHANGED <<related, inList, todo, returned>>
    BY <1>4 DEF Complete, Surprise, caller, core
  <2>3. todo # <<>> => NoLostWakeUp'
    BY Zenon, <2>1, <2>2, NotifyWakes
  <2>4. todo = <<>> => NoLostWakeUp'
    BY <2>2 DEF NoLostWakeUp
  <2>5. QED
    BY <1>3, <2>2, <2>3, <2>4
<1>5. CASE BufferDone
  <2>1. returned' /\ UNCHANGED <<list, flags, related, todo>>
    BY <1>5 DEF BufferDone, caller
  <2>2. QED
    BY <1>3, <2>1 DEF NoLostWakeUp, WaitWakes, EventWakes, BufferWakes, Now
<1>6. CASE BufferFlag
  <2>1. /\ UNCHANGED <<list, related, todo, inList>> /\ \A c \in Components : flags[c] \subseteq flags'[c]
        /\ "EMPTY_BUFFER_DONE" \in flags'["source"]
    BY <1>6 DEF BufferFlag, caller, TypeOK, Components
  <2>2. todo # <<>> => WaitWakes(Now)'
    <3>1. ASSUME todo # <<>>, Now.op = "sleep" PROVE WaitWakes(Now)'
      <4>1. Now.c \in Components /\ WaitWakes(Now)
        BY <3>1, ShapeIsTyped DEF Typed, Waiting, EventOps, Draining, Getting, Plain, NoLostWakeUp
      <4>2. QED
        BY <2>1, <4>1 DEF WaitWakes, Now
    <3>2. QED
      BY <2>1, <3>1 DEF WaitWakes, Now
  <2>3. todo # <<>> => EventWakes(Now)'
    <3>1. ASSUME todo # <<>>, Now.op \in {"eventErrors", "eventSleep"} PROVE EventWakes(Now)'
      <4>1. Now.c \in Components /\ EventWakes(Now)
        BY <3>1, ShapeIsTyped DEF Typed, Waiting, EventOps, Draining, Getting, Plain, NoLostWakeUp
      <4>2. QED
        BY <2>1, <4>1 DEF EventWakes, Now
    <3>2. QED
      BY <2>1, <3>1 DEF EventWakes, Now
  <2>4. BufferWakes(Now)'
    BY <2>1 DEF BufferWakes
  <2>5. QED
    BY <1>3, <2>1, <2>2, <2>3, <2>4 DEF NoLostWakeUp
<1>7. CASE UNCHANGED vars
  <2>1. UNCHANGED <<list, flags, related, inList, todo, returned>>
    BY <1>7 DEF vars, library, caller, core
  <2>2. QED
    BY <1>3, <2>1 DEF NoLostWakeUp, WaitWakes, EventWakes, BufferWakes, Now
<1>8. QED
  BY Zenon, <1>1, <1>2, <1>4, <1>5, <1>6, <1>7 DEF Next

\* No wake-up is lost: whatever the components report between a search and the sleep that
\* follows it, a call that sleeps while what it waits for is there has its flag up, so that
\* the wait ends.  This is the safety half of CallsReturn.
THEOREM WakeUpsAreNotLost == Spec => []NoLostWakeUp
<1>1. Init => AwakeInv /\ NoLostWakeUp
  <2>1. ASSUME Init PROVE Awake(todo)
    BY <2>1, AwakeSkip, AwakeRenderer DEF Init
  <2>2. ASSUME Awake(todo), todo # <<>> PROVE AwakeInv /\ NoLostWakeUp
    <3>1. Now.op \notin Asleep /\ \E I : Closed(I) /\ Within(Now, I) /\ Rest \in Seq(I)
      BY Zenon, <2>2, AwakeHead DEF Now, Rest
    <3>2. Now.op \notin {"sleep", "eventErrors", "eventSleep", "getSleep", "freeBuffers", "drainSleep"}
      BY <3>1 DEF Asleep
    <3>3. QED
      BY <3>1, <3>2 DEF AwakeInv, NoLostWakeUp, WaitWakes, EventWakes, BufferWakes
  <2>3. QED
    BY <2>1, <2>2 DEF AwakeInv, NoLostWakeUp
<1>2. TypeOK /\ Shape /\ AwakeInv /\ NoLostWakeUp /\ [Next]_vars => AwakeInv' /\ NoLostWakeUp'
  BY NextWakes
<1>3. QED
  BY <1>1, <1>2, Types, PTL DEF Spec
=============================================================================
