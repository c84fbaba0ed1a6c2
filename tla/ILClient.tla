------------------------------ MODULE ILClient ------------------------------
(***************************************************************************)
(* The OpenMAX client library (renderer/omx/ilclient.c) and the audio      *)
(* renderer on top of it (omx_audio_renderer.cc).  A client thread calls   *)
(* the library; each call sends commands to OpenMAX components, which      *)
(* answer later, from threads of their own, through the library's event    *)
(* handler: it puts an event on the component's list and raises a flag,    *)
(* and the call that waits searches the list, or sleeps on the flags.      *)
(*                                                                         *)
(* Two components are modelled: "source" has a port "in" whose buffers the *)
(* client supplies and a port "out" which a tunnel connects to the port    *)
(* "render" of "sink".  What the components do (omx, enabled, connected,   *)
(* allocated, held) is not part of the repository; it is modelled from     *)
(* what the library expects of them.                                       *)
(*                                                                         *)
(* A call in progress is the sequence "todo" of instructions it still has  *)
(* to execute, one per step of the program that another thread can see.    *)
(* An instruction that can fail holds what the call does in that case.     *)
(***************************************************************************)
EXTENDS Integers, FiniteSets, SequencesExt

CONSTANTS NumEvents,    \* event records of a client (NUM_EVENTS)
          NumBuffers,   \* nBufferCountActual of the port "in"
          Unsolicited,  \* events a component sends without being asked
          MaxCalls, MaxFaults, MaxTroubles  \* bounds of the model

ASSUME ClientAssumption == {NumEvents, NumBuffers, MaxCalls, MaxFaults, MaxTroubles} \subseteq Nat

\* What comes unasked is no answer, and none of the errors that end a command.
ASSUME UnsolicitedAssumption ==
  /\ IsFiniteSet(Unsolicited)
  /\ \A e \in Unsolicited :
       /\ e[1] \in {"Error", "BufferFlag", "PortSettingsChanged", "ParamOrConfigChanged"}
       /\ e[3] # "command"

Components == {"source", "sink"}
Ports == {"in", "out", "render"}
Owner(p) == IF p = "render" THEN "sink" ELSE "source"
PortsOf(c) == {p \in Ports : Owner(p) = c}
Buffers == 1..NumBuffers
NoOne == "none"
Aborted == -100

VARIABLES list, flags, related, mask,  \* of COMPONENT_T: newest event first, ...
          inList,      \* in_list of source
          hand,        \* the buffers the client thread is busy with
          todo, call, value, failed,   \* the call in progress, or the last one
          omx,         \* state and command queue of each component
          enabled, connected,  \* bEnabled of each port; the tunnel is set up
          allocated, held,     \* the buffers "in" knows and those it was given
          returned,    \* a buffer is back on inList, its flag not yet raised
          asserted,    \* a vc_assert() has failed: the program is dead
          left         \* what remains of the model's bounds

library == <<list, flags, related, mask, inList>>
caller == <<hand, todo, call, value, failed>>
core == <<omx, enabled, connected, allocated, held, returned>>
vars == <<library, caller, core, asserted, left>>

-----------------------------------------------------------------------------
(* Events: <<type, nData1, nData2>>; nData2 of an error says whether it     *)
(* ends a command.                                                         *)
Done(cmd, arg) == <<"CmdComplete", cmd, arg>>
Error(code, origin) == <<"Error", code, origin>>
IsError(e) == e[1] = "Error"
EndsCommand(e) == IsError(e) /\ e[3] = "command"

FlagOfCommand(cmd) == CASE cmd = "StateSet" -> "STATE_CHANGED"
                        [] cmd = "PortEnable" -> "PORT_ENABLED"
                        [] cmd = "PortDisable" -> "PORT_DISABLED"
                        [] cmd = "Flush" -> "PORT_FLUSH"

FlagsOf(e) == CASE e[1] = "CmdComplete" -> {FlagOfCommand(e[2])}
                [] IsError(e) -> IF e[2] = "DiskFull" THEN {} ELSE {"ERROR"}
                [] e[1] = "BufferFlag" -> {"EOS"}
                [] e[1] = "PortSettingsChanged" -> {"PARAMETER_CHANGED"}
                [] e[1] = "ParamOrConfigChanged" -> {"CONFIG_CHANGED"}

\* mutant: every report is kept
DedupedNothing(events) == events

\* ilclient_event_handler(): a later copy of an event on the list is dropped.
Deduped(events) == FoldLeft(LAMBDA kept, e : IF Contains(kept, e) THEN kept ELSE Append(kept, e),
                            <<>>, events)

Spare(lists) == NumEvents - (Len(lists["source"]) + Len(lists["sink"]))

\* mutant: a failure wakes the component itself alone
ToldNobody(c, e) == {}

\* the component whose waiting caller must hear that a command of c has failed
Told(c, e) == {d \in Components : EndsCommand(e) /\ related[c] = d}

(* ilclient_event_handler(): component c reports event e.                   *)
Notify(c, e) ==
  LET kept == [list EXCEPT ![c] = Deduped(@)]
      masked == IsError(e) /\ e[2] \in mask[c]
      raised(d) == (IF d = c /\ ~masked THEN FlagsOf(e) ELSE {})
                     \cup (IF d \in Told(c, e) THEN {"ERROR"} ELSE {})
  IN /\ asserted' = (asserted \/ Spare(kept) <= 0)
     /\ list' = IF masked THEN kept ELSE [kept EXCEPT ![c] = <<e>> \o @]
     /\ flags' = [d \in Components |-> flags[d] \cup raised(d)]

-----------------------------------------------------------------------------
(* Scripts: what each function of the library makes the client thread do.  *)
Command(c, cmd, arg) == <<[op |-> "command", c |-> c, cmd |-> cmd, arg |-> arg]>>
AwaitEither(c, cmd, arg, other, onFail, onOther) ==
  <<[op |-> "await", c |-> c, cmd |-> cmd, arg |-> arg, other |-> other,
     onFail |-> onFail, onOther |-> onOther]>>
Await(c, cmd, arg, onFail) == AwaitEither(c, cmd, arg, NoOne, onFail, <<>>)
AwaitEvent(c, event, fs, timed, onFail) ==
  <<[op |-> "event", c |-> c, event |-> event, flags |-> fs, timed |-> timed, onFail |-> onFail]>>
RemoveError(c, all) == <<[op |-> "remove", c |-> c, all |-> all]>>
Return(v) == <<[op |-> "return", value |-> v]>>
If(condition, yes, no) == <<[op |-> "if", condition |-> condition, yes |-> yes, no |-> no]>>
External(what, onFail) == <<[op |-> what, onFail |-> onFail]>>
MaskUnpopulated(on) == <<[op |-> "mask", on |-> on]>>
ClearError(c) == <<[op |-> "clear", c |-> c]>>
FailAssert == Return(Aborted)

ChangeComponentState(c, s, onFail) ==
  Command(c, "StateSet", s) \o Await(c, "StateSet", s, RemoveError(c, TRUE) \o onFail)

DisablePort(p) == Command(Owner(p), "PortDisable", p) \o Await(Owner(p), "PortDisable", p, FailAssert)

\* mutant: the sink is not waited for
DisableTunnelWaitsForOne ==
  MaskUnpopulated(TRUE)
    \o Command("source", "PortDisable", "out") \o Command("sink", "PortDisable", "render")
    \o Await("source", "PortDisable", "out", FailAssert)
    \o MaskUnpopulated(FALSE)

DisableTunnel ==
  MaskUnpopulated(TRUE)
    \o Command("source", "PortDisable", "out") \o Command("sink", "PortDisable", "render")
    \o Await("source", "PortDisable", "out", FailAssert) \o Await("sink", "PortDisable", "render", FailAssert)
    \o MaskUnpopulated(FALSE)

EnableTunnel(onFail) ==
  LET sourceFailed == DisablePort("render") \o DisablePort("out") \o onFail
      toIdle == Await("sink", "PortEnable", "render", DisablePort("out") \o onFail)
                  \o Command("sink", "StateSet", "Idle")
                  \o AwaitEither("sink", "StateSet", "Idle", "source", DisablePort("out") \o onFail,
                                 Await("source", "PortEnable", "out", sourceFailed) \o sourceFailed)
      noSink == DisablePort("out")
                  \o AwaitEvent("source", Done("PortEnable", "out"), {"PORT_ENABLED", "ERROR"}, FALSE, onFail)
                  \o onFail
  IN Command("source", "PortEnable", "out") \o Command("sink", "PortEnable", "render")
       \o If("sink Loaded", toIdle, Await("sink", "PortEnable", "render", noSink))
       \o Await("source", "PortEnable", "out", DisablePort("render") \o onFail)

TeardownTunnels == External("disconnect", <<>>)

SetupTunnel(timed) ==
  LET incompatible == TeardownTunnels \o Return(-5)
      notEnabled == TeardownTunnels \o RemoveError("sink", TRUE) \o RemoveError("source", TRUE) \o Return(-5)
      settings == AwaitEvent("source", <<"PortSettingsChanged", "out", "-">>,
                             {"PARAMETER_CHANGED", "ERROR"}, TRUE, <<>>)
  IN If("source Loaded", ChangeComponentState("source", "Idle", Return(-2)), <<>>)
       \o (IF timed THEN settings ELSE <<>>)
       \o DisableTunnel
       \o External("streams", <<>>)
       \o External("connect", incompatible)
       \o EnableTunnel(notEnabled) \o Return(0)

FlushTunnels ==
  Command("source", "Flush", "out") \o Command("sink", "Flush", "render")
    \o AwaitEvent("source", Done("Flush", "out"), {"PORT_FLUSH"}, FALSE, <<>>)
    \o AwaitEvent("sink", Done("Flush", "render"), {"PORT_FLUSH"}, FALSE, <<>>)

\* mutant: the sink is not waited for
StateTransitionOfSource(first, second, s) ==
  MaskUnpopulated(s = "Loaded")
    \o ClearError(first) \o Command(first, "StateSet", s)
    \o ClearError(second) \o Command(second, "StateSet", s)
    \o Await("source", "StateSet", s, FailAssert) \o MaskUnpopulated(FALSE)

\* ilclient_state_transition(): the order is random.
StateTransition(first, second, s) ==
  MaskUnpopulated(s = "Loaded")
    \o ClearError(first) \o Command(first, "StateSet", s)
    \o ClearError(second) \o Command(second, "StateSet", s)
    \o Await("source", "StateSet", s, FailAssert) \o Await("sink", "StateSet", s, FailAssert)
    \o MaskUnpopulated(FALSE)

CreateComponent(onFail) == External("getHandle", onFail) \o DisablePort("in") \o DisablePort("out")

CleanupComponents(cs) == [k \in DOMAIN cs |-> [op |-> "free", c |-> cs[k]]]

\* "return" in the middle of this function ends "drain", not the call.
DisablePortBuffers ==
  If("in enabled", Command("source", "PortDisable", "in") \o <<[op |-> "drain", num |-> NumBuffers]>>, <<>>)

EnablePortBuffers(onFail) ==
  LET queue == <<[op |-> "queue"]>>
      giveUp == DisablePortBuffers \o RemoveError("source", FALSE) \o onFail
      useBuffers == [b \in Buffers |-> [op |-> "use", b |-> b, onFail |-> queue \o giveUp]]
  IN If("in may be enabled", <<>>, onFail)
       \o Command("source", "PortEnable", "in") \o useBuffers \o queue
       \o Await("source", "PortEnable", "in", giveUp)

\* ilclient_get_input_buffer() with block set, then ReadIntoBufferAndEmpty().
Render == <<[op |-> "getBuffer"], [op |-> "readIntoBuffer"]>>

\* The client ilclient.h has in mind: it hands over every buffer it gets, once.
EmptyBuffer == <<[op |-> "getBuffer"], [op |-> "emptyBuffer"]>>

(* OMXAudioRenderer: the parameters it sets are no part of the model's      *)
(* state; setting them may fail.                                           *)
SetAudioRendererInputFormat(onFail) == External("configure", onFail)
SetOutputDevice(onFail) == External("configure", onFail)

Open ==
  LET no == Return(-1)
  IN CreateComponent(no) \o SetAudioRendererInputFormat(no)
       \o ChangeComponentState("source", "Idle", no)
       \o EnablePortBuffers(no)
       \o ChangeComponentState("source", "Executing", no)
       \o SetOutputDevice(no) \o Return(0)

Close(next) ==
  LET cleanup == CleanupComponents(<<"source">>) \o next
      unload == DisablePortBuffers \o ChangeComponentState("source", "Loaded", cleanup) \o cleanup
  IN ChangeComponentState("source", "Idle", unload) \o unload

Reconfigure == Close(Open)

-----------------------------------------------------------------------------
(* The client thread executes an instruction.                              *)
At(op) == todo # <<>> /\ Head(todo).op = op /\ ~asserted
Now == Head(todo)
Rest == Tail(todo)
Turns(op) == todo' = <<[Now EXCEPT !.op = op]>> \o Rest
Take(c, k) ==  \* the event goes back to the spare list, the flag it raised is cleared
  /\ list' = [list EXCEPT ![c] = RemoveAt(@, k)]
  /\ flags' = [flags EXCEPT ![c] = @ \ CASE IsError(list[c][k]) -> {"ERROR"}
                                         [] list[c][k][1] = "ParamOrConfigChanged" -> {"CONFIG_CHANGED"}
                                         [] OTHER -> {}]
Clears(c, fs) == flags' = [flags EXCEPT ![c] = @ \ fs]
Where(c, event) == SelectInSeq(list[c], LAMBDA e : e = event)
FirstError(c, all) == SelectInSeq(list[c], LAMBDA e : IsError(e) /\ (all \/ EndsCommand(e)))
Fault == left.faults > 0 /\ left.troubles > 0 /\ left' = [left EXCEPT !.faults = @ - 1, !.troubles = @ - 1]

RunCommand ==
  /\ At("command")
  /\ LET i == Now
         enable == i.cmd = "PortEnable"
         port == i.cmd \in {"PortEnable", "PortDisable"}
     IN /\ omx' = [omx EXCEPT ![i.c].queue =
                     Append(@, <<i.cmd, i.arg, IF port THEN enabled[i.arg] = enable ELSE FALSE>>)]
        /\ enabled' = IF port THEN [enabled EXCEPT ![i.arg] = enable] ELSE enabled
  /\ todo' = Rest
  /\ UNCHANGED <<library, hand, call, value, failed, connected, allocated, held, returned, asserted, left>>

(* ilclient_wait_for_command_complete_dual(): the search, under the lock.  *)
RunAwait ==
  /\ At("await")
  /\ LET i == Now
         k == SelectInSeq(list[i.c], LAMBDA e : e = Done(i.cmd, i.arg) \/ EndsCommand(e))
         ended(onEnd) == /\ related' = [d \in Components |-> IF d = i.other THEN NoOne ELSE related[d]]
                         /\ todo' = onEnd
     IN \/ /\ k # 0
           /\ IF IsError(list[i.c][k]) THEN Take(i.c, k)
              ELSE list' = [list EXCEPT ![i.c] = RemoveAt(@, k)] /\ UNCHANGED flags
           /\ ended(IF IsError(list[i.c][k]) /\ list[i.c][k][2] # "SameState" THEN i.onFail ELSE Rest)
        \/ /\ k = 0 /\ i.other # NoOne
           /\ FirstError(i.other, FALSE) # 0
           /\ ended(i.onOther)
           /\ UNCHANGED <<list, flags>>
        \/ /\ k = 0 /\ (i.other # NoOne => FirstError(i.other, FALSE) = 0)
           /\ related' = [d \in Components |-> IF d = i.other THEN i.c ELSE related[d]]
           /\ Turns("sleep")
           /\ UNCHANGED <<list, flags>>
  /\ UNCHANGED <<mask, inList, hand, call, value, failed, core, asserted, left>>

Sleep ==
  /\ At("sleep")
  /\ LET wanted == {"ERROR", FlagOfCommand(Now.cmd)}
     IN flags[Now.c] \cap wanted # {} /\ Clears(Now.c, wanted)
  /\ Turns("await")
  /\ UNCHANGED <<list, related, mask, inList, hand, call, value, failed, core, asserted, left>>

(* ilclient_wait_for_event(): an empty onFail is "return the status".      *)
Fails(v) == todo' = IF Now.onFail = <<>> THEN Return(v) ELSE Now.onFail

RunEvent ==
  /\ At("event")
  /\ LET k == Where(Now.c, Now.event)
     IN IF k # 0 THEN Take(Now.c, k) /\ todo' = Rest
        ELSE Turns("eventErrors") /\ UNCHANGED <<list, flags>>
  /\ UNCHANGED <<related, mask, inList, hand, call, value, failed, core, asserted, left>>

RunEventErrors ==
  /\ At("eventErrors")
  /\ LET reported(flag, type) == flag \in Now.flags /\ \E k \in DOMAIN list[Now.c] : list[Now.c][k][1] = type
     IN CASE reported("ERROR", "Error") -> Clears(Now.c, {"ERROR"}) /\ Fails(-2)
          [] ~reported("ERROR", "Error") /\ reported("CONFIG_CHANGED", "ParamOrConfigChanged") ->
               Turns("eventLast") /\ UNCHANGED flags
          [] OTHER -> Turns("eventSleep") /\ UNCHANGED flags
  /\ UNCHANGED <<list, related, mask, inList, hand, call, value, failed, core, asserted, left>>

RunEventLast ==
  /\ At("eventLast")
  /\ LET k == Where(Now.c, Now.event)
     IN IF k # 0 THEN Take(Now.c, k) /\ todo' = Rest
        ELSE Fails(-3) /\ UNCHANGED <<list, flags>>
  /\ UNCHANGED <<related, mask, inList, hand, call, value, failed, core, asserted, left>>

EventSleep ==
  /\ At("eventSleep")
  /\ LET set == flags[Now.c] \cap Now.flags
     IN \/ /\ set # {}
           /\ Clears(Now.c, Now.flags)
           /\ CASE "ERROR" \in set -> Fails(-2)
                [] "ERROR" \notin set /\ "CONFIG_CHANGED" \in set -> Turns("eventLast")
                [] OTHER -> Turns("event")
        \/ /\ Now.timed /\ set = {}
           /\ Fails(-1)
           /\ UNCHANGED flags
  /\ UNCHANGED <<list, related, mask, inList, hand, call, value, failed, core, asserted, left>>

RunRemove ==
  /\ At("remove")
  /\ LET k == FirstError(Now.c, Now.all)
     IN IF k # 0 THEN Take(Now.c, k) ELSE UNCHANGED <<list, flags>>
  /\ todo' = Rest
  /\ UNCHANGED <<related, mask, inList, hand, call, value, failed, core, asserted, left>>

Holds(condition) ==
  CASE condition = "sink Loaded" -> omx["sink"].state = "Loaded"
    [] condition = "source Loaded" -> omx["source"].state = "Loaded"
    [] condition = "in enabled" -> enabled["in"]
    [] condition = "in may be enabled" -> ~enabled["in"] /\ omx["source"].state \in {"Idle", "Executing"}

RunIf ==
  /\ At("if")
  /\ todo' = IF Holds(Now.condition) THEN Now.yes \o Rest
             ELSE IF Now.condition = "in may be enabled" THEN Now.no ELSE Now.no \o Rest
  /\ UNCHANGED <<library, hand, call, value, failed, core, asserted, left>>

RunMask ==
  /\ \/ /\ At("mask")
        /\ mask' = [c \in Components |-> IF Now.on THEN {"PortUnpopulated"} ELSE {}]
        /\ UNCHANGED flags
     \/ /\ At("clear")
        /\ Clears(Now.c, {"ERROR"})
        /\ UNCHANGED mask
  /\ todo' = Rest
  /\ UNCHANGED <<list, related, inList, hand, call, value, failed, core, asserted, left>>

\* The end of a call, or of the program when an assertion fails.
EnablingFailed(f, v) == \/ v = -1 /\ f \in {"enable_tunnel", "enable_port_buffers", "open"}
                        \/ v = -5 /\ f = "setup_tunnel"

RunReturn ==
  /\ At("return")
  /\ value' = Now.value /\ todo' = <<>>
  /\ failed' = (failed \/ EnablingFailed(call, Now.value))
  /\ asserted' = (Now.value = Aborted)
  /\ UNCHANGED <<library, hand, call, core, left>>

(* OMX_SetupTunnel() and the parameters the caller sets and reads.         *)
RunExternal ==
  /\ \/ /\ At("disconnect") /\ connected' = FALSE
        /\ todo' = Rest /\ UNCHANGED left
     \/ /\ At("connect") /\ connected' = TRUE
        /\ todo' = Rest /\ UNCHANGED left
     \/ /\ At("streams") \/ At("configure")
        /\ todo' = Rest /\ UNCHANGED <<connected, left>>
     \/ /\ At("streams") /\ Fault
        /\ todo' \in {Return(-3), Return(-4)}
        /\ UNCHANGED connected
     \/ /\ At("connect") \/ At("configure")
        /\ Fault /\ todo' = Now.onFail
        /\ UNCHANGED connected
  /\ UNCHANGED <<library, hand, call, value, failed, omx, enabled, allocated, held, returned, asserted>>

RunGetHandle ==
  /\ At("getHandle")
  /\ \/ /\ omx' = [omx EXCEPT !["source"].state = "Loaded"]
        /\ enabled' = [p \in Ports |-> Owner(p) = "source"]
        /\ todo' = Rest /\ UNCHANGED left
     \/ /\ Fault /\ todo' = Now.onFail
        /\ UNCHANGED <<omx, enabled>>
  /\ UNCHANGED <<library, hand, call, value, failed, connected, allocated, held, returned, asserted>>

\* ilclient_cleanup_components(): events returned, handle freed, structure gone
RunFree ==
  /\ At("free")
  /\ list' = [list EXCEPT ![Now.c] = <<>>]
  /\ flags' = [flags EXCEPT ![Now.c] = {}]
  /\ mask' = [mask EXCEPT ![Now.c] = {}]
  /\ omx' = [omx EXCEPT ![Now.c] = [state |-> "None", queue |-> <<>>]]
  /\ IF Now.c = "source" THEN inList' = <<>> /\ allocated' = {} /\ held' = <<>>
                          ELSE UNCHANGED <<inList, allocated, held>>
  /\ todo' = Rest
  /\ UNCHANGED <<related, hand, call, value, failed, enabled, connected, returned, asserted, left>>

RunUse ==  \* OMX_UseBuffer() for a buffer of ilclient_enable_port_buffers()
  /\ At("use")
  /\ \/ /\ allocated' = allocated \cup {Now.b}
        /\ hand' = Append(hand, Now.b)
        /\ todo' = Rest /\ UNCHANGED left
     \/ /\ Fault /\ todo' = Now.onFail
        /\ UNCHANGED <<allocated, hand>>
  /\ UNCHANGED <<library, call, value, failed, omx, enabled, connected, held, returned, asserted>>

RunQueue ==
  /\ At("queue")
  /\ inList' = hand \o inList
  /\ hand' = <<>>
  /\ todo' = Rest
  /\ UNCHANGED <<list, flags, related, mask, call, value, failed, core, asserted, left>>

(* The loop of ilclient_disable_port_buffers(): take what is on the list,  *)
(* free it, and wait for the rest, for the port or for an error.           *)
RunDrain ==
  /\ At("drain")
  /\ IF Now.num <= 0
     THEN todo' = Await("source", "PortDisable", "in", FailAssert) \o Rest /\ UNCHANGED <<inList, hand>>
     ELSE Turns("freeBuffers") /\ hand' = Reverse(inList) /\ inList' = <<>>
  /\ UNCHANGED <<list, flags, related, mask, call, value, failed, core, asserted, left>>

RunFreeBuffers ==
  /\ At("freeBuffers")
  /\ IF hand # <<>>
     THEN /\ allocated' = allocated \ {Head(hand)}
          /\ hand' = Tail(hand)
          /\ todo' = <<[Now EXCEPT !.num = @ - 1]>> \o Rest
     ELSE /\ IF Now.num > 0 THEN Turns("drainSleep") ELSE Turns("drain")
          /\ UNCHANGED <<allocated, hand>>
  /\ UNCHANGED <<library, call, value, failed, omx, enabled, connected, held, returned, asserted, left>>

DrainSleep ==
  /\ At("drainSleep")
  /\ LET wanted == {"PORT_DISABLED", "ERROR", "EMPTY_BUFFER_DONE"}
         set == flags["source"] \cap wanted
         cleared == [flags EXCEPT !["source"] = @ \ wanted]
         error == IF "ERROR" \in set THEN FirstError("source", FALSE) ELSE 0
         done == IF "PORT_DISABLED" \in set THEN Where("source", Done("PortDisable", "in")) ELSE 0
         ends == IF error # 0 THEN error ELSE done
     IN /\ set # {}
        /\ flags' = cleared
        /\ IF ends # 0 THEN list' = [list EXCEPT !["source"] = RemoveAt(@, ends)] /\ todo' = Rest
                       ELSE Turns("drain") /\ UNCHANGED list
  /\ UNCHANGED <<related, mask, inList, hand, call, value, failed, core, asserted, left>>

RunGetBuffer ==
  /\ At("getBuffer")
  /\ IF inList # <<>> THEN hand' = <<Head(inList)>> /\ inList' = Tail(inList) /\ todo' = Rest
                      ELSE Turns("getSleep") /\ UNCHANGED <<hand, inList>>
  /\ UNCHANGED <<list, flags, related, mask, call, value, failed, core, asserted, left>>

GetSleep ==
  /\ At("getSleep")
  /\ "EMPTY_BUFFER_DONE" \in flags["source"]
  /\ Clears("source", {"EMPTY_BUFFER_DONE"})
  /\ Turns("getBuffer")
  /\ UNCHANGED <<list, related, mask, inList, hand, call, value, failed, core, asserted, left>>

RunEmptyBuffer ==
  /\ At("emptyBuffer")
  /\ held' = held \o hand
  /\ hand' = <<>>
  /\ todo' = Rest
  /\ UNCHANGED <<library, call, value, failed, omx, enabled, connected, allocated, returned, asserted, left>>

\* "while (toRead > 0)" for a frame that is not empty: toRead is never decreased.  An
\* error of OMX_EmptyThisBuffer() is only printed.  What the component does with a
\* header that it has already, or that is back on the list, is left out.
RunReadIntoBufferAndEmpty ==
  /\ At("readIntoBuffer")
  /\ \/ /\ Range(hand) \cap Range(held \o inList) = {}
        /\ held' = held \o hand
     \/ UNCHANGED held
  /\ UNCHANGED <<library, caller, omx, enabled, connected, allocated, returned, asserted, left>>

Run == \/ RunCommand \/ RunAwait \/ Sleep \/ RunEvent \/ RunEventErrors \/ RunEventLast \/ EventSleep
       \/ RunRemove \/ RunIf \/ RunMask \/ RunReturn \/ RunExternal \/ RunGetHandle \/ RunFree
       \/ RunUse \/ RunQueue \/ RunDrain \/ RunFreeBuffers \/ DrainSleep \/ RunGetBuffer \/ GetSleep
       \/ RunEmptyBuffer \/ RunReadIntoBufferAndEmpty

-----------------------------------------------------------------------------
(* The client's next call.  Every script ends with its value.              *)
Idle == todo = <<>>
State(c) == omx[c].state
Adjacent(s, t) == {s, t} \in {{"Loaded"}, {"Idle"}, {"Executing"}, {"Loaded", "Idle"}, {"Idle", "Executing"}}
Calls(f, script) ==
  /\ Idle /\ left.calls > 0 /\ ~asserted
  /\ call' = f /\ todo' = script \o Return(0)
  /\ left' = [left EXCEPT !.calls = @ - 1]
  /\ UNCHANGED <<library, hand, value, failed, core, asserted>>

\* a sink with an enabled port leaves Loaded only when its source can give it buffers
CanReach(c, s) == (c = "sink" /\ s = "Idle" /\ State(c) = "Loaded" /\ enabled["render"])
                    => enabled["out"] /\ State("source") # "Loaded"

CallTunnel ==
  /\ \A c \in Components : State(c) # "None"
  /\ \/ Calls("setup_tunnel", SetupTunnel(~connected))  \* set up again: the settings are known
     \/ /\ connected /\ State("source") # "Loaded"
        /\ State("sink") = "Loaded" => ~enabled["out"]  \* the source has nothing to complain of: see the README
        /\ Calls("enable_tunnel", EnableTunnel(Return(-1)))
     \/ connected /\ Calls("disable_tunnel", DisableTunnel)
     \/ ~enabled["out"] /\ ~enabled["render"] /\ Calls("teardown_tunnels", TeardownTunnels)
     \/ /\ connected /\ \A c \in Components : State(c) # "Loaded"
        /\ Calls("flush_tunnels", FlushTunnels)
     \/ \E first \in Components, s \in {"Loaded", "Idle", "Executing"} :
          /\ \A c \in Components : Adjacent(State(c), s)
          /\ IF s = "Loaded" THEN ~enabled["in"] ELSE enabled["render"] => enabled["out"]
          /\ Calls(s, StateTransition(first, CHOOSE c \in Components : c # first, s))
     \/ /\ \A c \in Components : State(c) = "Loaded"
        /\ \A p \in Ports : ~enabled[p]
        /\ Calls("cleanup_components", CleanupComponents(<<"source", "sink">>))

CallComponent ==
  \/ \E c \in Components, s \in {"Loaded", "Idle", "Executing"} :
       /\ State(c) # "None" /\ State("sink") # "None"
       /\ IF s = "Loaded" THEN \A p \in PortsOf(c) : ~enabled[p] ELSE CanReach(c, s)
       /\ Calls("change_component_state", ChangeComponentState(c, s, Return(-1)))
  \/ /\ \A c \in Components : State(c) # "None"
     /\ \/ Calls("enable_port_buffers", EnablePortBuffers(Return(-1)))
        \/ Calls("disable_port_buffers", DisablePortBuffers)
  \/ /\ State("source") = "Executing"
     /\ Calls("wait_for_event",
              AwaitEvent("source", <<"PortSettingsChanged", "out", "-">>,
                         {"PARAMETER_CHANGED", "ERROR", "CONFIG_CHANGED"}, TRUE, <<>>))
  \/ /\ State("source") = "Executing" /\ enabled["in"] /\ allocated # {}
     /\ Calls("empty_buffers", EmptyBuffer \o EmptyBuffer \o EmptyBuffer)

CallRenderer ==
  \/ State("sink") = "None"
     /\ \/ State("source") = "Executing" /\ enabled["in"] /\ allocated # {} /\ Calls("render", Render)
        \/ State("source") = "None" /\ Calls("open", Open)
        \/ State("source") # "None" /\ (Calls("close", Close(Return(0))) \/ Calls("open", Reconfigure))

Call == CallTunnel \/ CallComponent \/ CallRenderer

-----------------------------------------------------------------------------
(* The OpenMAX components (external).                                      *)
Ready(c, k) ==
  \/ k[3]
  \/ k[1] = "Flush"
  \/ k[1] = "StateSet" /\ CanReach(c, k[2])
  \/ k[1] = "PortEnable" /\ \/ k[2] = "render"
                            \/ ~enabled[k[2]]
                            \/ k[2] = "in" /\ allocated = Buffers
                            \/ k[2] = "out" /\ enabled["render"] /\ State("sink") # "Loaded"
  \/ k[1] = "PortDisable" /\ (k[2] = "in" => allocated = {})

Answer(c, k) ==
  IF k[3] \/ (k[1] = "StateSet" /\ State(c) = k[2]) THEN Error("SameState", "command")
  ELSE IF k[1] = "StateSet" /\ ~Adjacent(State(c), k[2]) THEN Error("IncorrectStateTransition", "command")
  ELSE Done(k[1], k[2])

MayFail(k) == k[1] \in {"StateSet", "PortEnable"} /\ ~k[3] /\ call \notin {"Loaded", "Idle", "Executing"}

Complete(c) ==
  /\ omx[c].queue # <<>> /\ ~asserted
  /\ LET k == Head(omx[c].queue)
         next == [omx EXCEPT ![c].queue = Tail(@)]
         e == Answer(c, k)
     IN \/ /\ Ready(c, k)
           /\ Notify(c, e)
           /\ omx' = IF k[1] = "StateSet" /\ ~IsError(e) THEN [next EXCEPT ![c].state = k[2]] ELSE next
           /\ UNCHANGED <<enabled, left>>
        \/ /\ MayFail(k) /\ Fault
           /\ Notify(c, Error("InsufficientResources", "command"))
           /\ enabled' = IF k[1] = "PortEnable" THEN [enabled EXCEPT ![k[2]] = FALSE] ELSE enabled
           /\ omx' = next
  /\ UNCHANGED <<related, mask, inList, caller, connected, allocated, held, returned>>

\* An error of a port whose tunnel loses its buffers comes while the other end executes
\* commands, new settings or a new configuration from a source that has resources.
Surprise(c) ==
  /\ ~asserted /\ State(c) # "None"
  /\ \E e \in Unsolicited :
       /\ IF IsError(e) THEN \E d \in Components \ {c} : omx[d].queue # <<>>
                        ELSE c = "source" /\ State(c) \in {"Idle", "Executing"}
       /\ e[1] = "ParamOrConfigChanged" => State(c) = "Executing"
       /\ IF e[1] = "PortSettingsChanged" THEN UNCHANGED left
          ELSE left.troubles > 0 /\ left' = [left EXCEPT !.troubles = @ - 1]
       /\ Notify(c, e)
  /\ UNCHANGED <<related, mask, inList, caller, core>>

\* ilclient_empty_buffer_done(): the buffer, then the flag
BufferDone ==
  /\ held # <<>> /\ ~returned
  /\ inList' = Append(inList, Head(held))
  /\ held' = Tail(held)
  /\ returned' = TRUE
  /\ UNCHANGED <<list, flags, related, mask, caller, omx, enabled, connected, allocated, asserted, left>>

BufferFlag ==
  /\ returned
  /\ flags' = [flags EXCEPT !["source"] = @ \cup {"EMPTY_BUFFER_DONE"}]
  /\ returned' = FALSE
  /\ UNCHANGED <<list, related, mask, inList, caller, omx, enabled, connected, allocated, held, asserted, left>>

\* Either the program has created two components, or it opens the renderer.
Init ==
  /\ list = [c \in Components |-> <<>>] /\ flags = [c \in Components |-> {}]
  /\ related = [c \in Components |-> NoOne] /\ mask = [c \in Components |-> {}]
  /\ inList = <<>> /\ hand = <<>> /\ value = 0 /\ failed = FALSE
  /\ \E created \in BOOLEAN :
       /\ call = (IF created THEN "create_component" ELSE "open")
       /\ todo = (IF created THEN <<>> ELSE Open)
       /\ omx = [c \in Components |-> [state |-> IF created THEN "Loaded" ELSE "None", queue |-> <<>>]]
  /\ enabled = [p \in Ports |-> FALSE] /\ connected = FALSE
  /\ allocated = {} /\ held = <<>> /\ returned = FALSE /\ asserted = FALSE
  /\ left = [calls |-> MaxCalls, faults |-> MaxFaults, troubles |-> MaxTroubles]

Next == \/ Run \/ Call \/ BufferDone \/ BufferFlag
        \/ \E c \in Components : Complete(c) \/ Surprise(c)

Fairness == WF_vars(Run) /\ WF_vars(BufferDone) /\ WF_vars(BufferFlag)
              /\ \A c \in Components : WF_vars(Complete(c))

Spec == Init /\ [][Next]_vars /\ Fairness

-----------------------------------------------------------------------------
(* Properties.                                                             *)

\* No vc_assert() fails: there is a spare record for every event (a client has a
\* fixed number of them, and a component may repeat itself for ever), and a command
\* the library takes to be certain never reads the error of another one.  (Nothing is
\* claimed once enabling a port has failed.)
NoAssertFails == asserted => failed

\* When a call has returned nothing it asked for is under way, and no answer to it
\* is left on a list, where the next call that sends the same command would take it
\* for its own.  (Once enabling a port has failed this is not so: see the README.)
QuietBetweenCalls ==
  Idle /\ ~failed => \A c \in Components :
    /\ omx[c].queue = <<>>
    /\ \A k \in DOMAIN list[c] : list[c][k][1] # "CmdComplete" /\ ~EndsCommand(list[c][k])

\* What a call reports has happened: a port or a component is in the state the
\* caller was told, and the buffers of a port are all there, each in one place,
\* or all freed.
TunnelIsUp == connected /\ enabled["out"] /\ enabled["render"]
BuffersAreThere ==
  /\ hand = <<>> /\ IsInjective(inList \o held)
  /\ allocated = (IF enabled["in"] THEN Buffers ELSE {})
  /\ Range(inList \o held) = allocated

ResultsAreTrue ==
  Idle /\ ~failed =>
    /\ State("source") # "None" => BuffersAreThere
    /\ value = 0 =>
         CASE call \in {"setup_tunnel", "enable_tunnel"} -> TunnelIsUp /\ State("source") # "Loaded"
           [] call = "disable_tunnel" -> ~enabled["out"] /\ ~enabled["render"]
           [] call \in {"Loaded", "Idle", "Executing"} -> \A c \in Components : State(c) = call
           [] call = "enable_port_buffers" -> enabled["in"]
           [] call = "disable_port_buffers" -> ~enabled["in"]
           [] call = "open" -> State("source") = "Executing" /\ enabled["in"]
           [] OTHER -> TRUE

\* Every call of the library returns, whatever fails and whatever the components report
\* meanwhile: no wake-up is lost between the search of the list and the sleep on the
\* flags.  So do the calls of the renderer, but for Render(): it gets its buffer, and
\* then its loop over a frame that is not empty never ends (see the README).
CallsReturn == ~Idle ~> Idle \/ At("readIntoBuffer")
=============================================================================
