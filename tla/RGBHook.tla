------------------------------ MODULE RGBHook -------------------------------
(***************************************************************************)
(* openrgb.go: the plugin that shows what the proxy does on OpenRGB lamps. *)
(*                                                                         *)
(* Request handlers, the executor of token updates and the return-to-idle  *)
(* goroutines send commands over one connection, and nothing keeps the     *)
(* commands of two effects apart.  All requests share the lamps, a channel *)
(* that holds one token update, and the handle that cancels the latest     *)
(* return to idle.                                                         *)
(*                                                                         *)
(* An effect is named by the event it is mapped to; colours and brightness *)
(* are left out.  OnToolCalls does nothing.  tokenStart and tokenCount are *)
(* left out: nothing reads them.                                           *)
(***************************************************************************)
EXTENDS HookLifecycle, FiniteSets

CONSTANTS
    Timers,      \* bound: the return-to-idle goroutines
    Executor,    \* the goroutine rateLimitedExecutor
    NumDevices,  \* the configured devices the server has
    Breathers,   \* those of them that have a Breathing mode
    Breathing,   \* the events whose effect is configured to breathe
    Mappings     \* bound: the sets of events that may be mapped to an effect

Events == {"request_start", "token", "thinking_content", "request_complete",
           "error", "idle"}

ASSUME NumDevicesAssumption == NumDevices \in Nat \ {0}
ASSUME BreathersAssumption == Breathers \subseteq 1 .. NumDevices
ASSUME BreathingAssumption == Breathing \subseteq Events
ASSUME MappingsAssumption == Mappings \subseteq SUBSET Events
ASSUME BoundsAssumption == IsFiniteSet(Requests) /\ IsFiniteSet(Timers)
ASSUME ActorsAssumption ==
    /\ Executor \notin Requests \cup Timers
    /\ Requests \cap Timers = {}

VARIABLES
    mapped,      \* the events the configuration maps to an effect
    call,        \* where a handler is in its hook call, or which was its last
    job,         \* the effect each goroutine is sending
    cmdCh,       \* the token update waiting in the channel
    held,        \* the one the executor has taken
    timer,       \* the return-to-idle goroutines
    idleCancel,  \* the one that cancelIdle can reach
    lamp,        \* mode and LED colours of each device
    connected    \* whether the connection to the server is open

vars == <<lifecycleVars, mapped, call, job, cmdCh, held, timer, idleCancel,
          lamp, connected>>

Devices == 1 .. NumDevices

Actors == Requests \cup Timers \cup {Executor}

\* A token update, whose it is, and the returns to idle scheduled after it.
Update == [by : Requests, before : SUBSET Timers]

\* The effect a goroutine is sending, to which device, and whether that
\* device has been put into its custom mode for it.
Job == [effect : Events, dev : Devices, custom : BOOLEAN]

Lamp == [mode : Breathing \cup {"custom"}, leds : Events \cup {"off"}]

\* A value that may be absent.
AtMostOne(S) == \A x, y \in S : x = y

Calls == {"none", "starting", "open", "ending", "scheduling", "ended"}

TypeOK ==
    /\ LifecycleTypeOK
    /\ mapped \in Mappings
    /\ call \in [Requests -> Calls]
    /\ job \in [Actors -> SUBSET Job]
    /\ \A a \in Actors : AtMostOne(job[a])
    /\ cmdCh \in SUBSET Update /\ AtMostOne(cmdCh)
    /\ held \in SUBSET Update /\ AtMostOne(held)
    /\ timer \in [Timers -> {"unused", "waiting", "cancelled", "gone"}]
    /\ idleCancel \in SUBSET Timers /\ AtMostOne(idleCancel)
    /\ lamp \in [Devices -> Lamp]
    /\ connected \in BOOLEAN

Init ==
    /\ LifecycleInit
    /\ mapped \in Mappings
    /\ call = [r \in Requests |-> "none"]
    /\ job = [a \in Actors |-> {}]
    /\ cmdCh = {} /\ held = {}
    /\ timer = [t \in Timers |-> "unused"]
    /\ idleCancel = {}
    /\ lamp = [d \in Devices |-> [mode |-> "custom", leds |-> "off"]]
    /\ connected = TRUE

-----------------------------------------------------------------------------
(* Sending an effect.                                                      *)

\* execEffect: nothing for an event that is not mapped.
Show(a, event) ==
    job' = [job EXCEPT ![a] =
        {[effect |-> e, dev |-> 1, custom |-> FALSE] : e \in {event} \cap mapped}]

\* Any other effect, and any device without a Breathing mode, takes two
\* commands: SetCustomMode and UpdateLeds (or UpdateZoneLeds).
Breathes(j) == j.effect \in Breathing /\ j.dev \in Breathers

Applied(l, j) ==
    IF Breathes(j) THEN [l EXCEPT !.mode = j.effect]
    ELSE IF j.custom THEN [l EXCEPT !.leds = j.effect]
    ELSE [l EXCEPT !.mode = "custom"]

NextDevice(j) ==
    IF j.dev = NumDevices THEN {}
    ELSE {[j EXCEPT !.dev = @ + 1, !.custom = FALSE]}

\* Mutant: the command is tried again until it succeeds.
SendRetried(a) ==
    \E j \in job[a] :
        /\ connected
        /\ lamp' = [lamp EXCEPT ![j.dev] = Applied(@, j)]
        /\ job' = [job EXCEPT ![a] =
              IF Breathes(j) \/ j.custom THEN NextDevice(j)
              ELSE {[j EXCEPT !.custom = TRUE]}]
        /\ UNCHANGED <<lifecycleVars, mapped, call, cmdCh, held, timer,
                       idleCancel, connected>>

\* One command.  On a closed connection it fails, which is logged: the lamp
\* stays as it is, and no UpdateLeds follows a SetCustomMode that failed.
Send(a) ==
    \E j \in job[a] :
        /\ lamp' = IF connected THEN [lamp EXCEPT ![j.dev] = Applied(@, j)] ELSE lamp
        /\ job' = [job EXCEPT ![a] =
              IF Breathes(j) \/ j.custom \/ ~connected THEN NextDevice(j)
              ELSE {[j EXCEPT !.custom = TRUE]}]
        /\ UNCHANGED <<lifecycleVars, mapped, call, cmdCh, held, timer,
                       idleCancel, connected>>

-----------------------------------------------------------------------------
(* The hook calls.                                                         *)

Free(r) == call[r] \in {"none", "open", "ended"} /\ job[r] = {}

Continue(r, next) == call' = [call EXCEPT ![r] = next]

lampVars == <<lamp, connected>>
idleVars == <<timer, idleCancel>>

\* cancelIdle, in one critical section.  Cancelling a goroutine that has
\* already returned does nothing.
CancelIdle ==
    /\ timer' = [t \in Timers |->
          IF t \in idleCancel /\ timer[t] = "waiting" THEN "cancelled" ELSE timer[t]]
    /\ idleCancel' = {}

OnRequestStart(r) ==
    /\ Free(r)
    /\ Start(r)
    /\ CancelIdle
    /\ Continue(r, "starting")
    /\ UNCHANGED <<mapped, job, cmdCh, held, lampVars>>

\* The update in the channel is thrown away.  Mutant: it is not.
NotEmptied == cmdCh
Emptied == {}

ShowStart(r) ==
    /\ call[r] = "starting"
    /\ cmdCh' = Emptied
    /\ Show(r, "request_start")
    /\ Continue(r, "open")
    /\ UNCHANGED <<lifecycleVars, mapped, held, idleVars, lampVars>>

\* A send in a select with a default branch: dropped if one is waiting.
\* Mutant: there is room for more than one.
OfferedAnyway(update) == cmdCh \cup {update}
Offered(update) == IF cmdCh = {} THEN {update} ELSE cmdCh

OnToken(r) ==
    /\ Free(r)
    /\ Token(r)
    /\ cmdCh' = IF "token" \in mapped THEN Offered([by |-> r, before |-> {}])
                ELSE cmdCh
    /\ Continue(r, "open")
    /\ UNCHANGED <<mapped, job, held, idleVars, lampVars>>

OnThinking(r) ==
    /\ Free(r)
    /\ MayCall(r)
    /\ Show(r, "thinking_content")
    /\ Continue(r, "open")
    /\ UNCHANGED <<lifecycleVars, mapped, cmdCh, held, idleVars, lampVars>>

Unused == {t \in Timers : timer[t] = "unused"}

\* Bound: there is a timer for every call that is going to schedule one.
TimerLeft ==
    Cardinality({r \in Requests : call[r] \in {"ending", "scheduling"}})
        < Cardinality(Unused)

\* OnRequestComplete and OnError begin alike and schedule no return to idle
\* if they are not mapped.
ShowEnd(r, event) ==
    /\ Free(r) /\ TimerLeft
    /\ cmdCh' = Emptied
    /\ Show(r, event)
    /\ Continue(r, IF event \in mapped THEN "ending" ELSE "ended")
    /\ UNCHANGED <<mapped, held, idleVars, lampVars>>

OnRequestComplete(r) == Complete(r) /\ ShowEnd(r, "request_complete")

OnError(r) == Fail(r) /\ ShowEnd(r, "error")

\* scheduleIdle cancels in one critical section ...
CancelPrevious(r) ==
    /\ call[r] = "ending" /\ job[r] = {}
    /\ CancelIdle
    /\ Continue(r, "scheduling")
    /\ UNCHANGED <<lifecycleVars, mapped, job, cmdCh, held, lampVars>>

AddBefore(updates, t) == {[u EXCEPT !.before = @ \cup {t}] : u \in updates}

\* ... and stores in another, whatever is stored there by now, and starts the
\* goroutine.  Mutant: the cancel comes after the store.
ScheduledCancelled == "cancelled"
Scheduled == "waiting"

Schedule(r) ==
    /\ call[r] = "scheduling"
    /\ LET t == CHOOSE t \in Unused : TRUE IN
          /\ timer' = [timer EXCEPT ![t] = Scheduled]
          /\ idleCancel' = {t}
          /\ cmdCh' = AddBefore(cmdCh, t)
          /\ held' = AddBefore(held, t)
    /\ Continue(r, "ended")
    /\ UNCHANGED <<lifecycleVars, mapped, job, lampVars>>

-----------------------------------------------------------------------------
(* The executor and the return-to-idle goroutines.                         *)

ExecutorTake ==
    /\ held = {} /\ cmdCh # {}
    /\ held' = cmdCh /\ cmdCh' = {}
    /\ Show(Executor, "token")
    /\ UNCHANGED <<lifecycleVars, mapped, call, idleVars, lampVars>>

\* The update has been applied and the pause after it is over.
ExecutorSleep ==
    /\ held # {} /\ job[Executor] = {}
    /\ held' = {}
    /\ UNCHANGED <<lifecycleVars, mapped, call, job, cmdCh, idleVars, lampVars>>

\* Assumption: the hold, of 2 s at least, is longer than the executor takes
\* for the updates sent before it began.
HeldLongEnough(t) == \A u \in cmdCh \cup held : t \notin u.before

\* The time is up.  A goroutine that has been cancelled finds both branches
\* of its select ready if the time is up as well, and may take either.
TimerFires(t) ==
    /\ timer[t] \in {"waiting", "cancelled"}
    /\ HeldLongEnough(t)
    /\ timer' = [timer EXCEPT ![t] = "gone"]
    /\ Show(t, "idle")
    /\ UNCHANGED <<lifecycleVars, mapped, call, cmdCh, held, idleCancel, lampVars>>

TimerStops(t) ==
    /\ timer[t] = "cancelled"
    /\ timer' = [timer EXCEPT ![t] = "gone"]
    /\ UNCHANGED <<lifecycleVars, mapped, call, job, cmdCh, held, idleCancel,
                   lampVars>>

\* Close, or the server goes away: there is one connection and no other is
\* made.  Handlers, executor and timers go on.
Disconnect ==
    /\ connected
    /\ connected' = FALSE
    /\ UNCHANGED <<lifecycleVars, mapped, call, job, cmdCh, held, idleVars, lamp>>

-----------------------------------------------------------------------------
\* What a handler does inside a hook call.
CallStep(r) == ShowStart(r) \/ Send(r) \/ CancelPrevious(r) \/ Schedule(r)

HandlerStep(r) ==
    \/ OnRequestStart(r) \/ OnToken(r) \/ OnThinking(r)
    \/ OnRequestComplete(r) \/ OnError(r)
    \/ CallStep(r)

ExecutorStep == ExecutorTake \/ Send(Executor) \/ ExecutorSleep

TimerStep(t) == TimerFires(t) \/ TimerStops(t) \/ Send(t)

Next ==
    \/ \E r \in Requests : HandlerStep(r)
    \/ \E t \in Timers : TimerStep(t)
    \/ ExecutorStep
    \/ Disconnect

Spec == Init /\ [][Next]_vars

\* Goroutines run, time passes, and a command is answered or fails.
Fairness ==
    /\ \A r \in Requests : WF_vars(CallStep(r))
    /\ \A t \in Timers : WF_vars(TimerStep(t))
    /\ WF_vars(ExecutorStep)

FairSpec == Spec /\ Fairness

-----------------------------------------------------------------------------
\* An ending empties the channel: no token of a request is shown after its
\* end, but for the one the executor may have taken before (openrgb.go:162,
\* 187, 300).
QueuedIsLive ==
    \A u \in cmdCh : call[u.by] \notin {"ending", "scheduling", "ended"}

\* Once every request that made a call has made an ending its last, all lamps
\* return to idle and stay idle, however the two-command effects of handlers,
\* executor and timers were mixed, whichever timers were cancelled or could
\* not be, and whatever the executor held (openrgb.go:28, 266, 300, 318).
Quiet ==
    /\ connected /\ {"request_complete", "error", "idle"} \subseteq mapped
    /\ \A r \in Requests : call[r] \in {"none", "ended"}
    /\ \E r \in Requests : call[r] = "ended"

\* Whether the idle effect is the Breathing mode of the device or its LEDs.
IdleBreathes(d) == "idle" \in Breathing /\ d \in Breathers

AllIdle ==
    \A d \in Devices :
        IF IdleBreathes(d) THEN lamp[d].mode = "idle"
        ELSE lamp[d] = [mode |-> "custom", leds |-> "idle"]

ReturnsToIdle == <>[]Quiet => <>[]AllIdle

\* A hook call returns, also when the connection has been closed under it:
\* the stream of a client is not held by the lamps (openrgb.go:109, 218, 256).
HookCallsReturn == \A r \in Requests : ~Free(r) ~> Free(r)

\* openrgb.go:28, "Cancel pending return-to-idle goroutines": what cancelIdle
\* can reach are all the goroutines pending.
PendingCanBeCancelled ==
    \A t \in Timers : timer[t] = "waiting" => t \in idleCancel

=============================================================================
