--------------------------- MODULE RGBHookProofs ---------------------------
(***************************************************************************)
(* Theorems about RGBHook and their proofs: no token update waits in the   *)
(* channel for a request that has ended; every variable keeps its type,    *)
(* for which there must always be a timer left to schedule; the lamps are  *)
(* idle when every return to idle is over; a pending one can be cancelled  *)
(* unless two endings overlap; and every hook call comes to an end.        *)
(***************************************************************************)
EXTENDS RGBHook, FiniteSetTheorems, TLAPS

Ending == {"ending", "scheduling", "ended"}

\* An update names a request, whatever is noted about its past.
Named(updates) == \A u \in updates : "by" \in DOMAIN u /\ u.by \in Requests

\* The update in the channel is some request's, and call is a function, so that
\* a handler changes its own entry only.
QueueInv ==
    /\ call \in [Requests -> Calls]
    /\ Named(cmdCh)
    /\ QueuedIsLive

\* A step that leaves the channel alone or empties it, and puts no request with
\* an update in it at its end.
LEMMA QueueFrame ==
    ASSUME QueueInv, call' \in [Requests -> Calls],
           cmdCh' \in SUBSET cmdCh,
           \A u \in cmdCh' : call'[u.by] = call[u.by] \/ call'[u.by] \notin Ending
    PROVE  QueueInv'
BY DEF QueueInv, QueuedIsLive, Named, Ending

\* A handler continues with a state of the type.
LEMMA ContinueType ==
    ASSUME call \in [Requests -> Calls], NEW r \in Requests, NEW next \in Calls,
           Continue(r, next)
    PROVE  /\ call' \in [Requests -> Calls]
           /\ call'[r] = next
           /\ \A q \in Requests \ {r} : call'[q] = call[q]
BY DEF Continue

LEMMA StartsStep ==
    ASSUME QueueInv, NEW r \in Requests, OnRequestStart(r) \/ OnThinking(r)
    PROVE  QueueInv'
<1>1. PICK next \in {"starting", "open"} : Continue(r, next)
  BY DEF OnRequestStart, OnThinking
<1>2. cmdCh' = cmdCh
  BY DEF OnRequestStart, OnThinking
<1>3. next \in Calls /\ next \notin Ending
  BY DEF Calls, Ending
<1>4. /\ call' \in [Requests -> Calls] /\ call'[r] = next
      /\ \A q \in Requests \ {r} : call'[q] = call[q]
  BY <1>1, <1>3, ContinueType DEF QueueInv
<1>5. \A u \in cmdCh : u.by \in Requests
  BY DEF QueueInv, Named
<1> QED
  BY <1>2, <1>3, <1>4, <1>5, QueueFrame

\* OnToken offers an update of a request that is open.
LEMMA TokenStep ==
    ASSUME QueueInv, NEW r \in Requests, OnToken(r)
    PROVE  QueueInv'
<1>1. /\ call' \in [Requests -> Calls] /\ call'[r] = "open"
      /\ \A q \in Requests \ {r} : call'[q] = call[q]
  BY ContinueType DEF OnToken, QueueInv, Calls
<1>2. \A u \in cmdCh' : u \in cmdCh \/ u = [by |-> r, before |-> {}]
  BY DEF OnToken, Offered
<1>3. \A u \in cmdCh' : "by" \in DOMAIN u /\ (u.by = r \/ u \in cmdCh)
  BY <1>2 DEF QueueInv, Named
<1>4. Named(cmdCh')
  BY <1>3 DEF QueueInv, Named
<1> QED
  BY <1>1, <1>3, <1>4 DEF QueueInv, QueuedIsLive, Named

\* A start and an ending leave nothing in the channel.
LEMMA EmptyingStep ==
    ASSUME QueueInv, NEW r \in Requests,
           ShowStart(r) \/ OnRequestComplete(r) \/ OnError(r)
    PROVE  QueueInv'
<1>1. cmdCh' = {}
  BY DEF ShowStart, OnRequestComplete, OnError, ShowEnd, Emptied
<1>2. PICK next \in Calls : Continue(r, next)
  BY DEF ShowStart, OnRequestComplete, OnError, ShowEnd, Calls
<1> QED
  BY <1>1, <1>2, ContinueType DEF QueueInv, QueuedIsLive, Named

\* What is still to be done after the ending has been shown: the request has
\* been at its end before.
LEMMA AfterEndStep ==
    ASSUME QueueInv, NEW r \in Requests, CancelPrevious(r) \/ Schedule(r)
    PROVE  QueueInv'
<1>1. call[r] \in Ending
  BY DEF CancelPrevious, Schedule, Ending
<1>2. PICK next \in Ending : Continue(r, next)
  BY DEF CancelPrevious, Schedule, Ending
<1>3. /\ call' \in [Requests -> Calls]
      /\ \A q \in Requests \ {r} : call'[q] = call[q]
  BY <1>2, ContinueType DEF QueueInv, Calls, Ending
<1>4. \A u \in cmdCh : "by" \in DOMAIN u /\ u.by \in Requests /\ u.by # r
  BY <1>1 DEF QueueInv, QueuedIsLive, Named, Ending
<1>5. CASE CancelPrevious(r)
  <2>1. cmdCh' = cmdCh
    BY <1>5 DEF CancelPrevious
  <2> QED
    BY <2>1, <1>3, <1>4, QueueFrame
<1>6. CASE Schedule(r)
  <2>1. \A v \in cmdCh' : \E u \in cmdCh : "by" \in DOMAIN v /\ v.by = u.by
    <3>1. ASSUME NEW t
          PROVE  \A v \in AddBefore(cmdCh, t) :
                    \E u \in cmdCh : "by" \in DOMAIN v /\ v.by = u.by
      BY <1>4 DEF AddBefore
    <3> QED
      BY <1>6, <3>1 DEF Schedule
  <2>2. \A v \in cmdCh' : /\ "by" \in DOMAIN v /\ v.by \in Requests
                          /\ call'[v.by] \notin Ending
    BY <1>3, <1>4, <2>1 DEF QueueInv, QueuedIsLive, Ending
  <2> QED
    BY <1>3, <2>2 DEF QueueInv, QueuedIsLive, Named, Ending
<1> QED
  BY <1>5, <1>6

LEMMA QueueNext == QueueInv /\ [Next]_vars => QueueInv'
<1> SUFFICES ASSUME QueueInv, [Next]_vars PROVE QueueInv'
  OBVIOUS
<1>1. ASSUME NEW a \in Actors, Send(a)
      PROVE  UNCHANGED <<call, cmdCh>>
  BY <1>1 DEF Send
<1>2. ASSUME UNCHANGED call, cmdCh' \in SUBSET cmdCh
      PROVE  QueueInv'
  BY <1>2, QueueFrame DEF QueueInv
<1>3. ASSUME NEW r \in Requests, HandlerStep(r)
      PROVE  QueueInv'
  <2>1. CASE Send(r)
    BY <1>1, <1>2, <2>1 DEF Actors
  <2> QED
    BY <1>3, <2>1, StartsStep, TokenStep, EmptyingStep, AfterEndStep
    DEF HandlerStep, CallStep
<1>4. ASSUME NEW t \in Timers, TimerStep(t)
      PROVE  QueueInv'
  <2>1. CASE Send(t)
    BY <1>1, <1>2, <2>1 DEF Actors
  <2>2. CASE TimerFires(t) \/ TimerStops(t)
    BY <1>2, <2>2 DEF TimerFires, TimerStops
  <2> QED
    BY <1>4, <2>1, <2>2 DEF TimerStep
<1>5. CASE ExecutorStep
  <2>1. CASE Send(Executor)
    BY <1>1, <1>2, <2>1 DEF Actors
  <2>2. CASE ExecutorTake \/ ExecutorSleep
    BY <1>2, <2>2 DEF ExecutorTake, ExecutorSleep
  <2> QED
    BY <1>5, <2>1, <2>2 DEF ExecutorStep
<1>6. CASE Disconnect \/ UNCHANGED vars
  BY <1>2, <1>6 DEF Disconnect, vars
<1> QED
  BY <1>3, <1>4, <1>5, <1>6 DEF Next

\* However many handlers, timers and token updates there are, the channel holds
\* none for a request that has begun to end (openrgb.go:162, 187, 300).
THEOREM NoTokenAfterTheEnd == Spec => []QueuedIsLive
<1>1. Init => QueueInv
  BY DEF Init, QueueInv, QueuedIsLive, Named, Calls
<1>2. QueueInv => QueuedIsLive
  BY DEF QueueInv
<1> QED
  BY <1>1, <1>2, QueueNext, PTL DEF Spec

-----------------------------------------------------------------------------
(* Types.                                                                  *)

\* The requests that are going to schedule a return to idle.
Pending == {r \in Requests : call[r] \in {"ending", "scheduling"}}

\* There is a timer for each of them, so that the choice of an unused one is
\* a choice among some.
Enough == Cardinality(Pending) <= Cardinality(Unused)

LEMMA PendingFinite ==
    /\ IsFiniteSet(Pending) /\ Cardinality(Pending) \in Nat
    /\ IsFiniteSet(Unused) /\ Cardinality(Unused) \in Nat
<1>1. Pending \subseteq Requests /\ Unused \subseteq Timers
  BY DEF Pending, Unused
<1> QED
  BY <1>1, BoundsAssumption, FS_Subset, FS_CardinalityType

\* A step that schedules nothing and puts no request at its end.
LEMMA EnoughFrame ==
    ASSUME Enough, Pending' \subseteq Pending, Unused' = Unused
    PROVE  Enough'
<1>1. Cardinality(Pending') <= Cardinality(Pending) /\ Cardinality(Pending') \in Nat
  BY PendingFinite, FS_Subset, FS_CardinalityType
<1> QED
  BY <1>1, PendingFinite DEF Enough

LEMMA LifecycleType ==
    ASSUME LifecycleTypeOK, NEW r \in Requests,
           Start(r) \/ Token(r) \/ Complete(r) \/ Fail(r)
    PROVE  LifecycleTypeOK'
<1>1. CASE Token(r)
  <2>1. sent[r] + 1 \in 0 .. MaxTokens
    BY <1>1, MaxTokensAssumption DEF LifecycleTypeOK, Token
  <2> QED
    BY <1>1, <2>1 DEF LifecycleTypeOK, Token
<1>2. CASE Start(r) \/ Complete(r) \/ Fail(r)
  BY <1>2 DEF LifecycleTypeOK, Start, Complete, Fail, MoveTo, Stages
<1> QED
  BY <1>1, <1>2

JobsOK ==
    /\ job \in [Actors -> SUBSET Job]
    /\ \A a \in Actors : AtMostOne(job[a])

LEMMA JobChanges ==
    ASSUME JobsOK, NEW a \in Actors, NEW S \in SUBSET Job, AtMostOne(S),
           job' = [job EXCEPT ![a] = S]
    PROVE  JobsOK'
BY DEF JobsOK

LEMMA ShowType ==
    ASSUME JobsOK, NEW a \in Actors, NEW event \in Events, Show(a, event)
    PROVE  JobsOK'
<1> DEFINE S == {[effect |-> e, dev |-> 1, custom |-> FALSE] : e \in {event} \cap mapped}
<1>1. 1 \in Devices
  BY NumDevicesAssumption DEF Devices
<1>2. S \in SUBSET Job
  <2>1. [effect |-> event, dev |-> 1, custom |-> FALSE] \in Job
    BY <1>1 DEF Job
  <2> QED
    BY <2>1
<1>3. AtMostOne(S)
  BY DEF AtMostOne
<1>4. job' = [job EXCEPT ![a] = S]
  BY DEF Show
<1> HIDE DEF S
<1> QED
  BY <1>2, <1>3, <1>4, JobChanges

\* One command leaves the lamp and the rest of the effect of their types.
LEMMA CommandType ==
    ASSUME NEW l \in Lamp, NEW j \in Job
    PROVE  /\ Applied(l, j) \in Lamp
           /\ [j EXCEPT !.custom = TRUE] \in Job
           /\ NextDevice(j) \in SUBSET Job /\ AtMostOne(NextDevice(j))
<1>1. /\ j.effect \in Events /\ j.dev \in Devices /\ l \in Lamp
      /\ Breathes(j) => j.effect \in Breathing
  BY DEF Job, Breathes
<1>2. Applied(l, j) \in Lamp
  <2>1. \A m \in Breathing \cup {"custom"} : [l EXCEPT !.mode = m] \in Lamp
    BY DEF Lamp
  <2>2. \A e \in Events : [l EXCEPT !.leds = e] \in Lamp
    BY DEF Lamp
  <2> QED
    BY <1>1, <2>1, <2>2 DEF Applied
<1>3. \A d \in Devices, b \in BOOLEAN : [j EXCEPT !.dev = d, !.custom = b] \in Job
  BY DEF Job
<1>4. [j EXCEPT !.custom = TRUE] \in Job
  BY DEF Job
<1>5. j.dev # NumDevices => j.dev + 1 \in Devices
  BY <1>1, NumDevicesAssumption DEF Devices
<1>6. NextDevice(j) \in SUBSET Job /\ AtMostOne(NextDevice(j))
  BY <1>3, <1>5 DEF NextDevice, AtMostOne
<1> QED
  BY <1>2, <1>4, <1>6

LEMMA SendType ==
    ASSUME TypeOK, Enough, NEW a \in Actors, Send(a)
    PROVE  TypeOK' /\ Enough'
<1>1. PICK j \in job[a] :
        /\ lamp' = IF connected THEN [lamp EXCEPT ![j.dev] = Applied(@, j)] ELSE lamp
        /\ job' = [job EXCEPT ![a] =
              IF Breathes(j) \/ j.custom \/ ~connected THEN NextDevice(j)
              ELSE {[j EXCEPT !.custom = TRUE]}]
  BY DEF Send
<1>2. UNCHANGED <<lifecycleVars, mapped, call, cmdCh, held, timer, idleCancel,
                  connected>>
  BY DEF Send
<1>3. j \in Job /\ j.dev \in Devices /\ lamp[j.dev] \in Lamp
  BY DEF TypeOK, Job
<1>4. lamp' \in [Devices -> Lamp]
  BY <1>1, <1>3, CommandType DEF TypeOK
<1>5. JobsOK'
  <2>1. AtMostOne({[j EXCEPT !.custom = TRUE]})
    BY DEF AtMostOne
  <2>2. JobsOK
    BY DEF TypeOK, JobsOK
  <2>3. CASE Breathes(j) \/ j.custom \/ ~connected
    BY <1>1, <1>3, <2>2, <2>3, CommandType, JobChanges
  <2>4. CASE ~(Breathes(j) \/ j.custom \/ ~connected)
    BY <1>1, <1>3, <2>1, <2>2, <2>4, CommandType, JobChanges
  <2> QED
    BY <2>3, <2>4
<1>6. Enough'
  BY <1>2, EnoughFrame DEF Pending, Unused
<1> QED
  BY <1>2, <1>4, <1>5, <1>6 DEF TypeOK, JobsOK, LifecycleTypeOK, lifecycleVars

\* The values that hook calls, channel and timers take, but for the jobs.
QueueOK ==
    /\ call \in [Requests -> Calls]
    /\ cmdCh \in SUBSET Update /\ AtMostOne(cmdCh)
    /\ held \in SUBSET Update /\ AtMostOne(held)
    /\ timer \in [Timers -> {"unused", "waiting", "cancelled", "gone"}]
    /\ idleCancel \in SUBSET Timers /\ AtMostOne(idleCancel)

LEMMA TypeParts ==
    /\ TypeOK <=> /\ LifecycleTypeOK /\ JobsOK /\ QueueOK
                  /\ mapped \in Mappings /\ lamp \in [Devices -> Lamp]
                  /\ connected \in BOOLEAN
BY DEF TypeOK, JobsOK, QueueOK

\* Cancelling leaves the unused timers unused and makes no other one unused.
LEMMA CancelType ==
    ASSUME QueueOK, CancelIdle
    PROVE  /\ timer' \in [Timers -> {"unused", "waiting", "cancelled", "gone"}]
           /\ idleCancel' = {}
           /\ Unused' = Unused
BY DEF QueueOK, CancelIdle, Unused

\* A hook call that does not end the request, and the first half of scheduleIdle.
LEMMA OpenType ==
    ASSUME QueueOK, Enough, NEW r \in Requests,
           \/ OnRequestStart(r) \/ ShowStart(r) \/ OnToken(r) \/ OnThinking(r)
           \/ CancelPrevious(r)
    PROVE  QueueOK' /\ Enough'
<1>1. CASE OnRequestStart(r)
  <2>1. call[r] \in Calls \ {"ending", "scheduling"} /\ Continue(r, "starting")
        /\ CancelIdle /\ UNCHANGED <<cmdCh, held>>
    BY <1>1 DEF OnRequestStart, Free, Calls
  <2>2. Pending' \subseteq Pending
    BY <2>1 DEF Pending, Continue, QueueOK
  <2> QED
    BY <2>1, <2>2, CancelType, EnoughFrame DEF QueueOK, Continue, Calls, AtMostOne
<1>2. CASE ShowStart(r) \/ OnThinking(r)
  <2>1. /\ Continue(r, "open") /\ UNCHANGED <<held, timer, idleCancel>>
        /\ cmdCh' = {} \/ cmdCh' = cmdCh
    BY <1>2 DEF ShowStart, OnThinking, Emptied, idleVars
  <2>2. Pending' \subseteq Pending /\ Unused' = Unused
    BY <2>1 DEF Pending, Continue, QueueOK, Unused
  <2> QED
    BY <2>1, <2>2, EnoughFrame DEF QueueOK, Continue, Calls, AtMostOne
<1>3. CASE OnToken(r)
  <2>1. /\ Continue(r, "open") /\ UNCHANGED <<held, timer, idleCancel>>
        /\ cmdCh' = {[by |-> r, before |-> {}]} \/ cmdCh' = cmdCh
    BY <1>3 DEF OnToken, Offered, idleVars
  <2>2. Pending' \subseteq Pending /\ Unused' = Unused
    BY <2>1 DEF Pending, Continue, QueueOK, Unused
  <2>3. [by |-> r, before |-> {}] \in Update
    BY DEF Update
  <2> QED
    BY <2>1, <2>2, <2>3, EnoughFrame DEF QueueOK, Continue, Calls, AtMostOne
<1>4. CASE CancelPrevious(r)
  <2>1. call[r] = "ending" /\ Continue(r, "scheduling")
        /\ CancelIdle /\ UNCHANGED <<cmdCh, held>>
    BY <1>4 DEF CancelPrevious
  <2>2. Pending' \subseteq Pending
    BY <2>1 DEF Pending, Continue, QueueOK
  <2> QED
    BY <2>1, <2>2, CancelType, EnoughFrame DEF QueueOK, Continue, Calls, AtMostOne
<1> QED
  BY <1>1, <1>2, <1>3, <1>4

\* An ending takes one of the timers that are left.
LEMMA EndType ==
    ASSUME QueueOK, Enough, NEW r \in Requests, NEW event, ShowEnd(r, event)
    PROVE  QueueOK' /\ Enough'
<1>1. PICK next \in {"ending", "ended"} : Continue(r, next)
  BY DEF ShowEnd
<1>2. /\ UNCHANGED <<held, timer, idleCancel>> /\ cmdCh' = {}
      /\ Cardinality(Pending) < Cardinality(Unused)
  BY DEF ShowEnd, idleVars, Emptied, TimerLeft, Pending
<1>3. QueueOK'
  BY <1>1, <1>2 DEF QueueOK, Continue, Calls, AtMostOne
<1>4. Unused' = Unused
  BY <1>2 DEF Unused
<1>5. Pending' \subseteq Pending \cup {r}
  BY <1>1 DEF Pending, Continue, QueueOK
<1>6. /\ IsFiniteSet(Pending \cup {r})
      /\ Cardinality(Pending \cup {r}) \in Nat
      /\ Cardinality(Pending \cup {r}) <= Cardinality(Pending) + 1
  <2>1. CASE r \in Pending
    <3>1. Pending \cup {r} = Pending
      BY <2>1
    <3> QED
      BY <3>1, PendingFinite
  <2>2. CASE r \notin Pending
    BY <2>2, PendingFinite, FS_AddElement
  <2> QED
    BY <2>1, <2>2
<1>7. Cardinality(Pending') <= Cardinality(Pending \cup {r}) /\ Cardinality(Pending') \in Nat
  BY <1>5, <1>6, FS_Subset, FS_CardinalityType
<1> QED
  BY <1>2, <1>3, <1>4, <1>6, <1>7, PendingFinite DEF Enough

\* What is noted of an update leaves it one.
LEMMA AddBeforeType ==
    ASSUME NEW U \in SUBSET Update, AtMostOne(U), NEW t \in Timers
    PROVE  AddBefore(U, t) \in SUBSET Update /\ AtMostOne(AddBefore(U, t))
BY DEF AddBefore, Update, AtMostOne

LEMMA ScheduleType ==
    ASSUME QueueOK, Enough, NEW r \in Requests, Schedule(r)
    PROVE  QueueOK' /\ Enough'
<1> DEFINE t == CHOOSE t \in Unused : TRUE
<1>1. /\ r \in Pending /\ r \notin Pending' /\ Pending' = Pending \ {r}
      /\ Continue(r, "ended")
  BY DEF Schedule, Continue, Pending, QueueOK
<1>2. /\ Cardinality(Pending') = Cardinality(Pending) - 1
      /\ Cardinality(Pending) >= 1
  <2>1. Cardinality(Pending \ {r}) = Cardinality(Pending) - 1
    BY <1>1, PendingFinite, FS_RemoveElement
  <2>2. Cardinality(Pending) # 0
    BY <1>1, PendingFinite, FS_EmptySet
  <2> QED
    BY <1>1, <2>1, <2>2, PendingFinite
<1>3. Unused # {}
  BY <1>2, PendingFinite, FS_EmptySet DEF Enough
<1>4. t \in Unused /\ t \in Timers
  BY <1>3 DEF Unused
<1>5. /\ timer' = [timer EXCEPT ![t] = "waiting"]
      /\ idleCancel' = {t}
      /\ cmdCh' = AddBefore(cmdCh, t)
      /\ held' = AddBefore(held, t)
  BY DEF Schedule, Scheduled
<1> HIDE DEF t
<1>6. Unused' = Unused \ {t}
  BY <1>4, <1>5 DEF Unused, QueueOK
<1>7. Cardinality(Unused') = Cardinality(Unused) - 1
  BY <1>4, <1>6, PendingFinite, FS_RemoveElement
<1>8. QueueOK'
  BY <1>1, <1>4, <1>5, AddBeforeType DEF QueueOK, Continue, Calls, AtMostOne
<1> QED
  BY <1>2, <1>7, <1>8, PendingFinite DEF Enough

LEMMA TypeNext == TypeOK /\ Enough /\ [Next]_vars => TypeOK' /\ Enough'
<1> SUFFICES ASSUME TypeOK, Enough, [Next]_vars PROVE TypeOK' /\ Enough'
  OBVIOUS
<1>1. LifecycleTypeOK /\ JobsOK /\ QueueOK
  BY TypeParts
<1>2. ASSUME LifecycleTypeOK', JobsOK', QueueOK', Enough',
             UNCHANGED <<mapped, lampVars>>
      PROVE  TypeOK' /\ Enough'
  BY <1>2 DEF TypeOK, JobsOK, QueueOK, lampVars
<1>3. ASSUME NEW r \in Requests, HandlerStep(r)
      PROVE  TypeOK' /\ Enough'
  <2>1. r \in Actors
    BY DEF Actors
  <2>2. CASE Send(r)
    BY <2>1, <2>2, SendType
  <2>3. CASE OnRequestStart(r) \/ OnToken(r)
    <3>1. UNCHANGED <<mapped, job, lampVars>> /\ (Start(r) \/ Token(r))
      BY <2>3 DEF OnRequestStart, OnToken
    <3>2. LifecycleTypeOK' /\ JobsOK'
      BY <1>1, <3>1, LifecycleType DEF JobsOK
    <3> QED
      BY <1>1, <1>2, <2>3, <3>1, <3>2, OpenType
  <2>4. CASE ShowStart(r) \/ OnThinking(r)
    <3>1. /\ UNCHANGED <<mapped, lifecycleVars, lampVars>>
          /\ Show(r, "request_start") \/ Show(r, "thinking_content")
      BY <2>4 DEF ShowStart, OnThinking
    <3>2. LifecycleTypeOK' /\ JobsOK'
      BY <1>1, <2>1, <3>1, ShowType DEF Events, LifecycleTypeOK, lifecycleVars
    <3> QED
      BY <1>1, <1>2, <2>4, <3>1, <3>2, OpenType
  <2>5. CASE OnRequestComplete(r) \/ OnError(r)
    <3>1. /\ UNCHANGED <<mapped, lampVars>> /\ (Complete(r) \/ Fail(r))
          /\ ShowEnd(r, "request_complete") \/ ShowEnd(r, "error")
      BY <2>5 DEF OnRequestComplete, OnError, ShowEnd
    <3>2. LifecycleTypeOK' /\ JobsOK'
      BY <1>1, <2>1, <3>1, LifecycleType, ShowType DEF Events, ShowEnd
    <3> QED
      BY <1>1, <1>2, <3>1, <3>2, EndType
  <2>6. CASE CancelPrevious(r) \/ Schedule(r)
    <3>1. UNCHANGED <<mapped, lifecycleVars, job, lampVars>>
      BY <2>6 DEF CancelPrevious, Schedule
    <3>2. LifecycleTypeOK' /\ JobsOK'
      BY <1>1, <3>1 DEF LifecycleTypeOK, lifecycleVars, JobsOK
    <3> QED
      BY <1>1, <1>2, <2>6, <3>1, <3>2, OpenType, ScheduleType
  <2> QED
    BY <1>3, <2>2, <2>3, <2>4, <2>5, <2>6 DEF HandlerStep, CallStep
<1>4. ASSUME UNCHANGED <<mapped, lifecycleVars, call, lampVars>>, JobsOK',
             /\ cmdCh' \in SUBSET Update /\ AtMostOne(cmdCh')
             /\ held' \in SUBSET Update /\ AtMostOne(held')
             /\ timer' \in [Timers -> {"unused", "waiting", "cancelled", "gone"}]
             /\ idleCancel' = idleCancel,
             Unused' = Unused
      PROVE  TypeOK' /\ Enough'
  <2>1. LifecycleTypeOK' /\ QueueOK'
    BY <1>1, <1>4 DEF LifecycleTypeOK, lifecycleVars, QueueOK
  <2>2. Enough'
    BY <1>4, EnoughFrame DEF Pending
  <2> QED
    BY <1>2, <1>4, <2>1, <2>2
<1>5. ASSUME NEW t \in Timers, TimerStep(t)
      PROVE  TypeOK' /\ Enough'
  <2>1. t \in Actors
    BY DEF Actors
  <2>2. CASE Send(t)
    BY <2>1, <2>2, SendType
  <2>3. CASE TimerFires(t) \/ TimerStops(t)
    <3>1. /\ timer[t] # "unused" /\ timer' = [timer EXCEPT ![t] = "gone"]
          /\ UNCHANGED <<mapped, lifecycleVars, call, lampVars, cmdCh, held, idleCancel>>
          /\ Show(t, "idle") \/ UNCHANGED job
      BY <2>3 DEF TimerFires, TimerStops
    <3>2. JobsOK'
      BY <1>1, <2>1, <3>1, ShowType DEF Events, JobsOK
    <3>3. Unused' = Unused
      BY <1>1, <3>1 DEF Unused, QueueOK
    <3> QED
      BY <1>1, <1>4, <3>1, <3>2, <3>3 DEF QueueOK
  <2> QED
    BY <1>5, <2>2, <2>3 DEF TimerStep
<1>6. CASE ExecutorStep
  <2>1. Executor \in Actors
    BY DEF Actors
  <2>2. CASE Send(Executor)
    BY <2>1, <2>2, SendType
  <2>3. CASE ExecutorTake \/ ExecutorSleep
    <3>1. /\ UNCHANGED <<mapped, lifecycleVars, call, lampVars, timer, idleCancel>>
          /\ Show(Executor, "token") \/ UNCHANGED job
          /\ \/ held' = cmdCh /\ cmdCh' = {}
             \/ held' = {} /\ cmdCh' = cmdCh
      BY <2>3 DEF ExecutorTake, ExecutorSleep, idleVars
    <3>2. JobsOK'
      BY <1>1, <2>1, <3>1, ShowType DEF Events, JobsOK
    <3>3. Unused' = Unused
      BY <3>1 DEF Unused
    <3>4. /\ cmdCh' \in SUBSET Update /\ AtMostOne(cmdCh')
          /\ held' \in SUBSET Update /\ AtMostOne(held')
      BY <1>1, <3>1 DEF QueueOK, AtMostOne
    <3> QED
      BY <1>1, <1>4, <3>1, <3>2, <3>3, <3>4 DEF QueueOK
  <2> QED
    BY <1>6, <2>2, <2>3 DEF ExecutorStep
<1>7. CASE Disconnect \/ UNCHANGED vars
  <2>1. /\ UNCHANGED <<mapped, lifecycleVars, call, job, cmdCh, held, timer,
                       idleCancel, lamp>>
        /\ connected' \in {FALSE, connected}
    BY <1>7 DEF Disconnect, vars, idleVars
  <2>2. Enough'
    BY <2>1, EnoughFrame DEF Pending, Unused
  <2> QED
    BY <2>1, <2>2 DEF TypeOK, LifecycleTypeOK, lifecycleVars
<1> QED
  BY <1>3, <1>5, <1>6, <1>7 DEF Next

LEMMA InitTypes == Init => TypeOK /\ Enough
<1> SUFFICES ASSUME Init PROVE TypeOK /\ Enough
  OBVIOUS
<1>1. LifecycleTypeOK
  BY MaxTokensAssumption DEF Init, LifecycleInit, LifecycleTypeOK, Stages
<1>2. JobsOK /\ QueueOK
  BY DEF Init, JobsOK, QueueOK, AtMostOne, Calls
<1>3. lamp \in [Devices -> Lamp]
  BY DEF Init, Lamp, Events
<1>4. Pending = {}
  BY DEF Init, Pending
<1>5. Enough
  BY <1>4, PendingFinite, FS_EmptySet DEF Enough
<1> QED
  BY <1>1, <1>2, <1>3, <1>5, TypeParts DEF Init

\* Every reachable state is of its types: the channel holds one update at most,
\* the executor and cancelIdle have one each at most, whichever goroutines run
\* and whenever the connection is lost (openrgb.go:30, 61).
THEOREM TypeCorrect == Spec => []TypeOK
<1> QED
  BY InitTypes, TypeNext, PTL DEF Spec

-----------------------------------------------------------------------------
(* The lamps.                                                              *)

\* The connection is open and the endings and idle are mapped.
Showing == connected /\ {"request_complete", "error", "idle"} \subseteq mapped

\* A request that is to schedule a return to idle, now or after its ending.
Busy == \E r \in Requests : call[r] \in {"starting", "open", "ending", "scheduling"}

Waiting == \E t \in Timers : timer[t] = "waiting"

Ended == \E r \in Requests : call[r] = "ended"

\* Who sends what: a handler within a call, the executor the update it holds,
\* a timer the idle effect.
Senders ==
    /\ \A r \in Requests : job[r] # {} => call[r] \in {"open", "ending"}
    /\ job[Executor] # {} => held # {}
    /\ \A j \in job[Executor] : j.effect = "token"
    /\ \A t \in Timers : \A j \in job[t] : j.effect = "idle"

\* An update that is still to be shown will be followed by a return to idle.
Watched ==
    \A u \in cmdCh \cup held : Busy \/ \E t \in u.before : timer[t] = "waiting"

\* A return to idle has yet to reset the LEDs of the device, or its mode.
WillReset(d) == \E t \in Timers : \E j \in job[t] : j.dev <= d

WillSetMode(d) ==
    \E t \in Timers : \E j \in job[t] : j.dev < d \/ (j.dev = d /\ ~j.custom)

\* What is not idle is going to be.
Returning ==
    \A d \in Devices :
        IF IdleBreathes(d)
        THEN lamp[d].mode # "idle" => Busy \/ Waiting \/ WillReset(d)
        ELSE /\ lamp[d].leds # "idle" => Busy \/ Waiting \/ WillReset(d)
             /\ lamp[d].mode # "custom" => Busy \/ Waiting \/ WillSetMode(d)

LampInv == Senders /\ Watched /\ (Ended => Returning)

\* While a request is in a call nothing is said but who sends.
LEMMA BusyLamps == Senders' /\ Busy' => LampInv'
BY DEF LampInv, Watched, Returning

\* A handler that continues with its request not ended.
LEMMA BusyContinue ==
    ASSUME QueueOK, NEW r \in Requests,
           NEW next \in {"starting", "open", "ending", "scheduling"},
           Continue(r, next)
    PROVE  Busy'
BY DEF Busy, Continue, QueueOK

\* A handler that shows an effect and goes on, or shows nothing.
LEMMA HandlerSenders ==
    ASSUME TypeOK, Senders, NEW r \in Requests, NEW event,
           NEW next \in {"open", "ending"}, Continue(r, next), Show(r, event),
           UNCHANGED held
    PROVE  Senders'
<1>1. /\ \A q \in Requests \ {r} : job'[q] = job[q] /\ call'[q] = call[q]
      /\ call'[r] = next
      /\ job'[Executor] = job[Executor]
      /\ \A t \in Timers : job'[t] = job[t]
  BY ActorsAssumption DEF Show, Continue, TypeOK, Actors
<1> QED
  BY <1>1 DEF Senders

LEMMA SilentSenders ==
    ASSUME TypeOK, Senders, NEW r \in Requests, NEW next, Continue(r, next),
           job[r] = {}, UNCHANGED job, held # {} => held' # {}
    PROVE  Senders'
<1>1. \A q \in Requests \ {r} : call'[q] = call[q]
  BY DEF Continue, TypeOK
<1> QED
  BY <1>1 DEF Senders

\* Every step of a handler but the one that ends its last call.
LEMMA HandlerLamps ==
    ASSUME TypeOK, Senders, Showing, NEW r \in Requests, HandlerStep(r),
           ~Schedule(r), ~Send(r)
    PROVE  LampInv'
<1>1. QueueOK
  BY TypeParts
<1>2. CASE OnRequestStart(r) \/ OnToken(r)
  <2>1. PICK next \in {"starting", "open"} : Continue(r, next)
    BY <1>2 DEF OnRequestStart, OnToken
  <2>2. UNCHANGED <<job, held>> /\ job[r] = {}
    BY <1>2 DEF OnRequestStart, OnToken, Free
  <2> QED
    BY <1>1, <2>1, <2>2, SilentSenders, BusyContinue, BusyLamps
<1>3. CASE ShowStart(r) \/ OnThinking(r)
  <2>1. PICK event : Show(r, event)
    BY <1>3 DEF ShowStart, OnThinking
  <2>2. Continue(r, "open") /\ UNCHANGED held
    BY <1>3 DEF ShowStart, OnThinking
  <2> QED
    BY <1>1, <2>1, <2>2, HandlerSenders, BusyContinue, BusyLamps
<1>4. CASE OnRequestComplete(r) \/ OnError(r)
  <2>1. PICK event \in {"request_complete", "error"} : ShowEnd(r, event)
    BY <1>4 DEF OnRequestComplete, OnError
  <2>2. Continue(r, "ending") /\ Show(r, event) /\ UNCHANGED held
    BY <2>1 DEF ShowEnd, Showing
  <2> QED
    BY <1>1, <2>2, HandlerSenders, BusyContinue, BusyLamps
<1>5. CASE CancelPrevious(r)
  <2>1. Continue(r, "scheduling") /\ job[r] = {} /\ UNCHANGED <<job, held>>
    BY <1>5 DEF CancelPrevious
  <2> QED
    BY <1>1, <2>1, SilentSenders, BusyContinue, BusyLamps
<1> QED
  BY <1>2, <1>3, <1>4, <1>5 DEF HandlerStep, CallStep

\* The end of the last call leaves a timer waiting, which every update that is
\* still to be shown is noted to precede.
LEMMA ScheduleLamps ==
    ASSUME TypeOK, Enough, Senders, NEW r \in Requests, Schedule(r)
    PROVE  LampInv'
<1> DEFINE t == CHOOSE t \in Unused : TRUE
<1>1. t \in Unused /\ t \in Timers
  <2>1. r \in Pending
    BY DEF Schedule, Pending
  <2>2. Cardinality(Pending) # 0 /\ Cardinality(Unused) # 0
    BY <2>1, PendingFinite, FS_EmptySet DEF Enough
  <2>3. Unused # {}
    BY <2>2, PendingFinite, FS_EmptySet
  <2> QED
    BY <2>3 DEF Unused
<1>2. /\ timer' = [timer EXCEPT ![t] = "waiting"]
      /\ cmdCh' = AddBefore(cmdCh, t) /\ held' = AddBefore(held, t)
      /\ call[r] = "scheduling" /\ Continue(r, "ended") /\ UNCHANGED job
  BY DEF Schedule, Scheduled
<1> HIDE DEF t
<1>3. timer'[t] = "waiting"
  BY <1>1, <1>2 DEF TypeOK
<1>4. Senders'
  <2>1. job[r] = {}
    BY <1>2 DEF Senders
  <2>2. held # {} => held' # {}
    BY <1>2 DEF AddBefore
  <2> QED
    BY <1>2, <2>1, <2>2, SilentSenders
<1>5. Watched'
  <2>1. \A U \in SUBSET Update : \A u \in AddBefore(U, t) : t \in u.before
    BY DEF AddBefore, Update
  <2>2. \A u \in cmdCh' \cup held' : t \in u.before
    BY <1>2, <2>1 DEF TypeOK
  <2> QED
    BY <1>3, <2>2 DEF Watched
<1>6. Waiting'
  BY <1>1, <1>3 DEF Waiting
<1> QED
  BY <1>4, <1>5, <1>6 DEF LampInv, Returning

\* A command changes one device, and the effect its sender has yet to send.
LEMMA SendEffect ==
    ASSUME TypeOK, Showing, NEW a \in Actors, Send(a)
    PROVE  \E j \in job[a] :
              /\ j \in Job
              /\ \A d \in Devices \ {j.dev} : lamp'[d] = lamp[d]
              /\ lamp'[j.dev] = Applied(lamp[j.dev], j)
              /\ \A b \in Actors \ {a} : job'[b] = job[b]
              /\ job'[a] = IF Breathes(j) \/ j.custom THEN NextDevice(j)
                           ELSE {[j EXCEPT !.custom = TRUE]}
              /\ UNCHANGED <<call, cmdCh, held, timer>>
<1>1. PICK j \in job[a] :
        /\ lamp' = IF connected THEN [lamp EXCEPT ![j.dev] = Applied(@, j)] ELSE lamp
        /\ job' = [job EXCEPT ![a] =
              IF Breathes(j) \/ j.custom \/ ~connected THEN NextDevice(j)
              ELSE {[j EXCEPT !.custom = TRUE]}]
        /\ UNCHANGED <<call, cmdCh, held, timer>>
  BY DEF Send
<1>2. j \in Job /\ j.dev \in Devices
  BY DEF TypeOK, Job
<1>3. /\ \A d \in Devices \ {j.dev} : lamp'[d] = lamp[d]
      /\ lamp'[j.dev] = Applied(lamp[j.dev], j)
  BY <1>1, <1>2 DEF TypeOK, Showing
<1>4. /\ \A b \in Actors \ {a} : job'[b] = job[b]
      /\ job'[a] = IF Breathes(j) \/ j.custom THEN NextDevice(j)
                   ELSE {[j EXCEPT !.custom = TRUE]}
  BY <1>1 DEF TypeOK, Showing
<1> QED
  BY <1>1, <1>2, <1>3, <1>4

\* The rest of an effect is the same effect.
LEMMA SendKeepsEffect ==
    ASSUME TypeOK, Senders, Showing, NEW a \in Actors, Send(a)
    PROVE  Senders'
<1>1. PICK j \in job[a] :
        /\ j \in Job
        /\ \A b \in Actors \ {a} : job'[b] = job[b]
        /\ job'[a] = IF Breathes(j) \/ j.custom THEN NextDevice(j)
                     ELSE {[j EXCEPT !.custom = TRUE]}
        /\ UNCHANGED <<call, cmdCh, held, timer>>
  BY SendEffect
<1>2. \A k \in job'[a] : k.effect = j.effect
  BY <1>1 DEF NextDevice, Job
<1>3. job[a] # {}
  BY <1>1
<1>4. \A b \in Actors : \A k \in job'[b] : \E i \in job[b] : k.effect = i.effect
  BY <1>1, <1>2
<1>5. \A b \in Actors : job'[b] # {} => job[b] # {}
  BY <1>1, <1>3
<1>6. Requests \subseteq Actors /\ Timers \subseteq Actors /\ Executor \in Actors
  BY DEF Actors
<1> QED
  BY <1>1, <1>4, <1>5, <1>6 DEF Senders

\* A handler sends within a call, and the executor what will be followed by a
\* return to idle.
LEMMA OthersSend ==
    ASSUME TypeOK, LampInv, Showing, NEW a \in Requests \cup {Executor}, Send(a)
    PROVE  LampInv'
<1>1. a \in Actors
  BY DEF Actors
<1>2. UNCHANGED <<call, cmdCh, held, timer>> /\ job[a] # {}
  BY DEF Send
<1>3. Senders'
  BY <1>1, SendKeepsEffect DEF LampInv
<1>4. Busy \/ Waiting
  <2>1. CASE a \in Requests
    BY <1>2, <2>1 DEF LampInv, Senders, Busy
  <2>2. CASE a = Executor
    <3>1. PICK u \in held : Busy \/ \E t \in u.before : timer[t] = "waiting"
      BY <1>2, <2>2 DEF LampInv, Senders, Watched
    <3>2. u.before \subseteq Timers
      BY DEF TypeOK, Update
    <3> QED
      BY <3>1, <3>2 DEF Waiting
  <2> QED
    BY <2>1, <2>2
<1>5. Watched' /\ (Busy' \/ Waiting')
  BY <1>2, <1>4 DEF LampInv, Watched, Busy, Waiting
<1> QED
  BY <1>3, <1>5 DEF LampInv, Returning

\* A return to idle resets a device, with two commands unless it makes it
\* breathe, and goes on to the next.
LEMMA TimerSend ==
    ASSUME TypeOK, LampInv, Showing, NEW t \in Timers, Send(t)
    PROVE  LampInv'
<1>1. t \in Actors /\ Timers \subseteq Actors
  BY DEF Actors
<1>2. PICK j \in job[t] :
        /\ j \in Job
        /\ \A d \in Devices \ {j.dev} : lamp'[d] = lamp[d]
        /\ lamp'[j.dev] = Applied(lamp[j.dev], j)
        /\ \A b \in Actors \ {t} : job'[b] = job[b]
        /\ job'[t] = IF Breathes(j) \/ j.custom THEN NextDevice(j)
                     ELSE {[j EXCEPT !.custom = TRUE]}
        /\ UNCHANGED <<call, cmdCh, held, timer>>
  BY <1>1, SendEffect
<1>3. /\ j.effect = "idle" /\ (Breathes(j) <=> IdleBreathes(j.dev))
      /\ j.dev \in Devices /\ j.custom \in BOOLEAN
      /\ job[t] = {j}
  BY <1>1, <1>2 DEF LampInv, Senders, Breathes, IdleBreathes, Job, TypeOK, AtMostOne
<1>4. Senders'
  BY <1>1, SendKeepsEffect DEF LampInv
<1>5. Watched'
  BY <1>2 DEF LampInv, Watched, Busy
<1>6. /\ Busy' <=> Busy
      /\ Waiting' <=> Waiting
      /\ Ended' <=> Ended
  BY <1>2 DEF Busy, Waiting, Ended
<1>7. Devices \subseteq Nat
  BY DEF Devices
<1>8. lamp[j.dev] \in Lamp
  BY <1>3 DEF TypeOK
<1>9. CASE ~j.custom /\ ~Breathes(j)
  <2>1. /\ lamp'[j.dev].mode = "custom" /\ lamp'[j.dev].leds = lamp[j.dev].leds
        /\ job'[t] = {[j EXCEPT !.custom = TRUE]}
    BY <1>2, <1>3, <1>8, <1>9 DEF Applied, Lamp
  <2>2. PICK k \in job'[t] : k.dev = j.dev /\ k.custom = TRUE
    BY <1>2, <2>1 DEF Job
  <2>3. \A d \in Devices : WillReset(d) => WillReset(d)'
    BY <1>1, <1>2, <1>3, <2>2 DEF WillReset
  <2>4. \A d \in Devices \ {j.dev} : WillSetMode(d) => WillSetMode(d)'
    BY <1>1, <1>2, <1>3, <2>2 DEF WillSetMode
  <2>5. Ended => Returning'
    BY <1>2, <1>3, <1>6, <1>9, <2>1, <2>3, <2>4 DEF LampInv, Returning, IdleBreathes
  <2> QED
    BY <1>4, <1>5, <1>6, <2>5 DEF LampInv
<1>10. CASE j.custom \/ Breathes(j)
  <2>1. IF Breathes(j) THEN lamp'[j.dev].mode = "idle"
        ELSE lamp'[j.dev].leds = "idle" /\ lamp'[j.dev].mode = lamp[j.dev].mode
    BY <1>2, <1>3, <1>8, <1>10 DEF Applied, Lamp
  <2>2. job'[t] = NextDevice(j)
    BY <1>2, <1>10
  <2>3. ASSUME NEW d \in Devices, d > j.dev
        PROVE  \E k \in job'[t] : k.dev \in Nat /\ k.dev <= d /\ ~k.custom
    <3>1. j.dev # NumDevices /\ j.dev + 1 <= d
      BY <1>3, <2>3, NumDevicesAssumption DEF Devices
    <3>2. [j EXCEPT !.dev = j.dev + 1, !.custom = FALSE] \in job'[t]
      BY <2>2, <3>1 DEF NextDevice
    <3>3. /\ [j EXCEPT !.dev = j.dev + 1, !.custom = FALSE].dev = j.dev + 1
          /\ [j EXCEPT !.dev = j.dev + 1, !.custom = FALSE].custom = FALSE
      BY <1>2 DEF Job
    <3>4. j.dev + 1 \in Nat
      <4>1. j.dev \in Nat
        BY <1>3, <1>7
      <4> QED
        BY <4>1
    <3> QED
      BY <3>1, <3>2, <3>3, <3>4
  <2>4. \A d \in Devices \ {j.dev} : WillReset(d) => WillReset(d)'
    <3> SUFFICES ASSUME NEW d \in Devices, d # j.dev, WillReset(d)
                 PROVE  WillReset(d)'
      OBVIOUS
    <3>1. PICK s \in Timers : \E i \in job[s] : i.dev <= d
      BY DEF WillReset
    <3>2. CASE s # t
      BY <1>1, <1>2, <3>1, <3>2 DEF WillReset
    <3>3. CASE s = t
      <4>1. d > j.dev
        BY <1>3, <1>7, <3>1, <3>3
      <4> QED
        BY <2>3, <4>1 DEF WillReset
    <3> QED
      BY <3>2, <3>3
  <2>5. \A d \in Devices :
           WillSetMode(d) /\ (d # j.dev \/ ~Breathes(j)) => WillSetMode(d)'
    <3> SUFFICES ASSUME NEW d \in Devices, WillSetMode(d), d # j.dev \/ ~Breathes(j)
                 PROVE  WillSetMode(d)'
      OBVIOUS
    <3>1. PICK s \in Timers : \E i \in job[s] : i.dev < d \/ (i.dev = d /\ ~i.custom)
      BY DEF WillSetMode
    <3>2. CASE s # t
      BY <1>1, <1>2, <3>1, <3>2 DEF WillSetMode
    <3>3. CASE s = t
      <4>1. d > j.dev
        BY <1>3, <1>7, <1>10, <3>1, <3>3
      <4>2. PICK k \in job'[t] : k.dev \in Nat /\ k.dev <= d /\ ~k.custom
        BY <2>3, <4>1
      <4> QED
        BY <1>7, <4>2 DEF WillSetMode
    <3> QED
      BY <3>2, <3>3
  <2>6. Ended => Returning'
    BY <1>2, <1>3, <1>6, <2>1, <2>4, <2>5 DEF LampInv, Returning, IdleBreathes
  <2> QED
    BY <1>4, <1>5, <1>6, <2>6 DEF LampInv
<1> QED
  BY <1>9, <1>10

\* A timer that fires is not one that an update is still noted to precede, and
\* it has every device before it.
LEMMA FiresLamps ==
    ASSUME TypeOK, LampInv, Showing, NEW t \in Timers, TimerFires(t)
    PROVE  LampInv'
<1> DEFINE j == [effect |-> "idle", dev |-> 1, custom |-> FALSE]
<1>1. /\ timer' = [timer EXCEPT ![t] = "gone"]
      /\ \A u \in cmdCh \cup held : t \notin u.before
      /\ UNCHANGED <<call, cmdCh, held, lamp>>
  BY DEF TimerFires, HeldLongEnough, lampVars
<1>2. job' = [job EXCEPT ![t] = {j}]
  BY DEF TimerFires, Show, Showing
<1>3. /\ \A b \in Actors \ {t} : job'[b] = job[b]
      /\ job'[t] = {j}
      /\ t \in Actors /\ Requests \subseteq Actors /\ Timers \subseteq Actors
      /\ Executor \in Actors /\ Executor # t /\ t \notin Requests
  BY <1>2, ActorsAssumption DEF TypeOK, Actors
<1>4. Senders'
  BY <1>1, <1>3 DEF LampInv, Senders
<1>5. Watched'
  <2>1. \A s \in Timers \ {t} : timer'[s] = timer[s]
    BY <1>1 DEF TypeOK
  <2>2. \A u \in cmdCh \cup held : u.before \subseteq Timers \ {t}
    BY <1>1 DEF TypeOK, Update
  <2> QED
    BY <1>1, <2>1, <2>2 DEF LampInv, Watched, Busy
<1>6. \A d \in Devices : WillReset(d)' /\ WillSetMode(d)'
  <2>1. \A d \in Devices : 1 <= d /\ (1 < d \/ 1 = d)
    BY DEF Devices
  <2>2. j \in job'[t] /\ j.dev = 1 /\ ~j.custom
    BY <1>3
  <2> QED
    BY <2>1, <2>2 DEF WillReset, WillSetMode
<1> QED
  BY <1>4, <1>5, <1>6 DEF LampInv, Returning

LEMMA StopsLamps ==
    ASSUME TypeOK, LampInv, NEW t \in Timers, TimerStops(t)
    PROVE  LampInv'
<1>1. /\ timer[t] = "cancelled" /\ timer' = [timer EXCEPT ![t] = "gone"]
      /\ UNCHANGED <<call, job, cmdCh, held, lamp>>
  BY DEF TimerStops, lampVars
<1>2. \A s : s \in Timers => (timer'[s] = "waiting" <=> timer[s] = "waiting")
  BY <1>1 DEF TypeOK
<1>3. \A u \in cmdCh \cup held : u.before \subseteq Timers
  BY DEF TypeOK, Update
<1>4. Senders' /\ Watched'
  BY <1>1, <1>2, <1>3 DEF LampInv, Senders, Watched, Busy
<1>5. Ended' => Returning'
  BY <1>1, <1>2
  DEF LampInv, Ended, Returning, Busy, Waiting, WillReset, WillSetMode
<1> QED
  BY <1>4, <1>5 DEF LampInv

LEMMA ExecutorLamps ==
    ASSUME TypeOK, LampInv, ExecutorTake \/ ExecutorSleep
    PROVE  LampInv'
<1>1. UNCHANGED <<call, timer, lamp>>
  BY DEF ExecutorTake, ExecutorSleep, lampVars, idleVars
<1>2. /\ \A b \in Actors \ {Executor} : job'[b] = job[b]
      /\ job'[Executor] # {} => held' # {}
      /\ \A j \in job'[Executor] : j.effect = "token"
      /\ cmdCh' \cup held' \subseteq cmdCh \cup held
  BY DEF ExecutorTake, ExecutorSleep, Show, TypeOK, Actors
<1>3. Requests \subseteq Actors \ {Executor} /\ Timers \subseteq Actors \ {Executor}
  BY ActorsAssumption DEF Actors
<1>4. Senders' /\ Watched'
  BY <1>1, <1>2, <1>3 DEF LampInv, Senders, Watched, Busy
<1>5. Ended' => Returning'
  BY <1>1, <1>2, <1>3
  DEF LampInv, Ended, Returning, Busy, Waiting, WillReset, WillSetMode
<1> QED
  BY <1>4, <1>5 DEF LampInv

\* What the connection and the mapping of events make of the invariant.
LampsInv == Showing => LampInv

LEMMA LampsNext == TypeOK /\ Enough /\ LampsInv /\ [Next]_vars => LampsInv'
<1> SUFFICES ASSUME TypeOK, Enough, LampsInv, [Next]_vars, Showing'
             PROVE  LampInv'
  BY DEF LampsInv
<1>1. Showing
  BY DEF Next, HandlerStep, CallStep, TimerStep, ExecutorStep, OnRequestStart,
     ShowStart, OnToken, OnThinking, OnRequestComplete, OnError, ShowEnd,
     CancelPrevious, Schedule, Send, TimerFires, TimerStops, ExecutorTake,
     ExecutorSleep, Disconnect, Showing, vars, lampVars
<1>2. LampInv /\ Senders
  BY <1>1 DEF LampsInv, LampInv
<1>3. ASSUME NEW r \in Requests, HandlerStep(r)
      PROVE  LampInv'
  BY <1>1, <1>2, <1>3, OthersSend, ScheduleLamps, HandlerLamps
<1>4. ASSUME NEW t \in Timers, TimerStep(t)
      PROVE  LampInv'
  BY <1>1, <1>2, <1>4, TimerSend, FiresLamps, StopsLamps DEF TimerStep
<1>5. CASE ExecutorStep
  BY <1>1, <1>2, <1>5, OthersSend, ExecutorLamps DEF ExecutorStep
<1>6. CASE Disconnect \/ UNCHANGED vars
  <2>1. UNCHANGED <<call, job, cmdCh, held, timer, lamp>>
    BY <1>6 DEF Disconnect, vars, idleVars
  <2> QED
    BY <1>2, <2>1
    DEF LampInv, Senders, Watched, Ended, Returning, Busy, Waiting, WillReset,
        WillSetMode
<1> QED
  BY <1>3, <1>4, <1>5, <1>6 DEF Next

\* When requests have ended, none is in a call, and no return to idle waits or
\* is under way, all lamps are idle and nothing is left that would change them.
IdleWhenOver ==
    (Quiet /\ \A t \in Timers : timer[t] # "waiting" /\ job[t] = {})
        => /\ AllIdle
           /\ \A a \in Actors : job[a] = {}
           /\ cmdCh = {} /\ held = {}

\* The safety half of ReturnsToIdle, for any number of requests, timers and
\* devices: however the commands of the effects were mixed and whichever timers
\* were cancelled or lost, no lamp is left behind and no token update is kept
\* that would be shown later (openrgb.go:28, 266, 300, 318).
THEOREM NoLampLeftBehind == Spec => []IdleWhenOver
<1>1. Init => TypeOK /\ Enough
  BY InitTypes
<1>2. Init => LampsInv
  BY DEF Init, LampsInv, LampInv, Senders, Watched, Ended, Actors
<1>3. TypeOK /\ LampsInv => IdleWhenOver
  <2> SUFFICES ASSUME TypeOK, LampsInv, Quiet,
                      \A t \in Timers : timer[t] # "waiting" /\ job[t] = {}
               PROVE  /\ AllIdle
                      /\ \A a \in Actors : job[a] = {}
                      /\ cmdCh = {} /\ held = {}
    BY DEF IdleWhenOver
  <2>1. LampInv /\ ~Busy /\ ~Waiting /\ Ended
    BY DEF LampsInv, Showing, Quiet, Busy, Waiting, Ended
  <2>2. \A d \in Devices : ~WillReset(d) /\ ~WillSetMode(d)
    BY DEF WillReset, WillSetMode
  <2>3. \A d \in Devices :
           IF IdleBreathes(d) THEN lamp[d].mode = "idle"
           ELSE lamp[d].leds = "idle" /\ lamp[d].mode = "custom"
    BY <2>1, <2>2 DEF LampInv, Returning
  <2>4. AllIdle
    BY <2>3 DEF AllIdle, TypeOK, Lamp
  <2>5. \A u \in cmdCh \cup held : u.before \subseteq Timers
    BY DEF TypeOK, Update
  <2>6. cmdCh = {} /\ held = {}
    BY <2>1, <2>5 DEF LampInv, Watched, Waiting
  <2>7. \A a \in Actors : job[a] = {}
    BY <2>1, <2>6 DEF LampInv, Senders, Actors, Quiet
  <2> QED
    BY <2>4, <2>6, <2>7
<1> QED
  BY <1>1, <1>2, <1>3, TypeNext, LampsNext, PTL DEF Spec

-----------------------------------------------------------------------------
(* When a pending return to idle can be cancelled.                         *)

\* No two calls are between the two critical sections of scheduleIdle.
OneAtATime ==
    AtMostOne({r \in Requests : call[r] = "scheduling"})

NobodyWaits == \A t \in Timers : timer[t] # "waiting"

\* While a call is between them, no return to idle is pending.
ReachableInv ==
    /\ PendingCanBeCancelled
    /\ (\E r \in Requests : call[r] = "scheduling") => NobodyWaits

\* Cancelling reaches whatever is pending.
LEMMA CancelReaches ==
    ASSUME TypeOK, PendingCanBeCancelled, CancelIdle
    PROVE  NobodyWaits'
BY DEF TypeOK, PendingCanBeCancelled, CancelIdle, NobodyWaits

\* The steps of a handler but for those that cancel or schedule, and those of the
\* others, make no return to idle pending and leave the handle.
LEMMA OtherStepsReach ==
    ASSUME TypeOK, ReachableInv, UNCHANGED idleCancel,
           \A t \in Timers : timer'[t] = "waiting" => timer[t] = "waiting",
           \A r \in Requests : call'[r] = "scheduling" => call[r] = "scheduling"
    PROVE  ReachableInv'
BY DEF ReachableInv, PendingCanBeCancelled, NobodyWaits

\* One call at a time finds nothing pending when it stores.
LEMMA ReachableNext ==
    ASSUME TypeOK, OneAtATime, ReachableInv, [Next]_vars
    PROVE  ReachableInv'
<1>1. ASSUME NobodyWaits' PROVE ReachableInv'
  BY <1>1 DEF ReachableInv, PendingCanBeCancelled, NobodyWaits
<1>2. ASSUME NEW r \in Requests, OnRequestStart(r) \/ CancelPrevious(r)
      PROVE  ReachableInv'
  BY <1>1, <1>2, CancelReaches DEF OnRequestStart, CancelPrevious, ReachableInv
<1>3. ASSUME NEW r \in Requests, Schedule(r) PROVE ReachableInv'
  <2>1. PICK t : timer' = [timer EXCEPT ![t] = "waiting"] /\ idleCancel' = {t}
    BY <1>3 DEF Schedule, Scheduled
  <2>2. call[r] = "scheduling" /\ call' = [call EXCEPT ![r] = "ended"]
    BY <1>3 DEF Schedule, Continue
  <2>3. NobodyWaits
    BY <2>2 DEF ReachableInv
  <2>4. PendingCanBeCancelled'
    BY <2>1, <2>3 DEF PendingCanBeCancelled, NobodyWaits, TypeOK
  <2>5. \A q \in Requests : call'[q] # "scheduling"
    BY <2>2 DEF OneAtATime, AtMostOne, TypeOK
  <2> QED
    BY <2>4, <2>5 DEF ReachableInv
<1>4. ASSUME NEW r \in Requests,
             ShowStart(r) \/ OnToken(r) \/ OnThinking(r) \/ OnRequestComplete(r)
             \/ OnError(r)
      PROVE  ReachableInv'
  <2>1. UNCHANGED <<timer, idleCancel>>
        /\ \E next \in {"open", "ending", "ended"} : Continue(r, next)
    BY <1>4 DEF ShowStart, OnToken, OnThinking, OnRequestComplete, OnError, ShowEnd,
       idleVars
  <2>2. \A q \in Requests : call'[q] = "scheduling" => call[q] = "scheduling"
    BY <2>1 DEF Continue, TypeOK
  <2> QED
    BY <2>1, <2>2, OtherStepsReach
<1>5. CASE (\E a : Send(a)) \/ ExecutorTake \/ ExecutorSleep \/ Disconnect
           \/ UNCHANGED vars
  <2>1. UNCHANGED <<timer, idleCancel, call>>
    BY <1>5 DEF Send, ExecutorTake, ExecutorSleep, Disconnect, idleVars, vars
  <2> QED
    BY <2>1, OtherStepsReach
<1>6. ASSUME NEW t \in Timers, TimerFires(t) \/ TimerStops(t) PROVE ReachableInv'
  <2>1. UNCHANGED <<idleCancel, call>> /\ timer' = [timer EXCEPT ![t] = "gone"]
    BY <1>6 DEF TimerFires, TimerStops
  <2>2. \A s \in Timers : timer'[s] = "waiting" => timer[s] = "waiting"
    BY <2>1 DEF TypeOK
  <2> QED
    BY <2>1, <2>2, OtherStepsReach
<1> QED
  BY <1>2, <1>3, <1>4, <1>5, <1>6 DEF Next, HandlerStep, CallStep, TimerStep,
     ExecutorStep

\* The comment at openrgb.go:28 is right unless two calls of scheduleIdle overlap:
\* as long as at most one handler is between its two critical sections, a pending
\* return to idle is always the one that cancelIdle reaches, whatever starts,
\* fires or is cancelled meanwhile (openrgb.go:308-338).
THEOREM OnlyOverlapStrands == Spec /\ []OneAtATime => []PendingCanBeCancelled
<1>1. Init => ReachableInv
  BY DEF Init, ReachableInv, PendingCanBeCancelled
<1>2. TypeOK /\ OneAtATime /\ ReachableInv /\ [Next]_vars => ReachableInv'
  BY ReachableNext
<1>3. ReachableInv => PendingCanBeCancelled
  BY DEF ReachableInv
<1> QED
  BY <1>1, <1>2, <1>3, TypeCorrect, PTL DEF Spec

-----------------------------------------------------------------------------
(* A hook call comes to an end.                                            *)

\* The commands a goroutine has left to send, if none succeeds with less.
Commands(a) ==
    IF job[a] = {} THEN 0
    ELSE LET j == CHOOSE j \in job[a] : TRUE IN
            2 * (NumDevices - j.dev) + (IF j.custom THEN 1 ELSE 2)

\* The most steps a handler has left in its hook call.
Left(r) ==
    Commands(r) + (CASE call[r] = "starting" -> 2 * NumDevices + 1
                     [] call[r] = "ending" -> 2
                     [] call[r] = "scheduling" -> 1
                     [] OTHER -> 0)

\* Each step of a handler in a hook call leaves it fewer, and no step of another
\* leaves it more.
HookCallsFinish ==
    \A r \in Requests :
        /\ CallStep(r) => Left(r)' < Left(r)
        /\ ~Free(r) => Left(r)' <= Left(r)

\* One job, and what is left of it.
LEMMA CommandsIs ==
    ASSUME NEW S \in SUBSET Job, AtMostOne(S)
    PROVE  \A j \in S : (CHOOSE i \in S : TRUE) = j /\ S = {j}
BY DEF AtMostOne

\* Left is a number, and 0 for a handler outside a hook call.
LEMMA LeftTypes ==
    ASSUME TypeOK, NEW r \in Requests
    PROVE  /\ Commands(r) \in Nat /\ Left(r) \in Nat
           /\ Left(r) = 0 <=> Free(r)
<1>1. NumDevices \in Nat \ {0} /\ r \in Actors
  BY NumDevicesAssumption DEF Actors
<1>2. Commands(r) \in Nat /\ (Commands(r) = 0 <=> job[r] = {})
  <2>1. CASE job[r] = {}
    BY <2>1 DEF Commands
  <2>2. CASE job[r] # {}
    <3>1. PICK j \in Job : j \in job[r] /\ (CHOOSE i \in job[r] : TRUE) = j
      BY <1>1, <2>2, CommandsIs DEF TypeOK
    <3>2. j.dev \in 1 .. NumDevices /\ j.custom \in BOOLEAN
      BY DEF Job, Devices
    <3>3. Commands(r) = 2 * (NumDevices - j.dev) + (IF j.custom THEN 1 ELSE 2)
      BY <2>2, <3>1 DEF Commands
    <3> QED
      BY <1>1, <2>2, <3>2, <3>3
  <2> QED
    BY <2>1, <2>2
<1>3. call[r] \in Calls
  BY DEF TypeOK
<1> QED
  BY <1>1, <1>2, <1>3 DEF Left, Free, Calls

\* The commands left are those of the one job.
LEMMA CommandsOf ==
    ASSUME TypeOK, NEW r \in Requests, NEW j \in job[r]
    PROVE  /\ job[r] = {j} /\ j \in Job
           /\ Commands(r) = 2 * (NumDevices - j.dev) + (IF j.custom THEN 1 ELSE 2)
<1>1. r \in Actors /\ job[r] \in SUBSET Job /\ AtMostOne(job[r])
  BY DEF Actors, TypeOK
<1>2. (CHOOSE i \in job[r] : TRUE) = j /\ job[r] = {j}
  BY <1>1, CommandsIs
<1> QED
  BY <1>1, <1>2 DEF Commands

\* What LeftTypes and CommandsOf say of every handler.
JobsLeft ==
    /\ \A r \in Requests : Commands(r) \in Nat /\ Left(r) \in Nat
    /\ \A r \in Requests : \A j \in job[r] :
          Commands(r) = 2 * (NumDevices - j.dev) + (IF j.custom THEN 1 ELSE 2)

\* It holds of the state after a step, too.
LEMMA TypesNext == TypeOK' => JobsLeft'
<1>1. TypeOK => JobsLeft
  BY LeftTypes, CommandsOf DEF JobsLeft
<1> QED
  BY <1>1, PTL

\* A command is one less to send.
LEMMA SendLess ==
    ASSUME TypeOK, TypeOK', NEW r \in Requests, Send(r)
    PROVE  Commands(r)' < Commands(r)
<1>1. PICK j \in job[r] :
          job' = [job EXCEPT ![r] =
              IF Breathes(j) \/ j.custom \/ ~connected THEN NextDevice(j)
              ELSE {[j EXCEPT !.custom = TRUE]}]
  BY DEF Send
<1>2. /\ j \in Job
      /\ Commands(r) = 2 * (NumDevices - j.dev) + (IF j.custom THEN 1 ELSE 2)
  BY CommandsOf
<1>3. j.dev \in 1 .. NumDevices /\ j.custom \in BOOLEAN /\ NumDevices \in Nat
  BY <1>2, NumDevicesAssumption DEF Job, Devices
<1>4. job'[r] = IF Breathes(j) \/ j.custom \/ ~connected THEN NextDevice(j)
                ELSE {[j EXCEPT !.custom = TRUE]}
  BY <1>1 DEF TypeOK, Actors
<1>5. CASE job'[r] = {}
  <2>1. Commands(r)' = 0
    BY <1>5 DEF Commands
  <2> QED
    BY <1>2, <1>3, <2>1
<1>6. ASSUME NEW i \in job'[r] PROVE Commands(r)' < Commands(r)
  <2>1. Commands(r)' = 2 * (NumDevices - i.dev) + (IF i.custom THEN 1 ELSE 2)
    BY TypesNext DEF JobsLeft
  <2>2. CASE i = [j EXCEPT !.custom = TRUE] /\ ~j.custom
    <3>1. i.dev = j.dev /\ i.custom = TRUE
      BY <1>2, <2>2 DEF Job
    <3> QED
      BY <1>2, <1>3, <2>1, <2>2, <3>1
  <2>3. CASE i = [j EXCEPT !.dev = @ + 1, !.custom = FALSE]
    <3>1. i.dev = j.dev + 1 /\ i.custom = FALSE
      BY <1>2, <2>3 DEF Job
    <3> QED
      BY <1>2, <1>3, <2>1, <3>1
  <2> QED
    BY <1>4, <2>2, <2>3 DEF NextDevice
<1> QED
  BY <1>5, <1>6

\* An effect that begins has the commands of every device to send.
LEMMA ShowLeft ==
    ASSUME TypeOK, TypeOK', NEW r \in Requests, NEW event, Show(r, event)
    PROVE  Commands(r)' <= 2 * NumDevices
<1>1. job'[r] = {[effect |-> e, dev |-> 1, custom |-> FALSE] : e \in {event} \cap mapped}
  BY DEF Show, TypeOK, Actors
<1>2. CASE job'[r] = {}
  BY <1>2, NumDevicesAssumption DEF Commands
<1>3. ASSUME NEW i \in job'[r] PROVE Commands(r)' <= 2 * NumDevices
  <2>1. i.dev = 1 /\ i.custom = FALSE
    BY <1>1
  <2>2. Commands(r)' = 2 * (NumDevices - i.dev) + (IF i.custom THEN 1 ELSE 2)
    BY TypesNext DEF JobsLeft
  <2> QED
    BY <2>1, <2>2, NumDevicesAssumption
<1> QED
  BY <1>2, <1>3

\* What a handler has left depends on its own job and call only.
LEMMA LeftSame ==
    ASSUME NEW r \in Requests, job'[r] = job[r]
    PROVE  /\ Commands(r)' = Commands(r)
           /\ call'[r] = call[r] => Left(r)' = Left(r)
BY DEF Commands, Left

\* The steps of others leave both.
LEMMA OthersLeave ==
    ASSUME TypeOK, [Next]_vars, NEW r \in Requests, ~CallStep(r), ~Free(r)
    PROVE  job'[r] = job[r] /\ call'[r] = call[r]
<1>1. r \in Actors /\ r \notin Timers /\ r # Executor
  BY ActorsAssumption DEF Actors
<1>2. ASSUME NEW a \in Actors \ {r}, Send(a) PROVE job'[r] = job[r] /\ call'[r] = call[r]
  <2>1. \E S : job' = [job EXCEPT ![a] = S]
    BY <1>2 DEF Send
  <2> QED
    BY <1>1, <1>2, <2>1 DEF Send, TypeOK
<1>3. ASSUME NEW a \in Actors \ {r}, NEW e, Show(a, e) PROVE job'[r] = job[r]
  BY <1>1, <1>3 DEF Show, TypeOK
<1>4. ASSUME NEW q \in Requests \ {r}, HandlerStep(q)
      PROVE  job'[r] = job[r] /\ call'[r] = call[r]
  <2>1. q \in Actors \ {r}
    BY DEF Actors
  <2>2. CASE Send(q)
    BY <1>2, <2>1, <2>2
  <2>3. CASE ~Send(q)
    <3>1. UNCHANGED job \/ \E e : Show(q, e)
      BY <1>4, <2>3 DEF HandlerStep, OnRequestStart, OnToken, OnThinking,
         OnRequestComplete, OnError, ShowEnd, CallStep, ShowStart, CancelPrevious,
         Schedule
    <3>2. \E next : Continue(q, next)
      BY <1>4, <2>3 DEF HandlerStep, OnRequestStart, OnToken, OnThinking,
         OnRequestComplete, OnError, ShowEnd, CallStep, ShowStart, CancelPrevious,
         Schedule
    <3> QED
      BY <1>3, <2>1, <3>1, <3>2 DEF Continue, TypeOK
  <2> QED
    BY <2>2, <2>3
<1>5. ~HandlerStep(r)
  BY DEF HandlerStep, OnRequestStart, OnToken, OnThinking, OnRequestComplete,
     OnError, ShowEnd
<1>6. ASSUME NEW t \in Timers, TimerStep(t) PROVE job'[r] = job[r] /\ call'[r] = call[r]
  <2>1. t \in Actors \ {r}
    BY <1>1 DEF Actors
  <2>2. CASE TimerFires(t)
    BY <1>3, <2>1, <2>2 DEF TimerFires
  <2>3. CASE TimerStops(t)
    BY <2>3 DEF TimerStops
  <2> QED
    BY <1>2, <1>6, <2>1, <2>2, <2>3 DEF TimerStep
<1>7. CASE ExecutorStep
  <2>1. Executor \in Actors \ {r}
    BY <1>1 DEF Actors
  <2>2. CASE ExecutorTake
    BY <1>3, <2>1, <2>2 DEF ExecutorTake
  <2>3. CASE ExecutorSleep
    BY <2>3 DEF ExecutorSleep
  <2> QED
    BY <1>2, <1>7, <2>1, <2>2, <2>3 DEF ExecutorStep
<1>8. CASE Disconnect \/ UNCHANGED vars
  BY <1>8 DEF Disconnect, vars
<1> QED
  BY <1>4, <1>5, <1>6, <1>7, <1>8 DEF Next

\* A handler's own step leaves it fewer.
LEMMA CallStepLess ==
    ASSUME TypeOK, TypeOK', NEW r \in Requests, CallStep(r)
    PROVE  Left(r)' < Left(r)
<1>1. /\ Commands(r) \in Nat /\ Commands(r)' \in Nat
      /\ NumDevices \in Nat
  BY LeftTypes, TypesNext, NumDevicesAssumption DEF JobsLeft
<1>2. CASE Send(r)
  <2>1. call'[r] = call[r]
    BY <1>2 DEF Send
  <2>2. Commands(r)' < Commands(r)
    BY <1>2, SendLess
  <2> DEFINE rest == CASE call[r] = "starting" -> 2 * NumDevices + 1
                       [] call[r] = "ending" -> 2
                       [] call[r] = "scheduling" -> 1
                       [] OTHER -> 0
  <2>3. Left(r) = Commands(r) + rest /\ Left(r)' = Commands(r)' + rest /\ rest \in Nat
    BY <1>1, <2>1 DEF Left
  <2> HIDE DEF rest
  <2> QED
    BY <1>1, <2>2, <2>3
<1>3. CASE ShowStart(r)
  <2>1. call[r] = "starting" /\ call'[r] = "open"
    BY <1>3 DEF ShowStart, Continue, TypeOK
  <2>2. Commands(r)' <= 2 * NumDevices
    BY <1>3, ShowLeft DEF ShowStart
  <2>3. Left(r)' = Commands(r)' /\ Left(r) = Commands(r) + 2 * NumDevices + 1
    BY <1>1, <2>1 DEF Left
  <2> QED
    BY <1>1, <2>2, <2>3
<1>4. CASE CancelPrevious(r)
  <2>1. call[r] = "ending" /\ call'[r] = "scheduling" /\ job' = job
    BY <1>4 DEF CancelPrevious, Continue, TypeOK
  <2>2. Commands(r)' = Commands(r)
    BY <2>1, LeftSame
  <2>3. Left(r)' = Commands(r)' + 1 /\ Left(r) = Commands(r) + 2
    BY <2>1 DEF Left
  <2> QED
    BY <1>1, <2>2, <2>3
<1>5. CASE Schedule(r)
  <2>1. call[r] = "scheduling" /\ call'[r] = "ended" /\ job' = job
    BY <1>5 DEF Schedule, Continue, TypeOK
  <2>2. Commands(r)' = Commands(r)
    BY <2>1, LeftSame
  <2>3. Left(r)' = Commands(r)' /\ Left(r) = Commands(r) + 1
    BY <1>1, <2>1 DEF Left
  <2> QED
    BY <1>1, <2>2, <2>3
<1> QED
  BY <1>2, <1>3, <1>4, <1>5 DEF CallStep

\* The safety half of HookCallsReturn: a hook call sends a bounded number of
\* commands and then returns, with a connection or without; no step of another
\* handler, of a timer or of the executor makes it longer
\* (openrgb.go:205-290, 308-322).
THEOREM HookCallsComeToAnEnd ==
    Spec => /\ [](\A r \in Requests : Left(r) \in Nat /\ (Left(r) = 0 <=> Free(r)))
            /\ [][HookCallsFinish]_vars
<1>1. TypeOK => \A r \in Requests : Left(r) \in Nat /\ (Left(r) = 0 <=> Free(r))
  BY LeftTypes
<1>2. TypeOK /\ TypeOK' /\ [Next]_vars => [HookCallsFinish]_vars
  <2> SUFFICES ASSUME TypeOK, TypeOK', [Next]_vars, NEW r \in Requests
               PROVE  /\ CallStep(r) => Left(r)' < Left(r)
                      /\ ~Free(r) => Left(r)' <= Left(r)
    BY DEF HookCallsFinish
  <2>1. Left(r) \in Nat /\ Left(r)' \in Nat
    BY LeftTypes, TypesNext DEF JobsLeft
  <2>2. CallStep(r) => Left(r)' < Left(r)
    BY CallStepLess
  <2>3. ~Free(r) /\ ~CallStep(r) => Left(r)' = Left(r)
    BY OthersLeave, LeftSame
  <2> QED
    BY <2>1, <2>2, <2>3
<1> QED
  BY <1>1, <1>2, TypeCorrect, PTL DEF Spec

=============================================================================
