------------------------ MODULE ProxyLifecycleProofs ------------------------
(***************************************************************************)
(* The theorem that ProxyHandler implements HookLifecycle, and its proof:  *)
(* the abstract step is taken when the last hook of the MultiHook has been *)
(* told of a call, and when the handler returns.  Then that every field of *)
(* every line that is read is reported, once, to every hook.               *)
(***************************************************************************)
EXTENDS ProxyHandlerProofs, SequenceTheorems

-----------------------------------------------------------------------------
(* The order of the calls of one handler.                                  *)

\* OnRequestStart is made first and once; nothing is called after OnError.
Ordered(s) ==
    /\ s # <<>> => s[1].call \in {"start", "error"}
    /\ \A i \in 2 .. Len(s) : s[i].call # "start"
    /\ \A i \in 1 .. Len(s) : s[i].call = "error" => i = Len(s)

\* A call has been made and none of them was OnError.
Running(s) == s # <<>> /\ \A i \in DOMAIN s : s[i].call # "error"

\* What the handler may do next follows from what it has called.
CallOrder(r) ==
    /\ Ordered(trace[r])
    /\ pc[r] \in {"accept", "body", "start"} => trace[r] = <<>>
    /\ pc[r] \in {"upstream", "whole", "scan", "write", "dispatch"} => Running(trace[r])
    /\ pc[r] = "returned" => told[r] = NumHooks
    /\ trace[r] = <<>> => told[r] = NumHooks

LifecycleInv == ProxyInv /\ \A r \in Requests : CallOrder(r)

\* The first call, or one more of a handler that has not failed.
LEMMA OrderGrows ==
    ASSUME NEW s \in Seq(AnyCall), NEW e \in AnyCall, Ordered(s),
           \/ s = <<>> /\ e.call \in {"start", "error"}
           \/ Running(s) /\ e.call # "start"
    PROVE  /\ Ordered(Append(s, e))
           /\ e.call # "error" => Running(Append(s, e))
<1> DEFINE t == Append(s, e)
<1>1. /\ Len(s) \in Nat /\ DOMAIN s = 1 .. Len(s)
      /\ Len(t) = Len(s) + 1 /\ DOMAIN t = 1 .. Len(s) + 1
      /\ t[Len(s) + 1] = e /\ t # <<>>
      /\ \A i \in 1 .. Len(s) : t[i] = s[i]
  <2>1. Len(s) \in Nat /\ DOMAIN s = 1 .. Len(s) /\ DOMAIN t = 1 .. Len(s) + 1
    OBVIOUS
  <2>2. t[Len(s) + 1] = e /\ \A i \in 1 .. Len(s) : t[i] = s[i]
    OBVIOUS
  <2>3. Len(t) = Len(s) + 1 /\ t # <<>>
    OBVIOUS
  <2> QED
    BY <2>1, <2>2, <2>3
<1> HIDE DEF t
<1>2. CASE s = <<>> /\ e.call \in {"start", "error"}
  <2>1. Len(s) = 0
    BY <1>2
  <2>2. Len(t) = 1 /\ DOMAIN t = 1 .. 1 /\ t[1] = e
    BY <1>1, <2>1
  <2> QED
    <3>1. t[1].call \in {"start", "error"} /\ \A i \in 2 .. Len(t) : FALSE
      BY <1>2, <2>2
    <3>2. \A i \in 1 .. Len(t) : i = Len(t)
      BY <2>2
    <3>3. Ordered(t)
      BY <3>1, <3>2 DEF Ordered
    <3>4. e.call # "error" => Running(t)
      BY <1>1, <2>2 DEF Running
    <3> QED
      BY <3>3, <3>4 DEF t
<1>3. CASE Running(s) /\ e.call # "start"
  <2>1. s # <<>> /\ Len(s) >= 1 /\ 1 \in 1 .. Len(s)
    <3>1. s # <<>>
      BY <1>3 DEF Running
    <3> QED
      BY <1>1, <3>1
  <2>2. t[1].call \in {"start", "error"}
    <3>1. s[1].call \in {"start", "error"}
      BY <2>1 DEF Ordered
    <3> QED
      BY <1>1, <2>1, <3>1
  <2>3. \A i \in 2 .. Len(t) : t[i].call # "start"
    <3>1. ASSUME NEW i \in 2 .. Len(t) PROVE t[i].call # "start"
      <4>1. i = Len(s) + 1 \/ (i \in 2 .. Len(s) /\ i \in 1 .. Len(s))
        BY <1>1
      <4> QED
        BY <1>1, <1>3, <4>1 DEF Ordered
    <3> QED
      BY <3>1
  <2>4. \A i \in 1 .. Len(t) : t[i].call = "error" => i = Len(t)
    <3>1. ASSUME NEW i \in 1 .. Len(t), i # Len(t) PROVE t[i].call # "error"
      <4>1. i \in 1 .. Len(s)
        BY <1>1, <3>1
      <4> QED
        BY <1>1, <1>3, <4>1 DEF Running
    <3> QED
      BY <3>1
  <2>5. e.call # "error" => Running(t)
    <3>1. ASSUME e.call # "error", NEW i \in 1 .. Len(s) + 1 PROVE t[i].call # "error"
      <4>1. i = Len(s) + 1 \/ i \in 1 .. Len(s)
        BY <1>1
      <4> QED
        BY <1>1, <1>3, <3>1, <4>1 DEF Running
    <3> QED
      BY <1>1, <3>1 DEF Running
  <2> QED
    BY <2>2, <2>3, <2>4, <2>5 DEF Ordered, t
<1> QED
  BY <1>2, <1>3

\* A call on the hooks, as far as its order is concerned.
LEMMA CallInOrder ==
    ASSUME Types, NEW r \in Requests, CallOrder(r), NEW m, NEW n,
           [call |-> m, n |-> n] \in AnyCall, Call(r, m, n),
           \/ trace[r] = <<>> /\ m \in {"start", "error"}
           \/ Running(trace[r]) /\ m # "start"
    PROVE  /\ Ordered(trace'[r]) /\ trace'[r] # <<>>
           /\ m # "error" => Running(trace'[r])
<1>1. trace'[r] = Append(trace[r], [call |-> m, n |-> n]) /\ trace'[r] # <<>>
  BY CallEffect
<1>2. trace[r] \in Seq(AnyCall) /\ Ordered(trace[r])
  BY DEF Types, CallOrder
<1> QED
  BY <1>1, <1>2, OrderGrows

LEMMA CallOrderStep ==
    ASSUME Types, NEW r \in Requests, HandlerInv(r), CallOrder(r), HandlerStep(r)
    PROVE  CallOrder(r)'
<1> USE DEF At, Goto
<1>0. pc \in [Requests -> PCs] /\ tokenCount[r] \in Nat /\ told[r] \in 0 .. NumHooks
  BY DEF Types
<1>1. CASE ServeHTTP(r)
  BY <1>0, <1>1 DEF ServeHTTP, hookVars, CallOrder
<1>2. CASE ReadBody(r)
  <2>1. CASE Call(r, "error", 0) /\ pc'[r] = "exit"
    <3>1. [call |-> "error", n |-> 0] \in AnyCall
      BY DEF AnyCall
    <3>2. trace[r] = <<>>
      BY <1>2 DEF ReadBody, CallOrder
    <3> QED
      BY <2>1, <3>1, <3>2, CallInOrder DEF CallOrder
  <2>2. CASE UNCHANGED hookVars /\ pc'[r] = "start"
    BY <1>2, <2>2 DEF ReadBody, hookVars, CallOrder
  <2> QED
    BY <1>0, <1>2, <2>1, <2>2 DEF ReadBody
<1>3. CASE StartRequest(r)
  <2>1. [call |-> "start", n |-> 0] \in AnyCall
    BY DEF AnyCall
  <2>2. trace[r] = <<>> /\ Call(r, "start", 0) /\ pc'[r] = "upstream"
    BY <1>0, <1>3 DEF StartRequest, CallOrder
  <2> QED
    BY <2>1, <2>2, CallInOrder DEF CallOrder
<1>4. CASE UpstreamFails(r) \/ CopyWhole(r) \/ (ScanEnd(r) /\ ~UNCHANGED hookVars)
  <2>1. PICK m \in {"error", "complete"} : Call(r, m, 0)
    BY <1>4 DEF UpstreamFails, CopyWhole, ScanEnd, StreamEnds
  <2>2. Running(trace[r]) /\ pc'[r] = "exit"
    BY <1>0, <1>4 DEF UpstreamFails, CopyWhole, ScanEnd, CallOrder
  <2>3. [call |-> m, n |-> 0] \in AnyCall /\ m # "start"
    BY DEF AnyCall
  <2> QED
    BY <2>1, <2>2, <2>3, CallInOrder DEF CallOrder
<1>5. CASE UpstreamAnswers(r) \/ ScanLine(r) \/ WriteLine(r) \/ (ScanEnd(r) /\ UNCHANGED hookVars)
  <2>1. Running(trace[r]) /\ trace' = trace /\ told' = told
        /\ pc'[r] \in {"whole", "scan", "write", "dispatch", "exit"}
    BY <1>0, <1>5
    DEF UpstreamAnswers, ScanLine, WriteLine, ScanEnd, hookVars, CallOrder
  <2> QED
    BY <2>1 DEF CallOrder, Running
<1>6. ASSUME NEW f \in Fields, CallHook(r, f)
      PROVE  CallOrder(r)'
  <2>1. Running(trace[r]) /\ pc'[r] \in {"scan", "dispatch"}
    BY <1>0, <1>6 DEF CallHook, Handled, CallOrder
  <2>2. PICK m \in {"token", "complete", "thinking", "toolcalls"}, n \in Nat : Call(r, m, n)
    <3>1. tokenCount[r] + 1 \in Nat /\ 0 \in Nat
      BY <1>0
    <3> QED
      BY <1>0, <1>6, <3>1 DEF CallHook, NextToken, Fields
  <2>3. [call |-> m, n |-> n] \in AnyCall /\ m # "start" /\ m # "error"
    BY DEF AnyCall
  <2> QED
    BY <2>1, <2>2, <2>3, CallInOrder DEF CallOrder
<1>7. CASE Tell(r)
  <2>1. told[r] < NumHooks /\ NumHooks \in Nat /\ UNCHANGED <<pc, trace>>
    BY <1>7, NumHooksAssumption DEF Tell
  <2>2. told[r] # NumHooks
    BY <1>0, <2>1
  <2> QED
    BY <2>1, <2>2 DEF CallOrder
<1>8. CASE HandlerReturn(r)
  BY <1>0, <1>8 DEF HandlerReturn, hookVars, CallOrder
<1> QED
  BY <1>1, <1>2, <1>3, <1>4, <1>5, <1>6, <1>7, <1>8 DEF HandlerStep, OwnStep

LEMMA LifecycleInvNext == LifecycleInv /\ [Next]_vars => LifecycleInv'
<1> SUFFICES ASSUME LifecycleInv, [Next]_vars PROVE LifecycleInv'
  OBVIOUS
<1>1. ProxyInv /\ Types /\ ProxyInv'
  BY ProxyNext DEF LifecycleInv, ProxyInv
<1>2. ASSUME NEW r \in Requests, HandlerStep(r), NEW q \in Requests
      PROVE  CallOrder(q)'
  <2>1. CASE q = r
    BY <1>1, <1>2, <2>1, CallOrderStep DEF LifecycleInv, ProxyInv
  <2>2. CASE q # r
    <3>1. pc'[q] = pc[q] /\ trace'[q] = trace[q] /\ told'[q] = told[q]
      BY <1>1, <1>2, <2>2, OthersUntouched
    <3> QED
      BY <3>1 DEF LifecycleInv, CallOrder
  <2> QED
    BY <2>1, <2>2
<1>3. CASE UNCHANGED vars
  BY <1>1, <1>3 DEF LifecycleInv, CallOrder, vars, hookVars
<1> QED
  BY <1>1, <1>2, <1>3 DEF Next, HandlerStep, LifecycleInv

LEMMA LifecycleInvInit == Init => LifecycleInv
<1> SUFFICES ASSUME Init, NEW r \in Requests PROVE CallOrder(r)
  BY ProxyInit DEF LifecycleInv
<1>1. trace[r] = <<>> /\ told[r] = NumHooks /\ pc[r] = "accept"
  BY DEF Init
<1>2. Ordered(<<>>)
  BY DEF Ordered
<1> QED
  BY <1>1, <1>2 DEF CallOrder

-----------------------------------------------------------------------------
(* The abstract state.                                                     *)

AllButLast(s) == SubSeq(s, 1, Len(s) - 1)

LEMMA LastTakenOff ==
    ASSUME NEW s \in Seq(AnyCall), s # <<>>
    PROVE  /\ AllButLast(s) \in Seq(AnyCall)
           /\ s[Len(s)] \in AnyCall
           /\ s = Append(AllButLast(s), s[Len(s)])
<1> DEFINE n == Len(s) - 1
           h == SubSeq(s, 1, n)
           e == s[Len(s)]
<1>1. n \in Nat /\ Len(s) = n + 1 /\ n \in Int /\ 1 \in Int
  OBVIOUS
<1>2. \A i \in 1 .. n : s[i] \in AnyCall
  OBVIOUS
<1>3. e \in AnyCall
  OBVIOUS
<1> HIDE DEF n
<1>4. /\ h \in Seq(AnyCall)
      /\ Len(h) = IF 1 <= n THEN n - 1 + 1 ELSE 0
      /\ \A i \in 1 .. n - 1 + 1 : h[i] = s[1 + i - 1]
  BY <1>1, <1>2, SubSeqProperties
<1>5. Len(h) = n /\ \A i \in 1 .. n : h[i] = s[i]
  BY <1>1, <1>4
<1> HIDE DEF h
<1>6. /\ Append(h, e) \in Seq(AnyCall) /\ Len(Append(h, e)) = n + 1
      /\ Append(h, e)[n + 1] = e
      /\ \A i \in 1 .. n : Append(h, e)[i] = h[i]
  BY <1>3, <1>4, <1>5, AppendProperties
<1>7. \A i \in 1 .. Len(s) : s[i] = Append(h, e)[i]
  <2>1. ASSUME NEW i \in 1 .. Len(s) PROVE s[i] = Append(h, e)[i]
    <3>1. i = n + 1 \/ i \in 1 .. n
      BY <1>1
    <3> QED
      BY <1>1, <1>5, <1>6, <3>1
  <2> QED
    BY <2>1
<1>8. s = Append(h, e)
  BY <1>1, <1>6, <1>7, SeqEqual
<1> QED
  BY <1>3, <1>4, <1>8 DEF AllButLast, h, n

LEMMA LastPutOn ==
    ASSUME NEW s \in Seq(AnyCall), NEW e \in AnyCall
    PROVE  AllButLast(Append(s, e)) = s
<1> DEFINE t == Append(s, e)
<1>1. /\ t \in Seq(AnyCall) /\ t # <<>> /\ Len(t) = Len(s) + 1
      /\ \A i \in 1 .. Len(s) : t[i] = s[i]
  BY AppendProperties
<1> HIDE DEF t
<1>2. /\ AllButLast(t) \in Seq(AnyCall) /\ t = Append(AllButLast(t), t[Len(t)])
      /\ t[Len(t)] \in AnyCall
  BY <1>1, LastTakenOff
<1>3. /\ Len(t) = Len(AllButLast(t)) + 1
      /\ \A i \in 1 .. Len(AllButLast(t)) : t[i] = AllButLast(t)[i]
  BY <1>2, AppendProperties
<1>4. Len(AllButLast(t)) = Len(s)
  <2>1. Len(AllButLast(t)) \in Nat /\ Len(s) \in Nat
    BY <1>2
  <2> QED
    BY <1>1, <1>3, <2>1
<1>5. \A i \in 1 .. Len(AllButLast(t)) : AllButLast(t)[i] = s[i]
  BY <1>1, <1>3, <1>4
<1>6. AllButLast(t) = s
  BY <1>2, <1>4, <1>5, SeqEqual
<1> QED
  BY <1>6 DEF t

\* HeardStage as a function of the calls heard.
StageOf(h) ==
    IF h = <<>> THEN "new"
    ELSE IF Called(h, "error") # {} THEN "last"
    ELSE IF Called(h, "complete") # {} THEN "completed"
    ELSE "open"

\* How the abstract stage changes with one more call heard.
LEMMA StageGrows ==
    ASSUME NEW h \in Seq(AnyCall), NEW e \in AnyCall, Ordered(Append(h, e))
    PROVE  /\ e.call = "start" => StageOf(h) = "new" /\ StageOf(Append(h, e)) = "open"
           /\ e.call = "error" => /\ StageOf(h) \in {"new", "open", "completed"}
                                  /\ StageOf(Append(h, e)) = "last"
           /\ e.call = "complete" => /\ StageOf(h) \in {"open", "completed"}
                                     /\ StageOf(Append(h, e)) = "completed"
           /\ e.call \in {"token", "thinking", "toolcalls"} =>
                 /\ StageOf(h) \in {"open", "completed"}
                 /\ StageOf(Append(h, e)) = StageOf(h)
<1> DEFINE t == Append(h, e)
<1>1. /\ Len(h) \in Nat /\ DOMAIN h = 1 .. Len(h) /\ Len(t) = Len(h) + 1 /\ t # <<>>
      /\ t[Len(h) + 1] = e
  BY AppendProperties
<1>2. \A i \in 1 .. Len(h) : t[i] = h[i]
  BY AppendProperties
<1>3. \A m : Called(t, m) = IF e.call = m THEN Called(h, m) \cup {Len(h) + 1}
                            ELSE Called(h, m)
  BY CalledGrows
<1>4. Ordered(t)
  OBVIOUS
<1> HIDE DEF t
<1>5. Called(h, "error") = {}
  <2>1. ASSUME NEW i \in 1 .. Len(h) PROVE h[i].call # "error"
    <3>1. i \in 1 .. Len(t) /\ i # Len(t)
      BY <1>1
    <3>2. t[i].call # "error"
      BY <1>4, <3>1 DEF Ordered
    <3> QED
      BY <1>2, <3>2
  <2> QED
    BY <1>1, <2>1 DEF Called
<1>6. e.call = "start" => h = <<>>
  <2>1. ASSUME h # <<>> PROVE e.call # "start"
    <3>1. Len(h) # 0
      BY <2>1
    <3>2. Len(h) + 1 \in 2 .. Len(t)
      BY <1>1, <3>1
    <3>3. t[Len(h) + 1].call # "start"
      BY <1>4, <3>2 DEF Ordered
    <3> QED
      BY <1>1, <3>3
  <2> QED
    BY <2>1
<1>7. e.call \notin {"start", "error"} => h # <<>>
  <2>1. ASSUME h = <<>> PROVE e.call \in {"start", "error"}
    <3>1. t[1] = e
      BY <1>1, <2>1
    <3> QED
      BY <1>1, <1>4, <3>1 DEF Ordered
  <2> QED
    BY <2>1
<1>8. h = <<>> => Called(h, "complete") = {}
  BY DEF Called
<1>9. StageOf(h) = IF h = <<>> THEN "new"
                   ELSE IF Called(h, "complete") # {} THEN "completed" ELSE "open"
  BY <1>5 DEF StageOf
<1>10. StageOf(t) = IF e.call = "error" THEN "last"
                    ELSE IF e.call = "complete" \/ Called(h, "complete") # {}
                         THEN "completed" ELSE "open"
  <2>1. Called(t, "error") # {} <=> e.call = "error"
    BY <1>3, <1>5
  <2>2. e.call # "complete" => Called(t, "complete") = Called(h, "complete")
    BY <1>3
  <2>3. e.call = "complete" => Called(t, "complete") # {}
    BY <1>3
  <2> QED
    BY <1>1, <2>1, <2>2, <2>3 DEF StageOf
<1>11. /\ e.call = "start" => StageOf(h) = "new" /\ StageOf(t) = "open"
       /\ e.call = "error" => /\ StageOf(h) \in {"new", "open", "completed"}
                              /\ StageOf(t) = "last"
       /\ e.call = "complete" => /\ StageOf(h) \in {"open", "completed"}
                                 /\ StageOf(t) = "completed"
       /\ e.call \in {"token", "thinking", "toolcalls"} =>
             /\ StageOf(h) \in {"open", "completed"}
             /\ StageOf(t) = StageOf(h)
  BY <1>6, <1>7, <1>8, <1>9, <1>10
<1> QED
  BY <1>11 DEF t

-----------------------------------------------------------------------------
(* The mapping.                                                            *)

StageIn(r) ==
    IF pc[r] # "returned" THEN HeardStage(r)
    ELSE IF HeardStage(r) = "open" THEN "abandoned" ELSE "returned"

SentIn(r) == Cardinality(HeardCalls(r, "token"))

LEMMA Mapping ==
    /\ stageOf = [r \in Requests |-> StageIn(r)]
    /\ sentOf = [r \in Requests |-> SentIn(r)]
BY DEF stageOf, sentOf, StageIn, SentIn

\* What the last hook has heard are the calls made, or all but the last one.
LEMMA HeardIs ==
    ASSUME Types, NEW r \in Requests, CallOrder(r)
    PROVE  /\ Heard(r) = IF told[r] = NumHooks THEN trace[r] ELSE AllButLast(trace[r])
           /\ Heard(r) \in Seq(AnyCall)
           /\ \A m : HeardCalls(r, m) = Called(Heard(r), m)
           /\ HeardStage(r) = StageOf(Heard(r))
<1>1. trace[r] \in Seq(AnyCall)
  BY DEF Types
<1>2. Heard(r) = IF told[r] = NumHooks THEN trace[r] ELSE AllButLast(trace[r])
  BY DEF Heard, AllButLast
<1>3. /\ Heard(r) \in Seq(AnyCall)
      /\ \A i \in DOMAIN Heard(r) : trace[r][i] = Heard(r)[i]
  <2>1. CASE told[r] = NumHooks
    BY <1>1, <1>2, <2>1
  <2>2. CASE told[r] # NumHooks
    <3> DEFINE h == AllButLast(trace[r])
    <3>1. trace[r] # <<>>
      BY <2>2 DEF CallOrder
    <3>2. /\ h \in Seq(AnyCall) /\ trace[r] = Append(h, trace[r][Len(trace[r])])
          /\ trace[r][Len(trace[r])] \in AnyCall
      BY <1>1, <3>1, LastTakenOff
    <3> HIDE DEF h
    <3>3. \A i \in 1 .. Len(h) : trace[r][i] = h[i]
      BY <3>2, AppendProperties
    <3>4. Heard(r) = h
      BY <1>2, <2>2 DEF h
    <3> QED
      BY <3>2, <3>3, <3>4
  <2> QED
    BY <2>1, <2>2
<1>4. \A m : HeardCalls(r, m) = Called(Heard(r), m)
  BY <1>3 DEF HeardCalls, Called
<1> QED
  BY <1>2, <1>3, <1>4 DEF HeardStage, StageOf

HeardAsStage(r) ==
    /\ HeardStage(r) = StageOf(Heard(r))
    /\ HeardCalls(r, "token") = Called(Heard(r), "token")

HeardInv == \A r \in Requests : HeardAsStage(r)

LEMMA HeardAlways == LifecycleInv => HeardInv
BY HeardIs DEF LifecycleInv, ProxyInv, HeardInv, HeardAsStage

LEMMA HeardNext == LifecycleInv' => HeardInv'
BY HeardAlways, PTL

\* A step of a handler tells a hook, returns, or makes at most one call, which
\* none of the hooks has heard yet.
LEMMA StepKinds ==
    ASSUME Types, NEW r \in Requests, HandlerStep(r)
    PROVE  \/ Tell(r)
           \/ HandlerReturn(r)
           \/ /\ pc[r] # "returned" /\ pc'[r] # "returned" /\ told[r] = NumHooks
              /\ \/ UNCHANGED <<trace, told>>
                 \/ \E m, n : [call |-> m, n |-> n] \in AnyCall /\ Call(r, m, n)
<1> USE DEF At, Goto
<1>0. pc \in [Requests -> PCs] /\ tokenCount[r] \in Nat
  BY DEF Types
<1>1. \A m \in {"start", "thinking", "token", "toolcalls", "complete", "error"}, n \in Nat :
        [call |-> m, n |-> n] \in AnyCall
  BY DEF AnyCall
<1>2. CASE ServeHTTP(r) \/ UpstreamAnswers(r) \/ ScanLine(r) \/ WriteLine(r)
  BY <1>0, <1>2 DEF ServeHTTP, UpstreamAnswers, ScanLine, WriteLine, hookVars
<1>3. CASE ReadBody(r)
  BY <1>0, <1>1, <1>3 DEF ReadBody, hookVars
<1>4. CASE StartRequest(r) \/ UpstreamFails(r) \/ CopyWhole(r)
  BY <1>0, <1>1, <1>4 DEF StartRequest, UpstreamFails, CopyWhole
<1>5. CASE ScanEnd(r)
  BY <1>0, <1>1, <1>5 DEF ScanEnd, StreamEnds, hookVars
<1>6. ASSUME NEW f \in Fields, CallHook(r, f)
      PROVE  /\ pc[r] # "returned" /\ pc'[r] # "returned" /\ told[r] = NumHooks
             /\ \E m, n : [call |-> m, n |-> n] \in AnyCall /\ Call(r, m, n)
  <2>1. /\ pc[r] = "dispatch" /\ told[r] = NumHooks /\ pc'[r] \in {"scan", "dispatch"}
    BY <1>0, <1>6 DEF CallHook, Handled
  <2>2. PICK m \in {"token", "complete", "thinking", "toolcalls"}, n \in Nat : Call(r, m, n)
    <3>1. tokenCount[r] + 1 \in Nat /\ 0 \in Nat
      BY <1>0
    <3> QED
      BY <1>0, <1>6, <3>1 DEF CallHook, NextToken, Fields
  <2>3. [call |-> m, n |-> n] \in AnyCall
    BY <1>1
  <2> QED
    BY <2>1, <2>2, <2>3
<1> QED
  BY <1>2, <1>3, <1>4, <1>5, <1>6 DEF HandlerStep, OwnStep

LEMMA QuietStep ==
    ASSUME LifecycleInv, LifecycleInv', NEW r \in Requests, pc[r] # "returned",
           pc'[r] # "returned", told[r] = NumHooks,
           \/ UNCHANGED <<trace, told>>
           \/ \E m, n : [call |-> m, n |-> n] \in AnyCall /\ Call(r, m, n)
    PROVE  StageIn(r)' = StageIn(r) /\ SentIn(r)' = SentIn(r)
<1>0. Types
  BY DEF LifecycleInv, ProxyInv
<1>1. Heard(r)' = Heard(r)
  <2>1. CASE UNCHANGED <<trace, told>>
    BY <2>1 DEF Heard
  <2>2. ASSUME NEW m, NEW n, [call |-> m, n |-> n] \in AnyCall, Call(r, m, n)
        PROVE  Heard(r)' = Heard(r)
    <3>1. /\ trace'[r] = Append(trace[r], [call |-> m, n |-> n]) /\ told'[r] = 0
      BY <1>0, <2>2, CallEffect
    <3>2. trace[r] \in Seq(AnyCall)
      BY <1>0 DEF Types
    <3>3. AllButLast(trace'[r]) = trace[r]
      BY <2>2, <3>1, <3>2, LastPutOn
    <3>4. told'[r] # NumHooks
      BY <3>1, NumHooksAssumption
    <3>5. Heard(r)' = AllButLast(trace'[r])
      BY <3>4 DEF Heard, AllButLast
    <3> QED
      BY <3>3, <3>5 DEF Heard
  <2> QED
    BY <2>1, <2>2
<1>2. HeardStage(r) = StageOf(Heard(r)) /\ HeardCalls(r, "token") = Called(Heard(r), "token")
  BY HeardAlways DEF HeardInv, HeardAsStage
<1>3. /\ HeardStage(r)' = StageOf(Heard(r)')
      /\ HeardCalls(r, "token")' = Called(Heard(r)', "token")
  BY HeardNext DEF HeardInv, HeardAsStage
<1> QED
  BY <1>1, <1>2, <1>3 DEF StageIn, SentIn

-----------------------------------------------------------------------------
(* The steps.                                                              *)

\* Only the abstract state of the handler that made the step has changed.
AbsFrame(r) ==
    \A q \in Requests \ {r} : StageIn(q)' = StageIn(q) /\ SentIn(q)' = SentIn(q)

LEMMA OthersAbstract ==
    ASSUME LifecycleInv, NEW r \in Requests, HandlerStep(r)
    PROVE  AbsFrame(r)
<1> SUFFICES ASSUME NEW q \in Requests, q # r
             PROVE  StageIn(q)' = StageIn(q) /\ SentIn(q)' = SentIn(q)
  BY DEF AbsFrame
<1>1. pc'[q] = pc[q] /\ trace'[q] = trace[q] /\ told'[q] = told[q]
  BY OthersUntouched DEF LifecycleInv, ProxyInv
<1>2. Heard(q)' = Heard(q)
  BY <1>1 DEF Heard
<1>3. \A m : HeardCalls(q, m)' = HeardCalls(q, m)
  BY <1>1, <1>2 DEF HeardCalls
<1>4. HeardStage(q)' = HeardStage(q)
  BY <1>2, <1>3 DEF HeardStage
<1> QED
  BY <1>1, <1>3, <1>4 DEF StageIn, SentIn

LEMMA AbsUpdate ==
    ASSUME NEW r \in Requests, AbsFrame(r)
    PROVE  /\ stageOf' = [stageOf EXCEPT ![r] = StageIn(r)']
           /\ sentOf' = [sentOf EXCEPT ![r] = SentIn(r)']
           /\ stageOf[r] = StageIn(r) /\ sentOf[r] = SentIn(r)
           /\ SentIn(r)' = SentIn(r) => sentOf' = sentOf
           /\ StageIn(r)' = StageIn(r) => stageOf' = stageOf
<1>1. /\ stageOf = [q \in Requests |-> StageIn(q)]
      /\ sentOf = [q \in Requests |-> SentIn(q)]
      /\ stageOf' = [q \in Requests |-> StageIn(q)']
      /\ sentOf' = [q \in Requests |-> SentIn(q)']
  BY DEF stageOf, sentOf, StageIn, SentIn
<1>2. \A q \in Requests \ {r} : StageIn(q)' = StageIn(q) /\ SentIn(q)' = SentIn(q)
  BY DEF AbsFrame
<1> QED
  BY <1>1, <1>2

AbsStep(r) ==
    \/ Lifecycle!Start(r) \/ Lifecycle!Token(r) \/ Lifecycle!Complete(r)
    \/ Lifecycle!Fail(r) \/ Lifecycle!Return(r)
    \/ UNCHANGED <<stageOf, sentOf>>

\* The last hook hears of the last call, or another hook does.
LEMMA TellMaps ==
    ASSUME LifecycleInv, LifecycleInv', NEW r \in Requests, AbsFrame(r), Tell(r)
    PROVE  AbsStep(r)
<1> DEFINE h == AllButLast(trace[r])
           e == trace[r][Len(trace[r])]
<1>1. Types /\ CallOrder(r) /\ UNCHANGED <<pc, trace>>
  BY DEF LifecycleInv, ProxyInv, Tell
<1>2. told[r] \in Nat /\ told[r] # NumHooks /\ told'[r] = told[r] + 1
  BY <1>1, NumHooksAssumption DEF Types, Tell
<1>3. pc[r] # "returned" /\ trace[r] # <<>> /\ trace[r] \in Seq(AnyCall) /\ Ordered(trace[r])
  BY <1>1, <1>2 DEF CallOrder, Types
<1>4. h \in Seq(AnyCall) /\ e \in AnyCall /\ trace[r] = Append(h, e)
  BY <1>3, LastTakenOff
<1>5. Heard(r) = h
  BY <1>2 DEF Heard, AllButLast
<1> HIDE DEF h, e
<1>6. StageIn(r) = StageOf(h) /\ SentIn(r) = Cardinality(Called(h, "token"))
  BY <1>3, <1>5, HeardAlways DEF HeardInv, HeardAsStage, StageIn, SentIn
<1>7. CASE told'[r] # NumHooks
  <2>1. Heard(r)' = Heard(r)
    BY <1>1, <1>2, <1>7 DEF Heard
  <2>2. \A m : HeardCalls(r, m)' = HeardCalls(r, m)
    BY <1>1, <2>1 DEF HeardCalls
  <2>3. StageIn(r)' = StageIn(r) /\ SentIn(r)' = SentIn(r)
    BY <1>1, <2>1, <2>2 DEF StageIn, SentIn, HeardStage
  <2> QED
    BY <2>3, AbsUpdate DEF AbsStep
<1>8. CASE told'[r] = NumHooks
  <2>1. Heard(r)' = trace[r]
    BY <1>1, <1>8 DEF Heard
  <2>2. /\ StageIn(r)' = StageOf(Append(h, e))
        /\ SentIn(r)' = Cardinality(Called(Append(h, e), "token"))
    <3>1. HeardAsStage(r)' /\ pc'[r] # "returned"
      BY <1>1, <1>3, HeardNext DEF HeardInv
    <3> QED
      BY <1>4, <2>1, <3>1 DEF HeardAsStage, StageIn, SentIn
  <2>3. /\ SentIn(r) \in Nat
        /\ SentIn(r)' = SentIn(r) + (IF e.call = "token" THEN 1 ELSE 0)
    BY <1>4, <1>6, <2>2, CalledCount
  <2>4. SentIn(r)' \in 0 .. MaxLines
    <3>1. Cardinality(Called(trace[r], "token")) = tokenCount[r]
      BY DEF LifecycleInv, ProxyInv, HandlerInv, Counts
    <3>2. tokenCount[r] \in 0 .. MaxLines
      BY TokensBounded DEF LifecycleInv
    <3> QED
      BY <1>4, <2>2, <3>1, <3>2
  <2>5. Ordered(Append(h, e))
    BY <1>3, <1>4
  <2>6. CASE e.call = "start"
    <3>1. StageIn(r) = "new" /\ StageIn(r)' = "open" /\ SentIn(r)' = SentIn(r)
      BY <1>4, <1>6, <2>2, <2>3, <2>5, <2>6, StageGrows
    <3>2. /\ stageOf[r] = "new" /\ stageOf' = [stageOf EXCEPT ![r] = "open"]
          /\ sentOf' = sentOf
      BY <3>1, AbsUpdate
    <3> QED
      BY <3>2 DEF AbsStep, Lifecycle!Start, Lifecycle!MoveTo
  <2>7. CASE e.call = "error"
    <3>1. /\ StageIn(r) \in {"new", "open", "completed"} /\ StageIn(r)' = "last"
          /\ SentIn(r)' = SentIn(r)
      BY <1>4, <1>6, <2>2, <2>3, <2>5, <2>7, StageGrows
    <3>2. /\ stageOf[r] \in {"new", "open", "completed"}
          /\ stageOf' = [stageOf EXCEPT ![r] = "last"] /\ sentOf' = sentOf
      BY <3>1, AbsUpdate
    <3> QED
      BY <3>2 DEF AbsStep, Lifecycle!Fail, Lifecycle!MoveTo
  <2>8. CASE e.call = "complete"
    <3>1. /\ StageIn(r) \in {"open", "completed"} /\ StageIn(r)' = "completed"
          /\ SentIn(r)' = SentIn(r)
      BY <1>4, <1>6, <2>2, <2>3, <2>5, <2>8, StageGrows
    <3>2. /\ stageOf[r] \in {"open", "completed"}
          /\ stageOf' = [stageOf EXCEPT ![r] = "completed"] /\ sentOf' = sentOf
      BY <3>1, AbsUpdate
    <3> QED
      BY <3>2 DEF AbsStep, Lifecycle!Complete, Lifecycle!MoveTo, Lifecycle!MayCall
  <2>9. CASE e.call = "token"
    <3>1. /\ StageIn(r) \in {"open", "completed"} /\ StageIn(r)' = StageIn(r)
          /\ SentIn(r)' = SentIn(r) + 1 /\ SentIn(r) < MaxLines
      BY <1>4, <1>6, <2>2, <2>3, <2>4, <2>5, <2>9, StageGrows, MaxLinesAssumption
    <3>2. /\ stageOf[r] \in {"open", "completed"} /\ stageOf' = stageOf
          /\ sentOf[r] < MaxLines /\ sentOf' = [sentOf EXCEPT ![r] = sentOf[r] + 1]
      BY <3>1, AbsUpdate
    <3> QED
      BY <3>2 DEF AbsStep, Lifecycle!Token, Lifecycle!MayCall
  <2>10. CASE e.call \in {"thinking", "toolcalls"}
    <3>1. StageIn(r)' = StageIn(r) /\ SentIn(r)' = SentIn(r)
      BY <1>4, <1>6, <2>2, <2>3, <2>5, <2>10, StageGrows
    <3> QED
      BY <3>1, AbsUpdate DEF AbsStep
  <2> QED
    BY <1>4, <2>6, <2>7, <2>8, <2>9, <2>10 DEF AnyCall
<1> QED
  BY <1>7, <1>8

LEMMA ReturnMaps ==
    ASSUME LifecycleInv, NEW r \in Requests, AbsFrame(r), HandlerReturn(r)
    PROVE  AbsStep(r)
<1>1. /\ pc[r] = "exit" /\ pc'[r] = "returned" /\ UNCHANGED <<trace, told>>
  BY DEF LifecycleInv, ProxyInv, Types, HandlerReturn, At, Goto, hookVars
<1>2. Heard(r)' = Heard(r)
  BY <1>1 DEF Heard
<1>3. \A m : HeardCalls(r, m)' = HeardCalls(r, m)
  BY <1>1, <1>2 DEF HeardCalls
<1>4. /\ HeardStage(r)' = HeardStage(r) /\ SentIn(r)' = SentIn(r)
  BY <1>2, <1>3 DEF HeardStage, SentIn
<1>5. /\ StageIn(r) = HeardStage(r) /\ StageIn(r) \notin {"returned", "abandoned"}
      /\ StageIn(r)' = IF StageIn(r) = "open" THEN "abandoned" ELSE "returned"
  BY <1>1, <1>4 DEF StageIn, HeardStage
<1>6. /\ stageOf[r] \notin {"returned", "abandoned"} /\ sentOf' = sentOf
      /\ stageOf' = [stageOf EXCEPT ![r] =
                       IF stageOf[r] = "open" THEN "abandoned" ELSE "returned"]
  BY <1>4, <1>5, AbsUpdate
<1> QED
  BY <1>6 DEF AbsStep, Lifecycle!Return, Lifecycle!MoveTo, Lifecycle!Finished

\* Each step of a handler is a step of HookLifecycle or leaves its state alone.
LEMMA StepMaps ==
    LifecycleInv /\ LifecycleInv' /\ [Next]_vars
        => [Lifecycle!LifecycleNext]_<<stageOf, sentOf>>
<1> SUFFICES ASSUME LifecycleInv, LifecycleInv', [Next]_vars
             PROVE  [Lifecycle!LifecycleNext]_<<stageOf, sentOf>>
  OBVIOUS
<1>1. ASSUME NEW r \in Requests, HandlerStep(r)
      PROVE  AbsStep(r)
  <2>1. AbsFrame(r)
    BY <1>1, OthersAbstract
  <2>2. Types
    BY DEF LifecycleInv, ProxyInv
  <2>3. CASE Tell(r)
    BY <2>1, <2>3, TellMaps
  <2>4. CASE HandlerReturn(r)
    BY <2>1, <2>4, ReturnMaps
  <2>5. CASE /\ pc[r] # "returned" /\ pc'[r] # "returned" /\ told[r] = NumHooks
             /\ \/ UNCHANGED <<trace, told>>
                \/ \E m, n : [call |-> m, n |-> n] \in AnyCall /\ Call(r, m, n)
    <3>1. StageIn(r)' = StageIn(r) /\ SentIn(r)' = SentIn(r)
      BY <2>5, QuietStep
    <3> QED
      BY <2>1, <3>1, AbsUpdate DEF AbsStep
  <2> QED
    BY <1>1, <2>2, <2>3, <2>4, <2>5, StepKinds
<1>2. CASE \E r \in Requests : HandlerStep(r)
  BY <1>1, <1>2 DEF AbsStep, Lifecycle!LifecycleNext
<1>3. CASE UNCHANGED vars
  <2>1. UNCHANGED <<pc, trace, told>>
    BY <1>3 DEF vars, hookVars
  <2>2. \A r \in Requests : Heard(r)' = Heard(r)
    BY <2>1 DEF Heard
  <2>3. \A r \in Requests : \A m : HeardCalls(r, m)' = HeardCalls(r, m)
    BY <2>1, <2>2 DEF HeardCalls
  <2>4. \A r \in Requests : StageIn(r)' = StageIn(r) /\ SentIn(r)' = SentIn(r)
    BY <2>1, <2>2, <2>3 DEF StageIn, SentIn, HeardStage
  <2>5. stageOf' = [r \in Requests |-> StageIn(r)'] /\ sentOf' = [r \in Requests |-> SentIn(r)']
    BY DEF stageOf, sentOf, StageIn, SentIn
  <2> QED
    BY <2>4, <2>5, Mapping
<1> QED
  BY <1>2, <1>3 DEF Next, HandlerStep

LEMMA InitMaps == Init => Lifecycle!LifecycleInit
<1> SUFFICES ASSUME Init PROVE Lifecycle!LifecycleInit
  OBVIOUS
<1>1. ASSUME NEW r \in Requests
      PROVE  StageIn(r) = "new" /\ SentIn(r) = 0
  <2>1. pc[r] = "accept" /\ trace[r] = <<>> /\ told[r] = NumHooks
    BY DEF Init
  <2>2. Heard(r) = <<>>
    BY <2>1 DEF Heard
  <2>3. HeardCalls(r, "token") = {}
    BY <2>2 DEF HeardCalls
  <2> QED
    BY <2>1, <2>2, <2>3, FS_EmptySet DEF StageIn, SentIn, HeardStage
<1> QED
  BY <1>1, Mapping DEF Lifecycle!LifecycleInit

\* For any number of requests, lines and hooks, even the last hook of the list
\* sees each request in the call order of HookLifecycle (hooks.go:27-62).
THEOREM LastHookSeesTheOrder == Spec => ImplementsLifecycle
<1>1. LifecycleInv /\ [Next]_vars => LifecycleInv'
  BY LifecycleInvNext
<1> QED
  BY <1>1, LifecycleInvInit, InitMaps, StepMaps, PTL
  DEF Spec, ImplementsLifecycle, Lifecycle!LifecycleSpec, Lifecycle!lifecycleVars

-----------------------------------------------------------------------------
(* Nothing that was read is left unreported.                               *)

\* The hook call for each field of a line.
Method == [thinking |-> "thinking", content |-> "token",
           tool_calls |-> "toolcalls", done |-> "complete"]

\* The fields that ProxyInv does not count.
Others == {"thinking", "tool_calls"}

Balanced(r, f) ==
    Cardinality(Called(trace[r], Method[f])) + Due(r, f)
        = Cardinality(Carrying(out[r], f))

OthersInv == \A r \in Requests : \A f \in Others : Balanced(r, f)

\* A step of a handler makes at most one call, of another kind than the field's
\* unless it is CallHook for that field.
LEMMA AtMostOneCall ==
    ASSUME ProxyInv, NEW r \in Requests, HandlerStep(r), NEW f \in Others
    PROVE  \/ trace'[r] = trace[r] /\ ~CallHook(r, f)
           \/ \E e \in AnyCall : /\ trace'[r] = Append(trace[r], e)
                                 /\ e.call = Method[f] <=> CallHook(r, f)
                                 /\ ~WriteLine(r)
<1>1. /\ trace \in [Requests -> Seq(AnyCall)] /\ tokenCount[r] \in Nat
      /\ pc \in [Requests -> PCs]
  BY DEF ProxyInv, Types
<1>2. ASSUME NEW m, NEW n, Call(r, m, n)
      PROVE  trace'[r] = Append(trace[r], [call |-> m, n |-> n])
  BY <1>1, <1>2 DEF Call
<1>3. CallHook(r, f) => pc[r] = "dispatch"
  BY DEF CallHook, At
<1>4. Method[f] \in {"thinking", "toolcalls"}
  BY DEF Others, Method
<1>5. ASSUME NEW m \in {"start", "error", "complete", "token"}, NEW n \in Nat,
             Call(r, m, n), ~CallHook(r, f), pc[r] # "write"
      PROVE  \E e \in AnyCall : /\ trace'[r] = Append(trace[r], e)
                                /\ e.call = Method[f] <=> CallHook(r, f)
                                /\ ~WriteLine(r)
  <2>1. [call |-> m, n |-> n] \in AnyCall /\ [call |-> m, n |-> n].call # Method[f]
    BY <1>4, <1>5 DEF AnyCall
  <2> QED
    BY <1>2, <1>5, <2>1 DEF WriteLine, At
<1>6. CASE UNCHANGED trace /\ pc[r] # "dispatch"
  BY <1>3, <1>6
<1>7. CASE StartRequest(r) \/ UpstreamFails(r) \/ CopyWhole(r)
  <2>1. \E m \in {"start", "error", "complete"} : Call(r, m, 0)
    BY <1>7 DEF StartRequest, UpstreamFails, CopyWhole
  <2>2. pc[r] \in {"start", "upstream", "whole"}
    BY <1>7 DEF StartRequest, UpstreamFails, CopyWhole, At
  <2> QED
    BY <1>3, <1>5, <2>1, <2>2
<1>8. CASE ReadBody(r)
  <2>1. UNCHANGED trace \/ Call(r, "error", 0)
    BY <1>8 DEF ReadBody, hookVars
  <2>2. pc[r] = "body"
    BY <1>8 DEF ReadBody, At
  <2> QED
    BY <1>3, <1>5, <1>6, <2>1, <2>2
<1>9. CASE ScanEnd(r)
  <2>1. UNCHANGED trace \/ Call(r, "error", 0)
    BY <1>9 DEF ScanEnd, StreamEnds, hookVars
  <2>2. pc[r] = "scan"
    BY <1>9 DEF ScanEnd, At
  <2> QED
    BY <1>3, <1>5, <1>6, <2>1, <2>2
<1>10. CASE ServeHTTP(r) \/ UpstreamAnswers(r) \/ ScanLine(r) \/ WriteLine(r) \/ HandlerReturn(r)
  <2>1. UNCHANGED trace /\ pc[r] \in {"accept", "upstream", "scan", "write", "exit"}
    BY <1>10 DEF ServeHTTP, UpstreamAnswers, ScanLine, WriteLine, HandlerReturn, At, hookVars
  <2> QED
    BY <1>6, <2>1
<1>11. CASE Tell(r)
  <2>1. told[r] \in Nat /\ NumHooks \in Nat /\ told[r] < NumHooks
    BY <1>11, NumHooksAssumption DEF ProxyInv, Types, Tell
  <2>2. told[r] # NumHooks
    BY <2>1
  <2> QED
    BY <1>11, <2>2 DEF Tell, CallHook, At
<1>12. ASSUME NEW g \in Fields, CallHook(r, g), g # f PROVE ~CallHook(r, f)
  <2> SUFFICES ASSUME CallHook(r, f) PROVE FALSE
    OBVIOUS
  <2>1. Rank[f] <= Rank[g] /\ Rank[g] <= Rank[f]
    BY <1>12 DEF CallHook, IsNext
  <2>2. f \in Fields
    BY DEF Others, Fields
  <2>3. \A a, b \in Fields : a # b => Rank[a] < Rank[b] \/ Rank[b] < Rank[a]
    <3>1. /\ Rank["thinking"] = 1 /\ Rank["content"] = 2
          /\ Rank["tool_calls"] = 3 /\ Rank["done"] = 4
      BY DEF Rank
    <3> QED
      BY <3>1 DEF Fields
  <2>4. Rank[f] \in Nat /\ Rank[g] \in Nat
    BY <1>12, <2>2 DEF Rank, Fields
  <2> QED
    BY <1>12, <2>1, <2>2, <2>3, <2>4
<1>13. ASSUME NEW g \in Fields, CallHook(r, g)
       PROVE  \E e \in AnyCall : /\ trace'[r] = Append(trace[r], e)
                                 /\ e.call = Method[f] <=> CallHook(r, f)
                                 /\ ~WriteLine(r)
  <2>1. \E n \in Nat : Call(r, Method[g], n)
    <3>1. /\ Method["thinking"] = "thinking" /\ Method["content"] = "token"
          /\ Method["tool_calls"] = "toolcalls" /\ Method["done"] = "complete"
      BY DEF Method
    <3>2. CASE g = "thinking" \/ g = "tool_calls"
      <4>1. Call(r, Method[g], 0)
        BY <1>13, <3>1, <3>2 DEF CallHook
      <4> QED
        BY <4>1
    <3>3. CASE g = "content"
      <4>1. Call(r, Method[g], tokenCount[r] + 1)
        BY <1>13, <3>1, <3>3 DEF CallHook, NextToken
      <4> QED
        BY <1>1, <4>1
    <3>4. CASE g = "done"
      <4>1. Call(r, Method[g], tokenCount[r])
        BY <1>13, <3>1, <3>4 DEF CallHook
      <4> QED
        BY <1>1, <4>1
    <3> QED
      BY <1>13, <3>2, <3>3, <3>4 DEF Fields
  <2>2. PICK n \in Nat : Call(r, Method[g], n)
    BY <2>1
  <2>3. [call |-> Method[g], n |-> n] \in AnyCall
    BY DEF AnyCall, Method, Fields
  <2>4. Method[g] = Method[f] <=> g = f
    BY DEF Method, Fields, Others
  <2>5. pc[r] # "write" /\ ~WriteLine(r)
    BY <1>13 DEF CallHook, WriteLine, At
  <2> QED
    BY <1>2, <1>12, <1>13, <2>2, <2>3, <2>4, <2>5
<1> QED
  BY <1>7, <1>8, <1>9, <1>10, <1>11, <1>13 DEF HandlerStep, OwnStep

\* A step writes a line, makes the call for a field, or does neither.
LEMMA FieldsStep ==
    ASSUME ProxyInv, NEW r \in Requests, HandlerStep(r), NEW f \in Others
    PROVE  /\ WriteLine(r) =>
                \E l \in Line : /\ out'[r] = Append(out[r], l)
                                /\ pending[r] = {} /\ pending'[r] = l.has
           /\ CallHook(r, f) =>
                out'[r] = out[r] /\ f \in pending[r] /\ f \notin pending'[r]
           /\ ~WriteLine(r) /\ ~CallHook(r, f) =>
                out'[r] = out[r] /\ (f \in pending'[r] <=> f \in pending[r])
<1>1. Types /\ HandlerInv(r)
  BY DEF ProxyInv
<1>2. ASSUME WriteLine(r)
      PROVE  \E l \in Line : /\ out'[r] = Append(out[r], l)
                             /\ pending[r] = {} /\ pending'[r] = l.has
  <2> DEFINE l == got[r][Len(got[r])]
  <2>1. /\ out' = [out EXCEPT ![r] = Append(out[r], [l EXCEPT !.eol = "lf"])]
        /\ pending' = [pending EXCEPT ![r] = l.has]
        /\ pc[r] = "write"
    BY <1>2 DEF WriteLine, Forward, At
  <2>2. l \in Line
    <3>1. got[r] \in Seq(Line) /\ out[r] \in Seq(Line)
      BY <1>1 DEF Types
    <3>2. Len(got[r]) = Len(out[r]) + 1 /\ Len(got[r]) \in 1 .. Len(got[r])
      BY <1>1, <2>1, <3>1 DEF HandlerInv, Lines
    <3> QED
      BY <3>1, <3>2
  <2>3. [l EXCEPT !.eol = "lf"] \in Line /\ [l EXCEPT !.eol = "lf"].has = l.has
    BY <2>2 DEF Line, Eols
  <2> HIDE DEF l
  <2>4. pending[r] = {}
    BY <1>1, <2>1 DEF HandlerInv, Phase
  <2> QED
    BY <1>1, <2>1, <2>3, <2>4 DEF Types
<1>3. ASSUME NEW g \in Fields, CallHook(r, g)
      PROVE  /\ out'[r] = out[r] /\ g \in pending[r] /\ g \notin pending'[r]
             /\ \A h \in Fields \ {g} : h \in pending'[r] <=> h \in pending[r]
  BY <1>1, <1>3 DEF CallHook, IsNext, Handled, Types
<1>4. f \in Fields
  BY DEF Others, Fields
<1>5. ASSUME ~WriteLine(r), \A g \in Fields : ~CallHook(r, g)
      PROVE  out'[r] = out[r] /\ pending'[r] = pending[r]
  BY <1>5 DEF HandlerStep, ServeHTTP, ReadBody, UpstreamFails, UpstreamAnswers,
     CopyWhole, ScanLine, ScanEnd, OwnStep, StartRequest, Tell, HandlerReturn,
     streamVars
<1> QED
  BY <1>2, <1>3, <1>4, <1>5

\* Each step keeps the balance: a line adds what is due, a call pays it off.
LEMMA OthersNext ==
    ASSUME ProxyInv, OthersInv, [Next]_vars
    PROVE  OthersInv'
<1> SUFFICES ASSUME NEW q \in Requests, NEW f \in Others PROVE Balanced(q, f)'
  BY DEF OthersInv
<1>1. Balanced(q, f)
  BY DEF OthersInv
<1>2. ASSUME trace'[q] = trace[q], out'[q] = out[q], pending'[q] = pending[q]
      PROVE  Balanced(q, f)'
  BY <1>1, <1>2 DEF Balanced, Due
<1>3. ASSUME NEW r \in Requests, HandlerStep(r), r # q PROVE Balanced(q, f)'
  BY <1>2, <1>3, OthersUntouched DEF ProxyInv
<1>4. ASSUME HandlerStep(q) PROVE Balanced(q, f)'
  <2> DEFINE m == Method[f]
             c == Cardinality(Called(trace[q], m))
             d == Cardinality(Carrying(out[q], f))
  <2>1. trace[q] \in Seq(AnyCall) /\ out[q] \in Seq(Line)
    BY DEF ProxyInv, Types
  <2>2. c \in Nat /\ d \in Nat
    <3>1. [call |-> "start", n |-> 0] \in AnyCall
      BY DEF AnyCall
    <3>2. [parses |-> TRUE, has |-> {}, eol |-> "lf"] \in Line
      BY DEF Line, Eols
    <3> QED
      BY <2>1, <3>1, <3>2, CalledCount, CarryingCount
  <2>3. c + Due(q, f) = d
    BY <1>1 DEF Balanced
  <2>4. Cardinality(Called(trace'[q], m)) = c + (IF CallHook(q, f) THEN 1 ELSE 0)
    <3>1. CASE trace'[q] = trace[q] /\ ~CallHook(q, f)
      BY <2>2, <3>1
    <3>2. ASSUME NEW e \in AnyCall, trace'[q] = Append(trace[q], e),
                 e.call = m <=> CallHook(q, f)
          PROVE  Cardinality(Called(trace'[q], m)) = c + (IF CallHook(q, f) THEN 1 ELSE 0)
      BY <2>1, <3>2, CalledCount
    <3> QED
      BY <1>4, <3>1, <3>2, AtMostOneCall
  <2> HIDE DEF c, d, m
  <2>5. CASE WriteLine(q)
    <3>1. ~CallHook(q, f)
      BY <2>5 DEF WriteLine, CallHook, At
    <3>2. PICK l \in Line : /\ out'[q] = Append(out[q], l)
                            /\ pending[q] = {} /\ pending'[q] = l.has
      BY <1>4, <2>5, FieldsStep
    <3>3. Cardinality(Carrying(out'[q], f)) = d + (IF f \in l.has THEN 1 ELSE 0)
      BY <2>1, <3>2, CarryingCount DEF d
    <3>4. Due(q, f) = 0 /\ Due(q, f)' = IF f \in l.has THEN 1 ELSE 0
      BY <3>2 DEF Due
    <3>5. Cardinality(Called(trace'[q], m)) + Due(q, f)' = Cardinality(Carrying(out'[q], f))
      BY <2>2, <2>3, <2>4, <3>1, <3>3, <3>4
    <3> QED
      BY <3>5 DEF Balanced, m
  <2>6. CASE CallHook(q, f)
    <3>1. out'[q] = out[q] /\ f \in pending[q] /\ f \notin pending'[q]
      BY <1>4, <2>6, FieldsStep
    <3>2. Due(q, f) = 1 /\ Due(q, f)' = 0
      BY <3>1 DEF Due
    <3>3. Cardinality(Called(trace'[q], m)) + Due(q, f)' = d
      BY <2>2, <2>3, <2>4, <2>6, <3>2
    <3> QED
      BY <3>1, <3>3 DEF Balanced, m, d
  <2>7. CASE ~WriteLine(q) /\ ~CallHook(q, f)
    <3>1. out'[q] = out[q] /\ (f \in pending'[q] <=> f \in pending[q])
      BY <1>4, <2>7, FieldsStep
    <3>2. Due(q, f)' = Due(q, f) /\ Due(q, f) \in Nat
      BY <3>1 DEF Due
    <3>3. Cardinality(Called(trace'[q], m)) + Due(q, f)' = d
      BY <2>2, <2>3, <2>4, <2>7, <3>2
    <3> QED
      BY <3>1, <3>3 DEF Balanced, m, d
  <2> QED
    BY <2>5, <2>6, <2>7
<1>5. CASE UNCHANGED vars
  BY <1>2, <1>5 DEF vars, hookVars
<1> QED
  BY <1>3, <1>4, <1>5 DEF Next, HandlerStep

\* Nothing has been read and nothing called.
LEMMA OthersInit == Init => OthersInv
<1> SUFFICES ASSUME Init, NEW r \in Requests, NEW f \in Others
             PROVE  Balanced(r, f)
  BY DEF OthersInv
<1>1. trace[r] = <<>> /\ out[r] = <<>> /\ pending[r] = {}
  BY DEF Init
<1>2. Called(<<>>, Method[f]) = {} /\ Carrying(<<>>, f) = {}
  BY DEF Called, Carrying
<1>3. Cardinality(Called(trace[r], Method[f])) = 0 /\ Cardinality(Carrying(out[r], f)) = 0
  BY <1>1, <1>2, FS_EmptySet
<1>4. Due(r, f) = 0
  BY <1>1 DEF Due
<1> QED
  BY <1>3, <1>4 DEF Balanced

\* Once the loop is past a line, each hook has been called once for each field
\* of each line read; before the handler returns each call has reached every
\* plugin.
ReadIsReported ==
    \A r \in Requests :
        /\ streaming[r] /\ pc[r] \notin {"write", "dispatch"} =>
              \A f \in Fields :
                  Cardinality(Calls(r, Method[f]))
                    = Cardinality({i \in DOMAIN got[r] : f \in got[r][i].has})
        /\ pc[r] = "returned" => told[r] = NumHooks

\* In a field that is not due, as many calls as lines that carry it.
LEMMA BalancedIsReported == LifecycleInv /\ OthersInv => ReadIsReported
<1> SUFFICES ASSUME LifecycleInv, OthersInv, NEW r \in Requests
             PROVE  /\ streaming[r] /\ pc[r] \notin {"write", "dispatch"} =>
                          \A f \in Fields :
                              Cardinality(Called(trace[r], Method[f]))
                                = Cardinality(Carrying(got[r], f))
                    /\ pc[r] = "returned" => told[r] = NumHooks
  BY DEF ReadIsReported, Calls, Called, Carrying
<1>1. Types /\ HandlerInv(r) /\ CallOrder(r)
  BY DEF LifecycleInv, ProxyInv
<1>2. ASSUME streaming[r], pc[r] \notin {"write", "dispatch"}, NEW f \in Fields
      PROVE  Cardinality(Called(trace[r], Method[f])) = Cardinality(Carrying(got[r], f))
  <2>1. got[r] \in Seq(Line) /\ out[r] \in Seq(Line) /\ tokenCount[r] \in Nat
    BY <1>1 DEF Types
  <2>2. Len(got[r]) = Len(out[r])
    <3>1. Lines(r) /\ pc[r] # "write" /\ Len(out[r]) \in Nat
      BY <1>1, <1>2, <2>1 DEF HandlerInv
    <3>2. Len(got[r]) = Len(out[r]) + 0
      BY <3>1 DEF Lines
    <3> QED
      BY <3>1, <3>2
  <2>3. ASSUME NEW i \in 1 .. Len(out[r]) PROVE out[r][i].has = got[r][i].has
    <3>1. got[r][i] \in Line
      BY <2>1, <2>2, <2>3
    <3>2. out[r][i] = [got[r][i] EXCEPT !.eol = "lf"]
      BY <1>1, <2>3 DEF HandlerInv, Lines
    <3> QED
      BY <3>1, <3>2 DEF Line
  <2>4. Carrying(got[r], f) = Carrying(out[r], f)
    BY <2>1, <2>2, <2>3 DEF Carrying
  <2>5. Due(r, f) = 0
    BY <1>1, <1>2 DEF HandlerInv, Phase, Due
  <2> DEFINE c == Cardinality(Called(trace[r], Method[f]))
  <2>6. c \in Nat
    <3>1. trace[r] \in Seq(AnyCall) /\ [call |-> "start", n |-> 0] \in AnyCall
      BY <1>1 DEF Types, AnyCall
    <3> QED
      BY <3>1, CalledCount
  <2>7. c + Due(r, f) = Cardinality(Carrying(out[r], f))
    <3>1. CASE f \in Others
      BY <3>1 DEF OthersInv, Balanced
    <3>2. CASE f = "content"
      BY <1>1, <3>2 DEF HandlerInv, Counts, Method
    <3>3. CASE f = "done"
      BY <1>1, <1>2, <3>3 DEF HandlerInv, Counts, Method
    <3> QED
      BY <3>1, <3>2, <3>3 DEF Fields, Others
  <2> HIDE DEF c
  <2>8. c = Cardinality(Carrying(out[r], f))
    BY <2>5, <2>6, <2>7
  <2> QED
    BY <2>4, <2>8 DEF c
<1> QED
  BY <1>1, <1>2 DEF CallOrder

\* For any number of requests, lines and hooks no field of a line is skipped or
\* reported twice, and a handler does not return before the last plugin has been
\* told of its last call (proxy.go:344-429, hooks.go:31-65).
THEOREM NoFieldIsSkipped == Spec => []ReadIsReported
<1>1. LifecycleInv /\ OthersInv /\ [Next]_vars => (LifecycleInv /\ OthersInv)'
  BY LifecycleInvNext, OthersNext DEF LifecycleInv
<1> QED
  BY <1>1, LifecycleInvInit, OthersInit, BalancedIsReported, PTL DEF Spec

=============================================================================
