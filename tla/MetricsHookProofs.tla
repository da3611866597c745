------------------------- MODULE MetricsHookProofs --------------------------
(***************************************************************************)
(* Theorems about MetricsHook and their proofs: types, exact counters,     *)
(* scrapes, and the entries of the map.                                    *)
(***************************************************************************)
EXTENDS MetricsHook, FiniteSetTheorems, TLAPS

-----------------------------------------------------------------------------
(* Types.                                                                  *)

\* The calls of one handler keep the lifecycle variables in their types.
LEMMA LifecycleType ==
    ASSUME LifecycleTypeOK, NEW r \in Requests,
           Start(r) \/ Token(r) \/ Complete(r) \/ Fail(r) \/ Return(r)
    PROVE  LifecycleTypeOK'
BY MaxTokensAssumption
   DEF LifecycleTypeOK, Start, Token, Complete, Fail, Return, MoveTo, Stages,
       MayCall, Finished

LEMMA CallType ==
    ASSUME TypeOK, NEW r \in Requests,
           NEW next \in Counters \cup {"none", "forget"}, Continue(r, next)
    PROVE  call' \in [Requests -> Counters \cup {"none", "forget"}]
BY DEF TypeOK, Continue

\* The entry of one identifier is replaced by entries of the type.
LEMMA MapType ==
    ASSUME TypeOK, NEW r \in Requests, NEW S \in SUBSET Entry,
           inFlight' = [inFlight EXCEPT ![ReqID[r]] = S]
    PROVE  inFlight' \in [Ids -> SUBSET Entry]
BY DEF TypeOK

LEMMA TotalType ==
    ASSUME TypeOK, NEW c \in Counters, Increment(c)
    PROVE  total' \in [Counters -> Nat]
BY DEF TypeOK, Increment

LEMMA InitType == Init => TypeOK
<1> SUFFICES ASSUME Init PROVE TypeOK
  OBVIOUS
<1>1. LifecycleTypeOK
  BY MaxTokensAssumption DEF Init, LifecycleInit, LifecycleTypeOK, Stages
<1>2. scrape \in Seq(Nat) /\ Len(scrape) <= Len(ScrapeOrder)
  BY DEF Init, ScrapeOrder
<1> QED
  BY <1>1, <1>2 DEF Init, TypeOK, Counters

LEMMA StartType ==
    ASSUME TypeOK, NEW r \in Requests, OnRequestStart(r)
    PROVE  TypeOK'
<1>1. LifecycleTypeOK'
  BY LifecycleType DEF TypeOK, OnRequestStart
<1>2. inFlight' \in [Ids -> SUBSET Entry]
  <2>1. {[owner |-> r, firstTok |-> FALSE]} \in SUBSET Entry
    BY DEF Entry
  <2> QED
    BY <2>1, MapType DEF OnRequestStart
<1>3. call' \in [Requests -> Counters \cup {"none", "forget"}]
  BY CallType DEF OnRequestStart, Counters
<1> QED
  BY <1>1, <1>2, <1>3 DEF TypeOK, OnRequestStart, scrapeVars

LEMMA TokenType ==
    ASSUME TypeOK, NEW r \in Requests, OnToken(r)
    PROVE  TypeOK'
<1>1. LifecycleTypeOK'
  BY LifecycleType DEF TypeOK, OnToken
<1>2. inFlight' \in [Ids -> SUBSET Entry]
  <2>1. inFlight[ReqID[r]] \in SUBSET Entry
    BY ReqIDAssumption DEF TypeOK
  <2>2. {Seen(e) : e \in inFlight[ReqID[r]]} \in SUBSET Entry
    BY <2>1 DEF Seen, Entry
  <2>3. inFlight' = [inFlight EXCEPT ![ReqID[r]] =
                       {Seen(e) : e \in inFlight[ReqID[r]]}]
    BY DEF OnToken
  <2> QED
    BY <2>2, <2>3, MapType
<1>3. call' \in [Requests -> Counters \cup {"none", "forget"}]
  BY CallType DEF OnToken, Counters
<1> QED
  BY <1>1, <1>2, <1>3 DEF TypeOK, OnToken, scrapeVars, historyVars

LEMMA CountType ==
    ASSUME TypeOK, NEW r \in Requests, Count(r)
    PROVE  TypeOK'
<1>1. call[r] \in Counters /\ Increment(call[r])
  BY DEF Count, Counters
<1>2. call' \in [Requests -> Counters \cup {"none", "forget"}]
  BY CallType DEF Count
<1> QED
  BY <1>1, <1>2, TotalType DEF TypeOK, LifecycleTypeOK, lifecycleVars, Count, scrapeVars,
                               historyVars

LEMMA CompleteType ==
    ASSUME TypeOK, NEW r \in Requests, OnRequestComplete(r)
    PROVE  TypeOK'
<1>1. LifecycleTypeOK'
  BY LifecycleType DEF TypeOK, OnRequestComplete
<1>2. inFlight' \in [Ids -> SUBSET Entry]
  <2>1. inFlight' = [inFlight EXCEPT ![ReqID[r]] = {}] /\ {} \in SUBSET Entry
    BY DEF OnRequestComplete
  <2> QED
    BY <2>1, MapType
<1> QED
  BY <1>1, <1>2 DEF TypeOK, OnRequestComplete, scrapeVars, historyVars

LEMMA ErrorType ==
    ASSUME TypeOK, NEW r \in Requests, OnError(r)
    PROVE  TypeOK'
<1>1. LifecycleTypeOK'
  BY LifecycleType DEF TypeOK, OnError
<1>2. call' \in [Requests -> Counters \cup {"none", "forget"}]
  BY CallType DEF OnError
<1>3. total' \in [Counters -> Nat]
  BY TotalType DEF OnError, Counters
<1> QED
  BY <1>1, <1>2, <1>3 DEF TypeOK, OnError, scrapeVars

LEMMA ForgetType ==
    ASSUME TypeOK, NEW r \in Requests, Forget(r)
    PROVE  TypeOK'
<1>1. call' \in [Requests -> Counters \cup {"none", "forget"}]
  BY CallType DEF Forget
<1>2. inFlight' \in [Ids -> SUBSET Entry]
  <2>1. inFlight' = [inFlight EXCEPT ![ReqID[r]] = {}] /\ {} \in SUBSET Entry
    BY DEF Forget
  <2> QED
    BY <2>1, MapType
<1> QED
  BY <1>1, <1>2 DEF TypeOK, Forget, scrapeVars, LifecycleTypeOK, lifecycleVars,
                          historyVars

LEMMA ReturnType ==
    ASSUME TypeOK, NEW r \in Requests, HandlerReturn(r)
    PROVE  TypeOK'
<1>1. LifecycleTypeOK'
  BY LifecycleType DEF TypeOK, HandlerReturn
<1> QED
  BY <1>1 DEF TypeOK, HandlerReturn, scrapeVars, historyVars

\* The counter a scrape reads next is one of the counters.
LEMMA ScrapeOrderType ==
    /\ Len(ScrapeOrder) = 3
    /\ \A i \in 1 .. 3 : ScrapeOrder[i] \in Counters
BY DEF ScrapeOrder, Counters

\* A scrape that has not read every counter has read none, one or two.
LEMMA BelowThree == \A n \in Nat : n < 3 => n + 1 \in 1 .. 3 /\ n + 1 <= 3
OBVIOUS

LEMMA LoadIndex ==
    ASSUME TypeOK, Load
    PROVE  /\ scrape \in Seq(Nat) /\ Len(scrape) + 1 <= Len(ScrapeOrder)
           /\ ScrapeOrder[Len(scrape) + 1] \in Counters
           /\ scrape' = Append(scrape, total[ScrapeOrder[Len(scrape) + 1]])
           /\ atStart' = IF scrape = <<>> THEN total ELSE atStart
           /\ UNCHANGED <<lifecycleVars, call, inFlight, total, historyVars>>
<1>1. Len(scrape) < Len(ScrapeOrder)
  BY Zenon DEF Load
<1>2. Len(scrape) < 3
  BY <1>1, ScrapeOrderType, Zenon
<1>3. scrape \in Seq(Nat)
  BY DEF TypeOK
<1>4. Len(scrape) \in Nat
  BY <1>3
<1>5. Len(scrape) + 1 \in 1 .. 3 /\ Len(scrape) + 1 <= 3
  BY <1>2, <1>4, BelowThree, Zenon
<1>6. ScrapeOrder[Len(scrape) + 1] \in Counters
  BY <1>5, ScrapeOrderType, Zenon
<1>7. Len(scrape) + 1 <= Len(ScrapeOrder)
  BY <1>5, ScrapeOrderType, Zenon
<1> QED
  BY <1>3, <1>6, <1>7, Zenon DEF Load, LoadNth

LEMMA LoadType ==
    ASSUME TypeOK, Load
    PROVE  TypeOK'
<1>1. total[ScrapeOrder[Len(scrape) + 1]] \in Nat
  <2>1. total \in [Counters -> Nat]
    BY DEF TypeOK
  <2> QED
    BY <2>1, LoadIndex
<1>2. scrape' \in Seq(Nat) /\ Len(scrape') = Len(scrape) + 1
  <2>1. scrape \in Seq(Nat)
    BY LoadIndex
  <2>2. \A x \in Nat : /\ Append(scrape, x) \in Seq(Nat)
                       /\ Len(Append(scrape, x)) = Len(scrape) + 1
    BY <2>1
  <2> QED
    BY <1>1, <2>2, LoadIndex, Zenon
<1>3. Len(scrape') <= Len(ScrapeOrder')
  BY <1>2, LoadIndex, Zenon DEF ScrapeOrder
<1>4. atStart' \in [Counters -> Nat]
  BY LoadIndex DEF TypeOK
<1> QED
  BY <1>2, <1>3, <1>4, LoadIndex DEF TypeOK, LifecycleTypeOK, lifecycleVars,
                                            historyVars

LEMMA RespondType ==
    ASSUME TypeOK, Respond
    PROVE  TypeOK'
<1>1. scrape' \in Seq(Nat) /\ Len(scrape') <= Len(ScrapeOrder)
  BY ScrapeOrderType DEF Respond
<1> QED
  BY <1>1 DEF TypeOK, Respond, LifecycleTypeOK, lifecycleVars, historyVars

LEMMA NextType == TypeOK /\ [Next]_vars => TypeOK'
<1> SUFFICES ASSUME TypeOK, [Next]_vars PROVE TypeOK'
  OBVIOUS
<1>1. ASSUME NEW r \in Requests,
             \/ OnRequestStart(r) \/ OnToken(r) \/ Count(r)
             \/ OnRequestComplete(r) \/ OnError(r) \/ Forget(r)
             \/ HandlerReturn(r)
      PROVE  TypeOK'
  BY <1>1, StartType, TokenType, CountType, CompleteType, ErrorType,
     ForgetType, ReturnType
<1>2. CASE UNCHANGED vars
  BY <1>2 DEF TypeOK, vars, LifecycleTypeOK, lifecycleVars, historyVars
<1> QED
  BY <1>1, <1>2, LoadType, RespondType DEF Next

\* Every reachable state is of its types: no counter goes below zero.
THEOREM TypeCorrect == Spec => []TypeOK
<1> QED
  BY InitType, NextType, PTL DEF Spec

-----------------------------------------------------------------------------
(* Counters.                                                               *)

\* The handlers that have yet to count.
Counting(c) == {r \in Requests : call[r] = c}

\* The counters are exact, and a request is noted as started, and as failed,
\* only once: the other parts make one more call one more element of the set.
CountInv ==
    /\ CountersAreExact
    /\ \A r \in started : stage[r] # "new"
    /\ \A r \in failed : stage[r] \in {"last", "returned"}

LEMMA FiniteCounts ==
    ASSUME TypeOK
    PROVE  /\ IsFiniteSet(started) /\ Cardinality(started) \in Nat
           /\ IsFiniteSet(failed) /\ Cardinality(failed) \in Nat
           /\ IsFiniteSet(TokenCalls) /\ Cardinality(TokenCalls) \in Nat
           /\ \A c \in Counters :
                 IsFiniteSet(Counting(c)) /\ Cardinality(Counting(c)) \in Nat
<1>1. /\ started \subseteq Requests /\ failed \subseteq Requests
      /\ \A c \in Counters : Counting(c) \subseteq Requests
  <2>1. started \subseteq Requests /\ failed \subseteq Requests
    BY DEF TypeOK
  <2>2. \A c \in Counters : Counting(c) \subseteq Requests
    BY DEF Counting
  <2> QED
    BY <2>1, <2>2
<1>2. IsFiniteSet(Requests \X (1 .. MaxTokens))
  <2>1. IsFiniteSet(1 .. MaxTokens)
    BY MaxTokensAssumption, FS_Interval
  <2> QED
    BY <2>1, RequestsAssumption, FS_Product
<1>3. TokenCalls \subseteq Requests \X (1 .. MaxTokens)
  BY DEF TokenCalls
<1> QED
  BY <1>1, <1>2, <1>3, RequestsAssumption, FS_Subset, FS_CardinalityType

\* A handler that comes to count, or has counted, changes one set of those
\* about to by itself.
LEMMA CountingJoins ==
    ASSUME TypeOK, NEW r \in Requests, NEW c \in Counters, call[r] = "none",
           Continue(r, c)
    PROVE  /\ AboutTo(c)' = AboutTo(c) + 1
           /\ \A d \in Counters \ {c} : AboutTo(d)' = AboutTo(d)
<1>1. "none" \notin Counters
  BY DEF Counters
<1>2. Counting(c)' = Counting(c) \cup {r} /\ r \notin Counting(c)
  BY <1>1 DEF Counting, Continue, TypeOK
<1>3. Cardinality(Counting(c)') = Cardinality(Counting(c)) + 1
  BY <1>2, FiniteCounts, FS_AddElement
<1>4. \A d \in Counters \ {c} : Counting(d)' = Counting(d)
  BY <1>1 DEF Counting, Continue, TypeOK
<1> QED
  BY <1>3, <1>4 DEF AboutTo, Counting

LEMMA CountingLeaves ==
    ASSUME TypeOK, NEW r \in Requests, NEW c \in Counters, call[r] = c,
           Continue(r, "none")
    PROVE  \A d \in Counters :
              AboutTo(d)' = IF d = c THEN AboutTo(d) - 1 ELSE AboutTo(d)
<1>1. "none" \notin Counters
  BY DEF Counters
<1>2. Counting(c)' = Counting(c) \ {r} /\ r \in Counting(c)
  BY <1>1 DEF Counting, Continue, TypeOK
<1>3. Cardinality(Counting(c)') = Cardinality(Counting(c)) - 1
  BY <1>2, FiniteCounts, FS_RemoveElement
<1>4. \A d \in Counters \ {c} : Counting(d)' = Counting(d)
  BY <1>1 DEF Counting, Continue, TypeOK
<1>5. \A d \in Counters :
         Cardinality(Counting(d)') =
            IF d = c THEN Cardinality(Counting(d)) - 1 ELSE Cardinality(Counting(d))
  BY <1>3, <1>4 DEF Counting
<1> QED
  BY <1>5 DEF AboutTo, Counting

\* Where a handler goes that is not about to count before or after.
LEMMA CountingStays ==
    ASSUME TypeOK, NEW r \in Requests, call[r] \notin Counters,
           NEW next, next \notin Counters, Continue(r, next)
    PROVE  \A d \in Counters : AboutTo(d)' = AboutTo(d)
<1>1. \A d \in Counters : Counting(d)' = Counting(d)
  BY DEF Counting, Continue, TypeOK
<1> QED
  BY <1>1 DEF AboutTo, Counting

\* One more token is one more pair.
LEMMA OneMoreToken ==
    ASSUME TypeOK, NEW r \in Requests, Token(r)
    PROVE  Cardinality(TokenCalls') = Cardinality(TokenCalls) + 1
<1>1. /\ sent[r] \in 0 .. MaxTokens /\ sent[r] < MaxTokens
      /\ sent' = [sent EXCEPT ![r] = sent[r] + 1]
      /\ \A q \in Requests : sent[q] \in 0 .. MaxTokens
  BY DEF Token, TypeOK, LifecycleTypeOK
<1>2. sent[r] + 1 \in 1 .. MaxTokens
  BY <1>1, MaxTokensAssumption
<1>3. \A q \in Requests : sent'[q] = IF q = r THEN sent[r] + 1 ELSE sent[q]
  BY <1>1 DEF TypeOK, LifecycleTypeOK
<1>4. ASSUME NEW q \in Requests, NEW n \in 1 .. MaxTokens
      PROVE  n <= sent'[q] <=> n <= sent[q] \/ (q = r /\ n = sent[r] + 1)
  BY <1>1, <1>3, MaxTokensAssumption
<1>5. TokenCalls' = TokenCalls \cup {<<r, sent[r] + 1>>}
  BY <1>2, <1>4 DEF TokenCalls
<1>6. <<r, sent[r] + 1>> \notin TokenCalls
  BY <1>1, MaxTokensAssumption DEF TokenCalls
<1> QED
  BY <1>5, <1>6, FiniteCounts, FS_AddElement

LEMMA CountStart ==
    ASSUME TypeOK, CountInv, NEW r \in Requests, OnRequestStart(r)
    PROVE  CountInv'
<1>1. /\ r \notin started /\ started' = started \cup {r} /\ r \notin failed
      /\ UNCHANGED <<total, sent, failed>> /\ stage' = [stage EXCEPT ![r] = "open"]
  BY DEF OnRequestStart, Start, MoveTo, CountInv
<1>2. Cardinality(started') = Cardinality(started) + 1
  BY <1>1, FiniteCounts, FS_AddElement
<1>3. /\ AboutTo("requests")' = AboutTo("requests") + 1
      /\ AboutTo("tokens")' = AboutTo("tokens")
  BY CountingJoins DEF OnRequestStart, Counters
<1>4. TokenCalls' = TokenCalls
  BY <1>1 DEF TokenCalls
<1>5. /\ total["requests"] \in Nat /\ AboutTo("requests") \in Nat
      /\ Cardinality(started) \in Nat
  BY FiniteCounts DEF TypeOK, Counters, AboutTo, Counting
<1>6. CountersAreExact'
  BY <1>1, <1>2, <1>3, <1>4, <1>5 DEF CountInv, CountersAreExact
<1>7. /\ \A q \in started' : stage'[q] # "new"
      /\ \A q \in failed' : stage'[q] \in {"last", "returned"}
  BY <1>1 DEF CountInv, TypeOK, LifecycleTypeOK
<1> QED
  BY <1>6, <1>7 DEF CountInv

LEMMA CountToken ==
    ASSUME TypeOK, CountInv, NEW r \in Requests, OnToken(r)
    PROVE  CountInv'
<1>1. UNCHANGED <<total, started, failed, stage>>
  BY DEF OnToken, Token, historyVars
<1>2. Cardinality(TokenCalls') = Cardinality(TokenCalls) + 1
  BY OneMoreToken DEF OnToken
<1>3. /\ AboutTo("tokens")' = AboutTo("tokens") + 1
      /\ AboutTo("requests")' = AboutTo("requests")
  BY CountingJoins DEF OnToken, Counters
<1>4. /\ total["tokens"] \in Nat /\ AboutTo("tokens") \in Nat
      /\ Cardinality(TokenCalls) \in Nat
  BY FiniteCounts DEF TypeOK, Counters, AboutTo, Counting
<1> QED
  BY <1>1, <1>2, <1>3, <1>4 DEF CountInv, CountersAreExact

\* The atomic Add: the counter goes up as the handler leaves those about to.
LEMMA CountCount ==
    ASSUME TypeOK, CountInv, NEW r \in Requests, Count(r)
    PROVE  CountInv'
<1> PICK c \in {"requests", "tokens"} : call[r] = c
  BY DEF Count
<1>1. c \in Counters /\ UNCHANGED <<started, failed, stage, sent>>
  BY DEF Count, Counters, lifecycleVars, historyVars
<1>2. \A d \in Counters :
         AboutTo(d)' = IF d = c THEN AboutTo(d) - 1 ELSE AboutTo(d)
  BY <1>1, CountingLeaves DEF Count
<1>3. \A d \in Counters : total'[d] = IF d = c THEN total[d] + 1 ELSE total[d]
  BY <1>1 DEF Count, Increment, TypeOK
<1>4. TokenCalls' = TokenCalls
  BY <1>1 DEF TokenCalls
<1>5. \A d \in Counters : total[d] \in Nat /\ AboutTo(d) \in Nat
  BY FiniteCounts DEF TypeOK, AboutTo, Counting
<1>6. "requests" \in Counters /\ "tokens" \in Counters
  BY DEF Counters
<1>7. \A d \in Counters : total'[d] + AboutTo(d)' = total[d] + AboutTo(d)
  BY <1>2, <1>3, <1>5
<1>8. total'["errors"] = total["errors"]
  BY <1>3 DEF Counters
<1> QED
  BY <1>1, <1>4, <1>6, <1>7, <1>8 DEF CountInv, CountersAreExact

\* A call to OnError: one more error, of a request that had none.
LEMMA CountError ==
    ASSUME TypeOK, CountInv, NEW r \in Requests, OnError(r)
    PROVE  CountInv'
<1>1. /\ r \notin failed /\ failed' = failed \cup {r} /\ UNCHANGED <<sent, started>>
      /\ call[r] = "none" /\ Continue(r, "forget")
      /\ stage' = [stage EXCEPT ![r] = "last"]
      /\ total' = [total EXCEPT !["errors"] = @ + 1]
  BY DEF OnError, Fail, MoveTo, Increment, CountInv
<1>2. Cardinality(failed') = Cardinality(failed) + 1
  BY <1>1, FiniteCounts, FS_AddElement
<1>3. \A d \in Counters : AboutTo(d)' = AboutTo(d)
  BY <1>1, CountingStays DEF Counters
<1>4. /\ total'["requests"] = total["requests"] /\ total'["tokens"] = total["tokens"]
      /\ total'["errors"] = total["errors"] + 1
  BY <1>1 DEF TypeOK, Counters
<1>5. TokenCalls' = TokenCalls /\ "requests" \in Counters /\ "tokens" \in Counters
  BY <1>1 DEF TokenCalls, Counters
<1>6. CountersAreExact'
  BY <1>1, <1>2, <1>3, <1>4, <1>5 DEF CountInv, CountersAreExact
<1>7. /\ \A q \in started' : stage'[q] # "new"
      /\ \A q \in failed' : stage'[q] \in {"last", "returned"}
  BY <1>1 DEF CountInv, TypeOK, LifecycleTypeOK
<1> QED
  BY <1>6, <1>7 DEF CountInv

\* The other steps leave the counters and those about to count alone.
LEMMA CountOther ==
    ASSUME TypeOK, CountInv,
           \A d \in {"requests", "tokens"} : AboutTo(d)' = AboutTo(d),
           UNCHANGED <<total, sent, started, failed>>,
           \A q \in Requests :
              /\ stage[q] # "new" => stage'[q] # "new"
              /\ stage[q] \in {"last", "returned"} => stage'[q] \in {"last", "returned"}
    PROVE  CountInv'
<1>1. TokenCalls' = TokenCalls
  BY DEF TokenCalls
<1>2. started \subseteq Requests /\ failed \subseteq Requests
  BY DEF TypeOK
<1> QED
  BY <1>1, <1>2 DEF CountInv, CountersAreExact

LEMMA CountNext == TypeOK /\ CountInv /\ [Next]_vars => CountInv'
<1> SUFFICES ASSUME TypeOK, CountInv, [Next]_vars PROVE CountInv'
  OBVIOUS
<1>1. "requests" \in Counters /\ "tokens" \in Counters
  BY DEF Counters
<1>2. ASSUME call' = call
      PROVE  \A d \in Counters : AboutTo(d)' = AboutTo(d)
  BY <1>2 DEF AboutTo
<1>3. ASSUME NEW r \in Requests, OnRequestComplete(r) \/ HandlerReturn(r)
      PROVE  CountInv'
  <2>1. UNCHANGED <<call, total, sent, started, failed>>
    BY <1>3 DEF OnRequestComplete, HandlerReturn, Complete, Return, historyVars
  <2>2. \/ stage[r] \in {"open", "completed"} /\ stage' = [stage EXCEPT ![r] = "completed"]
        \/ stage[r] = "open" /\ stage' = [stage EXCEPT ![r] = "abandoned"]
        \/ stage[r] # "open" /\ stage' = [stage EXCEPT ![r] = "returned"]
    BY <1>3 DEF OnRequestComplete, HandlerReturn, Complete, Return, MoveTo, MayCall
  <2>3. \A q \in Requests :
           /\ stage[q] # "new" => stage'[q] # "new"
           /\ stage[q] \in {"last", "returned"} => stage'[q] \in {"last", "returned"}
    BY <2>2 DEF TypeOK, LifecycleTypeOK
  <2> QED
    BY <1>1, <1>2, <2>1, <2>3, CountOther
<1>4. ASSUME NEW r \in Requests, Forget(r)
      PROVE  CountInv'
  <2>1. /\ UNCHANGED <<stage, sent, started, failed, total>> /\ call[r] = "forget"
        /\ Continue(r, "none")
    BY <1>4 DEF Forget, lifecycleVars, historyVars
  <2>2. \A d \in Counters : AboutTo(d)' = AboutTo(d)
    BY <2>1, CountingStays DEF Counters
  <2> QED
    BY <1>1, <2>1, <2>2, CountOther
<1>5. CASE Load \/ Respond \/ UNCHANGED vars
  <2>1. UNCHANGED <<call, total, sent, stage, started, failed>>
    BY <1>5 DEF Load, Respond, vars, lifecycleVars, historyVars
  <2> QED
    BY <1>1, <1>2, <2>1, CountOther
<1> QED
  BY <1>3, <1>4, <1>5, CountStart, CountToken, CountCount, CountError DEF Next

\* Concurrent handlers lose no increment and count nothing twice, for any
\* number of requests, tokens and errors and whatever identifiers they draw
\* (metrics.go:50, 60, 114, logging.go:43).
THEOREM NoIncrementIsLost == Spec => []CountersAreExact
<1>1. Init => CountInv
  <2> SUFFICES ASSUME Init PROVE CountInv
    OBVIOUS
  <2>1. TokenCalls = {}
    BY MaxTokensAssumption DEF Init, LifecycleInit, TokenCalls
  <2>2. AboutTo("requests") = 0 /\ AboutTo("tokens") = 0
    <3>1. \A c \in Counters : \A r \in Requests : call[r] # c
      BY DEF Init, Counters
    <3>2. \A c \in Counters : {r \in Requests : call[r] = c} = {}
      BY <3>1
    <3> QED
      BY <3>2, FS_EmptySet DEF AboutTo, Counters
  <2>3. /\ started = {} /\ failed = {} /\ total["requests"] = 0 /\ total["tokens"] = 0
        /\ total["errors"] = 0
    BY DEF Init, Counters
  <2> QED
    BY <2>1, <2>2, <2>3, FS_EmptySet DEF CountInv, CountersAreExact
<1>2. CountInv => CountersAreExact
  BY DEF CountInv
<1> QED
  BY <1>1, <1>2, InitType, NextType, CountNext, PTL DEF Spec

-----------------------------------------------------------------------------
(* Scrapes.                                                                *)

\* The counters have not gone down since the current scrape began.
Bracketed ==
    /\ ScrapeIsBracketed
    /\ \A c \in Counters : atStart[c] <= total[c]

\* A step that is not one of the scrape leaves the counters or increments one.
LEMMA TotalGrows ==
    ASSUME TypeOK, NEW r \in Requests,
           \/ OnRequestStart(r) \/ OnToken(r) \/ Count(r)
           \/ OnRequestComplete(r) \/ OnError(r) \/ Forget(r)
           \/ HandlerReturn(r)
    PROVE  /\ UNCHANGED scrapeVars
           /\ \A c \in Counters : total'[c] \in Nat /\ total[c] <= total'[c]
<1>1. UNCHANGED scrapeVars
  BY DEF OnRequestStart, OnToken, Count, OnRequestComplete, OnError, Forget,
     HandlerReturn
<1>2. \/ total' = total
      \/ \E c \in Counters : Increment(c)
  BY DEF OnRequestStart, OnToken, Count, OnRequestComplete, OnError, Forget,
     HandlerReturn, Counters
<1>3. \A c \in Counters : total[c] \in Nat
  BY DEF TypeOK
<1>4. CASE total' = total
  BY <1>1, <1>3, <1>4
<1>5. ASSUME NEW d \in Counters, Increment(d)
      PROVE  \A c \in Counters : total'[c] \in Nat /\ total[c] <= total'[c]
  <2>1. total' = [total EXCEPT ![d] = total[d] + 1] /\ DOMAIN total = Counters
    BY <1>5 DEF Increment, TypeOK
  <2>2. \A c \in Counters : total'[c] = IF c = d THEN total[c] + 1 ELSE total[c]
    BY <2>1
  <2> QED
    BY <1>3, <2>2
<1> QED
  BY <1>1, <1>2, <1>4, <1>5

LEMMA BracketedNext == TypeOK /\ Bracketed /\ [Next]_vars => Bracketed'
<1> SUFFICES ASSUME TypeOK, Bracketed, [Next]_vars PROVE Bracketed'
  OBVIOUS
<1> USE DEF Bracketed, ScrapeIsBracketed
<1>1. ASSUME NEW r \in Requests,
             \/ OnRequestStart(r) \/ OnToken(r) \/ Count(r)
             \/ OnRequestComplete(r) \/ OnError(r) \/ Forget(r)
             \/ HandlerReturn(r)
      PROVE  Bracketed'
  <2>1. /\ scrape' = scrape /\ atStart' = atStart
        /\ \A c \in Counters : total'[c] \in Nat /\ total[c] <= total'[c]
    BY <1>1, TotalGrows DEF scrapeVars
  <2>2. \A i \in DOMAIN scrape : ScrapeOrder[i] \in Counters /\ scrape[i] \in Nat
    BY ScrapeOrderType DEF TypeOK
  <2>3. \A c \in Counters : total[c] \in Nat /\ atStart[c] \in Nat
    BY DEF TypeOK
  <2> QED
    BY <2>1, <2>2, <2>3
<1>2. CASE Load
  <2>1. scrape \in Seq(Nat)
    BY <1>2, LoadIndex
  <2>2. /\ scrape' = Append(scrape, total[ScrapeOrder[Len(scrape) + 1]])
        /\ ScrapeOrder[Len(scrape) + 1] \in Counters
        /\ atStart' = IF scrape = <<>> THEN total ELSE atStart
        /\ total' = total
    BY <1>2, LoadIndex
  <2>3. \A c \in Counters : total[c] \in Nat /\ atStart'[c] <= total[c]
    BY <2>2 DEF TypeOK
  <2>4. ASSUME NEW i \in DOMAIN scrape'
        PROVE  /\ atStart'[ScrapeOrder[i]] <= scrape'[i]
               /\ scrape'[i] <= total[ScrapeOrder[i]]
    <3>1. i \in 1 .. Len(scrape) + 1
      BY <2>1, <2>2, <2>4
    <3>2. CASE i = Len(scrape) + 1
      <4>1. scrape'[i] = total[ScrapeOrder[i]]
        BY <2>1, <2>2, <3>2
      <4> QED
        BY <4>1, <2>2, <2>3, <3>2
    <3>3. CASE i \in 1 .. Len(scrape)
      <4>1. scrape'[i] = scrape[i] /\ i \in DOMAIN scrape
        BY <2>1, <2>2, <3>3
      <4>2. scrape # <<>>
        BY <2>1, <3>3
      <4> QED
        BY <4>1, <4>2, <2>2
    <3> QED
      BY <3>1, <3>2, <3>3, <2>1
  <2> QED
    BY <2>2, <2>3, <2>4
<1>3. CASE Respond
  BY <1>3 DEF Respond
<1>4. CASE UNCHANGED vars
  BY <1>4 DEF vars
<1> QED
  BY <1>1, <1>2, <1>3, <1>4 DEF Next

\* Each number of a scrape was current at some time during the scrape, however
\* many requests run meanwhile (metrics.go:131-133).
THEOREM ScrapesAreTrue == Spec => []ScrapeIsBracketed
<1>1. Init => Bracketed
  BY InitType DEF Init, TypeOK, Bracketed, ScrapeIsBracketed
<1>2. TypeOK /\ Bracketed /\ [Next]_vars => (TypeOK /\ Bracketed)'
  BY NextType, BracketedNext
<1>3. Bracketed => ScrapeIsBracketed
  BY DEF Bracketed
<1> QED
  BY <1>1, <1>2, <1>3, InitType, PTL DEF Spec

-----------------------------------------------------------------------------
(* The map.                                                                *)

HandlerStep(r) ==
    \/ OnRequestStart(r) \/ OnToken(r) \/ Count(r)
    \/ OnRequestComplete(r) \/ OnError(r) \/ Forget(r) \/ HandlerReturn(r)

\* What is inductive about the entry of a request whose identifier nobody else
\* has: no token before the start, and the two invariants together.
EntryInv(r) ==
    /\ stage[r] = "new" => sent[r] = 0
    /\ \A e \in inFlight[ReqID[r]] : e.owner = r /\ (e.firstTok <=> sent[r] > 0)
    /\ (call[r] # "forget" /\ inFlight[ReqID[r]] # {})
          => stage[r] \in {"open", "abandoned"}

EntriesInv == \A r \in Requests : Alone(r) => EntryInv(r)

\* A handler leaves what belongs to another identifier alone.
LEMMA OthersUntouched ==
    ASSUME TypeOK, NEW r \in Requests, NEW q \in Requests, HandlerStep(q),
           q # r, ReqID[q] # ReqID[r]
    PROVE  /\ stage'[r] = stage[r] /\ sent'[r] = sent[r] /\ call'[r] = call[r]
           /\ inFlight'[ReqID[r]] = inFlight[ReqID[r]]
<1>1. ReqID[r] \in Ids /\ ReqID[q] \in Ids
  BY ReqIDAssumption
<1> QED
  BY <1>1
  DEF HandlerStep, OnRequestStart, OnToken, Count, OnRequestComplete, OnError,
      Forget, HandlerReturn, Start, Token, Complete, Fail, Return, MoveTo,
      Continue, TypeOK, LifecycleTypeOK, lifecycleVars

\* A step of the request itself.
LEMMA OwnEntry ==
    ASSUME TypeOK, NEW r \in Requests, HandlerStep(r), EntryInv(r)
    PROVE  EntryInv(r)'
<1>1. ReqID[r] \in Ids /\ ReqID' = ReqID
  BY ReqIDAssumption
<1>2. /\ stage \in [Requests -> Stages] /\ sent \in [Requests -> Nat]
      /\ call \in [Requests -> Counters \cup {"none", "forget"}]
      /\ inFlight \in [Ids -> SUBSET Entry]
  BY MaxTokensAssumption DEF TypeOK, LifecycleTypeOK
<1>3. CASE OnRequestStart(r)
  <2>1. inFlight'[ReqID[r]] = {[owner |-> r, firstTok |-> FALSE]}
    BY <1>1, <1>2, <1>3 DEF OnRequestStart
  <2>2. sent'[r] = 0 /\ stage'[r] = "open"
    BY <1>2, <1>3 DEF OnRequestStart, Start, MoveTo, EntryInv
  <2> QED
    BY <2>1, <2>2 DEF EntryInv
<1>4. CASE OnToken(r)
  <2>1. inFlight'[ReqID[r]] = {Seen(e) : e \in inFlight[ReqID[r]]}
    BY <1>1, <1>2, <1>4 DEF OnToken
  <2>2. /\ sent'[r] = sent[r] + 1 /\ sent'[r] > 0
        /\ stage' = stage /\ stage[r] # "new"
        /\ call[r] # "forget"
    BY <1>2, <1>4 DEF OnToken, Token, MayCall
  <2>3. inFlight[ReqID[r]] \in SUBSET Entry
    BY <1>1, <1>2
  <2>4. \A e \in inFlight[ReqID[r]] : Seen(e).owner = r /\ Seen(e).firstTok = TRUE
    BY <2>3 DEF Seen, Entry, EntryInv
  <2>5. \A e \in inFlight'[ReqID[r]] :
           e.owner = r /\ (e.firstTok <=> sent'[r] > 0)
    BY <2>1, <2>2, <2>4
  <2>6. inFlight'[ReqID[r]] # {} => inFlight[ReqID[r]] # {}
    BY <2>1
  <2> QED
    BY <1>1, <2>2, <2>5, <2>6 DEF EntryInv
<1>5. CASE Count(r)
  BY <1>1, <1>2, <1>5 DEF Count, lifecycleVars, Counters, EntryInv
<1>6. CASE OnRequestComplete(r) \/ Forget(r)
  <2>1. inFlight'[ReqID[r]] = {}
    BY <1>1, <1>2, <1>6 DEF OnRequestComplete, Forget
  <2>2. stage'[r] = "new" => sent'[r] = 0
    BY <1>2, <1>6
    DEF OnRequestComplete, Forget, Complete, MoveTo, lifecycleVars, EntryInv
  <2> QED
    BY <1>1, <2>1, <2>2 DEF EntryInv
<1>7. CASE OnError(r)
  BY <1>1, <1>2, <1>7 DEF OnError, Fail, MoveTo, Continue, EntryInv
<1>8. CASE HandlerReturn(r)
  <2>1. /\ stage'[r] = IF stage[r] = "open" THEN "abandoned" ELSE "returned"
        /\ stage[r] # "abandoned"
        /\ call' = call /\ call[r] = "none" /\ sent' = sent /\ inFlight' = inFlight
    BY <1>2, <1>8 DEF HandlerReturn, Return, MoveTo, Finished
  <2> QED
    BY <1>1, <2>1 DEF EntryInv
<1> QED
  BY <1>3, <1>4, <1>5, <1>6, <1>7, <1>8 DEF HandlerStep

LEMMA EntriesNext == TypeOK /\ EntriesInv /\ [Next]_vars => EntriesInv'
<1> SUFFICES ASSUME TypeOK, EntriesInv, [Next]_vars,
                    NEW r \in Requests, Alone(r)
             PROVE  EntryInv(r)'
  BY DEF EntriesInv, Alone
<1>1. EntryInv(r)
  BY DEF EntriesInv
<1>2. ASSUME NEW q \in Requests, HandlerStep(q)
      PROVE  EntryInv(r)'
  <2>1. CASE q = r
    BY <1>1, <1>2, <2>1, OwnEntry
  <2>2. CASE q # r
    <3>1. ReqID[q] # ReqID[r]
      BY <2>2 DEF Alone
    <3> QED
      BY <1>1, <1>2, <2>2, <3>1, OthersUntouched DEF EntryInv
  <2> QED
    BY <2>1, <2>2
<1>3. CASE Load \/ Respond \/ UNCHANGED vars
  <2>1. UNCHANGED <<stage, sent, call, inFlight>>
    BY <1>3 DEF Load, Respond, vars, lifecycleVars
  <2> QED
    BY <1>1, <2>1 DEF EntryInv
<1> QED
  BY <1>2, <1>3 DEF Next, HandlerStep

LEMMA EntriesCorrect == Spec => []EntriesInv
<1>1. Init => EntriesInv
  BY ReqIDAssumption DEF Init, LifecycleInit, EntriesInv, EntryInv
<1> QED
  BY <1>1, InitType, NextType, EntriesNext, PTL DEF Spec

\* A completion finds the timings of its own request, in which the first token
\* is marked exactly if one was sent, unless another request drew its
\* identifier (metrics.go:55, 92, logging.go:43).
THEOREM TimingsAreOwn == Spec => []EntryIsOwn
<1>1. EntriesInv => EntryIsOwn
  BY DEF EntriesInv, EntryInv, EntryIsOwn
<1> QED
  BY <1>1, EntriesCorrect, PTL

\* The map does not grow but by requests whose handler gave up without
\* OnRequestComplete or OnError (metrics.go:113-119).
THEOREM OnlyTheAbandonedStay == Spec => []OnlyAbandonedLeak
<1>1. EntriesInv => OnlyAbandonedLeak
  BY DEF EntriesInv, EntryInv, OnlyAbandonedLeak
<1> QED
  BY <1>1, EntriesCorrect, PTL

=============================================================================
