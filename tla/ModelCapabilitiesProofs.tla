---------------------- MODULE ModelCapabilitiesProofs -----------------------
(***************************************************************************)
(* Theorems about ModelCapabilities and their proofs.                      *)
(***************************************************************************)
EXTENDS ModelCapabilities, TLAPS

\* An answer on its way to the cache is grounded like one that is there.
FetchIsGrounded ==
    \A r \in Requests : pc[r] = "store" =>
        IF caps[r] THEN model[r] \in ever
        ELSE model[r] \notin always \/ model[r] \in failed

\* The history variables bracket what Ollama would answer now.
HistoryIsRight == always \subseteq capable /\ capable \subseteq ever

Grounded == CacheIsGrounded /\ FetchIsGrounded /\ HistoryIsRight

-----------------------------------------------------------------------------
(* Types.                                                                  *)

LEMMA InitType == Init => TypeOK
BY DEF Init, TypeOK

LEMMA DecideType ==
    ASSUME TypeOK, NEW r \in Requests, NEW supports \in BOOLEAN,
           Decide(r, supports)
    PROVE  forwarded' \in [Requests -> {"none", "asIs", "stripped"}]
BY DEF TypeOK, Decide

LEMMA GotoType ==
    ASSUME TypeOK, NEW r \in Requests,
           NEW label \in {"new", "lookup", "fetch", "store", "done"}, Goto(r, label)
    PROVE  pc' \in [Requests -> {"new", "lookup", "fetch", "store", "done"}]
BY DEF TypeOK, Goto

\* A handler that decides is done, and one that does not decide is not.
LEMMA DecisionType ==
    ASSUME TypeOK, NEW r \in Requests, NEW label, Goto(r, label),
           \/ label = "done" /\ \E supports \in BOOLEAN : Decide(r, supports)
           \/ label # "done" /\ pc[r] # "done" /\ UNCHANGED forwarded
    PROVE  \A q \in Requests : forwarded'[q] # "none" <=> pc'[q] = "done"
BY DEF TypeOK, Decide, Goto

LEMMA CheckBodyType ==
    ASSUME TypeOK, NEW r \in Requests, CheckBody(r)
    PROVE  TypeOK'
<1>1. pc' \in [Requests -> {"new", "lookup", "fetch", "store", "done"}]
  <2>1. Goto(r, "done") \/ Goto(r, "lookup")
    BY DEF CheckBody, PassOn
  <2> QED
    BY <2>1, GotoType
<1>2. forwarded' \in [Requests -> {"none", "asIs", "stripped"}]
  BY DecideType DEF TypeOK, CheckBody, PassOn
<1>3. \A q \in Requests : forwarded'[q] # "none" <=> pc'[q] = "done"
  <2>1. CASE PassOn(r)
    BY <2>1, DecisionType DEF PassOn
  <2>2. CASE ~PassOn(r)
    BY <2>2, DecisionType DEF CheckBody
  <2> QED
    BY <2>1, <2>2
<1> QED
  BY <1>1, <1>2, <1>3 DEF TypeOK, CheckBody, ollamaVars

LEMMA LookupType ==
    ASSUME TypeOK, NEW r \in Requests, Lookup(r)
    PROVE  TypeOK'
<1>1. pc' \in [Requests -> {"new", "lookup", "fetch", "store", "done"}]
  <2>1. Goto(r, "done") \/ Goto(r, "fetch")
    BY DEF Lookup
  <2> QED
    BY <2>1, GotoType
<1>2. \A known \in cache[model[r]] : known \in BOOLEAN
  BY DEF TypeOK
<1>3. forwarded' \in [Requests -> {"none", "asIs", "stripped"}]
  BY <1>2, DecideType DEF TypeOK, Lookup
<1>4. \A q \in Requests : forwarded'[q] # "none" <=> pc'[q] = "done"
  BY <1>2, DecisionType DEF Lookup
<1> QED
  BY <1>1, <1>3, <1>4 DEF TypeOK, Lookup, ollamaVars

LEMMA FetchType ==
    ASSUME TypeOK, NEW r \in Requests, Fetch(r)
    PROVE  TypeOK'
<1>1. pc' \in [Requests -> {"new", "lookup", "fetch", "store", "done"}]
  BY GotoType DEF Fetch
<1>2. caps' \in [Requests -> BOOLEAN] /\ failed' \in SUBSET Models
  <2>1. model[r] \in Models
    BY DEF TypeOK
  <2>2. CASE caps' = [caps EXCEPT ![r] = model[r] \in capable] /\ UNCHANGED failed
    BY <2>2 DEF TypeOK
  <2>3. CASE /\ caps' = [caps EXCEPT ![r] = FALSE]
             /\ failed' = failed \cup {model[r]}
    BY <2>1, <2>3 DEF TypeOK
  <2> QED
    BY <2>2, <2>3 DEF Fetch
<1>3. \A q \in Requests : forwarded'[q] # "none" <=> pc'[q] = "done"
  BY DecisionType DEF Fetch
<1> QED
  BY <1>1, <1>2, <1>3 DEF TypeOK, Fetch, ollamaVars

LEMMA StoreType ==
    ASSUME TypeOK, NEW r \in Requests, Store(r)
    PROVE  TypeOK'
<1>1. pc' \in [Requests -> {"new", "lookup", "fetch", "store", "done"}]
  BY GotoType DEF Store
<1>2. caps[r] \in BOOLEAN /\ model[r] \in Models
  BY DEF TypeOK
<1>3. forwarded' \in [Requests -> {"none", "asIs", "stripped"}]
  BY <1>2, DecideType DEF TypeOK, Store
<1>4. cache' = [cache EXCEPT ![model[r]] = {caps[r]}]
  BY DEF Store, Remember
<1>5. /\ cache' \in [Models -> SUBSET BOOLEAN]
      /\ \A m \in Models : \A known, other \in cache'[m] : known = other
  BY <1>2, <1>4 DEF TypeOK
<1>6. \A q \in Requests : forwarded'[q] # "none" <=> pc'[q] = "done"
  BY <1>2, DecisionType DEF Store
<1> QED
  BY <1>1, <1>3, <1>5, <1>6 DEF TypeOK, Store, ollamaVars

LEMMA ModelChangesType ==
    ASSUME TypeOK, NEW m \in Models, ModelChanges(m)
    PROVE  TypeOK'
BY DEF TypeOK, ModelChanges

LEMMA NextType == TypeOK /\ [Next]_vars => TypeOK'
<1> SUFFICES ASSUME TypeOK, [Next]_vars PROVE TypeOK'
  OBVIOUS
<1>1. CASE \E r \in Requests : CheckBody(r) \/ Lookup(r) \/ Fetch(r) \/ Store(r)
  BY <1>1, CheckBodyType, LookupType, FetchType, StoreType
<1>2. CASE \E m \in Models : ModelChanges(m)
  BY <1>2, ModelChangesType
<1>3. CASE UNCHANGED vars
  BY <1>3 DEF TypeOK, vars
<1> QED
  BY <1>1, <1>2, <1>3 DEF Next

\* Every reachable state is of its types: a handler has a body to forward exactly
\* when maybeStripTools has returned, and no model has two cached answers
\* (proxy.go:207-247, capabilities.go:54-60).
THEOREM TypeCorrect == Spec => []TypeOK
<1> QED
  BY InitType, NextType, PTL DEF Spec

-----------------------------------------------------------------------------
(* What is cached.                                                         *)

LEMMA GroundedInit == Init => Grounded
BY DEF Init, Grounded, CacheIsGrounded, FetchIsGrounded, HistoryIsRight

LEMMA GroundedFetch ==
    ASSUME TypeOK, Grounded, NEW r \in Requests, Fetch(r)
    PROVE  Grounded'
<1>1. model' = model /\ cache' = cache /\ UNCHANGED ollamaVars
  BY DEF Fetch
<1>2. failed \subseteq failed'
  BY DEF Fetch
<1>3. CacheIsGrounded' /\ HistoryIsRight'
  BY <1>1, <1>2 DEF Grounded, CacheIsGrounded, HistoryIsRight, ollamaVars
<1>4. FetchIsGrounded'
  <2> SUFFICES ASSUME NEW q \in Requests, pc'[q] = "store"
               PROVE  IF caps'[q] THEN model[q] \in ever
                      ELSE model[q] \notin always \/ model[q] \in failed'
    BY <1>1 DEF FetchIsGrounded, ollamaVars
  <2>1. CASE q = r
    BY <2>1 DEF Fetch, TypeOK, Grounded, HistoryIsRight
  <2>2. CASE q # r
    <3>1. pc'[q] = pc[q] /\ caps'[q] = caps[q]
      BY <2>2 DEF Fetch, Goto, TypeOK
    <3> QED
      BY <3>1, <1>2 DEF Grounded, FetchIsGrounded
  <2> QED
    BY <2>1, <2>2
<1> QED
  BY <1>3, <1>4 DEF Grounded

LEMMA GroundedStore ==
    ASSUME TypeOK, Grounded, NEW r \in Requests, Store(r)
    PROVE  Grounded'
<1>1. /\ model' = model /\ caps' = caps /\ failed' = failed
      /\ UNCHANGED ollamaVars
  BY DEF Store
<1>2. CacheIsGrounded'
  <2>1. cache' = [cache EXCEPT ![model[r]] = {caps[r]}]
    BY DEF Store, Remember
  <2>2. IF caps[r] THEN model[r] \in ever
        ELSE model[r] \notin always \/ model[r] \in failed
    BY DEF Store, Grounded, FetchIsGrounded
  <2>3. cache'[model[r]] = {caps[r]} /\ caps[r] \in BOOLEAN
    BY <2>1 DEF TypeOK
  <2>4. \A m \in Models \ {model[r]} : cache'[m] = cache[m]
    BY <2>1 DEF TypeOK
  <2>5. UNCHANGED <<ever, always, failed>>
    BY <1>1 DEF ollamaVars
  <2> SUFFICES ASSUME NEW m \in Models
               PROVE  /\ TRUE \in cache'[m] => m \in ever
                      /\ FALSE \in cache'[m] => m \notin always \/ m \in failed
    BY <2>5 DEF CacheIsGrounded
  <2>6. CASE m = model[r]
    BY <2>2, <2>3, <2>6
  <2>7. CASE m # model[r]
    BY <2>4, <2>7 DEF Grounded, CacheIsGrounded
  <2> QED
    BY <2>6, <2>7
<1>3. FetchIsGrounded'
  <2>1. \A q \in Requests : pc'[q] = "store" => pc[q] = "store"
    BY DEF Store, Goto, TypeOK
  <2> QED
    BY <1>1, <2>1 DEF Grounded, FetchIsGrounded, ollamaVars
<1> QED
  BY <1>1, <1>2, <1>3 DEF Grounded, HistoryIsRight, ollamaVars

LEMMA GroundedNext == TypeOK /\ Grounded /\ [Next]_vars => Grounded'
<1> SUFFICES ASSUME TypeOK, Grounded, [Next]_vars PROVE Grounded'
  OBVIOUS
<1>1. ASSUME NEW r \in Requests, CheckBody(r) \/ Lookup(r) PROVE Grounded'
  <2>1. \A q \in Requests : pc'[q] = "store" => pc[q] = "store"
    BY <1>1 DEF CheckBody, PassOn, Lookup, Goto, TypeOK
  <2>2. UNCHANGED <<model, caps, cache, failed, capable, ever, always>>
    BY <1>1 DEF CheckBody, Lookup, ollamaVars
  <2> QED
    BY <2>1, <2>2 DEF Grounded, CacheIsGrounded, FetchIsGrounded, HistoryIsRight
<1>2. ASSUME NEW m \in Models, ModelChanges(m) PROVE Grounded'
  BY <1>2 DEF ModelChanges, Grounded, CacheIsGrounded, FetchIsGrounded,
     HistoryIsRight
<1>3. CASE UNCHANGED vars
  BY <1>3 DEF vars, Grounded, CacheIsGrounded, FetchIsGrounded, HistoryIsRight
<1> QED
  BY <1>1, <1>2, <1>3, GroundedFetch, GroundedStore DEF Next

\* What is cached about a model was answered about it at some time, or stands
\* for a fetch that failed, whichever of several fetches is stored last
\* (capabilities.go:54-61).
THEOREM NothingIsInvented == Spec => []CacheIsGrounded
<1>1. TypeOK /\ Grounded /\ [Next]_vars => (TypeOK /\ Grounded)'
  BY NextType, GroundedNext
<1>2. Grounded => CacheIsGrounded
  BY DEF Grounded
<1> QED
  BY <1>1, <1>2, InitType, GroundedInit, PTL DEF Spec

-----------------------------------------------------------------------------
(* What is decided.                                                        *)

Decided == UnsupportedToolsAreStripped /\ SupportedToolsAreKept

\* A decision that follows a grounded answer keeps both promises.
LEMMA DecideWell ==
    ASSUME TypeOK, Decided, NEW r \in Requests, NEW supports \in BOOLEAN,
           Decide(r, supports), Goto(r, "done"),
           UNCHANGED <<model, body, failed, ollamaVars>>,
           body[r] = "tools" =>
              IF supports THEN model[r] \in ever
              ELSE model[r] \notin always \/ model[r] \in failed
    PROVE  Decided'
<1>1. /\ forwarded'[r] = IF body[r] = "tools" /\ ~supports THEN "stripped" ELSE "asIs"
      /\ pc'[r] = "done"
  BY DEF Decide, Goto, TypeOK
<1>2. \A q \in Requests \ {r} : forwarded'[q] = forwarded[q] /\ pc'[q] = pc[q]
  BY DEF Decide, Goto, TypeOK
<1>3. UnsupportedToolsAreStripped'
  BY <1>1, <1>2 DEF Decided, UnsupportedToolsAreStripped, ollamaVars
<1>4. SupportedToolsAreKept'
  BY <1>1, <1>2 DEF Decided, SupportedToolsAreKept, ollamaVars
<1> QED
  BY <1>3, <1>4 DEF Decided

\* A request that goes on without a decision keeps both promises.
LEMMA DecideLater ==
    ASSUME TypeOK, Decided, NEW r \in Requests, NEW label, Goto(r, label),
           label # "done", UNCHANGED <<model, body, forwarded, ollamaVars>>,
           failed \subseteq failed'
    PROVE  Decided'
<1>1. \A q \in Requests : pc'[q] = "done" => pc[q] = "done"
  BY DEF Goto, TypeOK
<1> QED
  BY <1>1 DEF Decided, UnsupportedToolsAreStripped, SupportedToolsAreKept,
     ollamaVars

LEMMA DecidedInit == Init => Decided
BY DEF Init, Decided, UnsupportedToolsAreStripped, SupportedToolsAreKept

LEMMA DecidedNext == TypeOK /\ Grounded /\ Decided /\ [Next]_vars => Decided'
<1> SUFFICES ASSUME TypeOK, Grounded, Decided, [Next]_vars PROVE Decided'
  OBVIOUS
<1>1. ASSUME NEW r \in Requests, CheckBody(r) PROVE Decided'
  <2>1. CASE body[r] = "plain"
    BY <1>1, <2>1, DecideWell DEF CheckBody, PassOn
  <2>2. CASE body[r] # "plain"
    BY <1>1, <2>2, DecideLater DEF CheckBody
  <2> QED
    BY <2>1, <2>2
<1>2. ASSUME NEW r \in Requests, Lookup(r) PROVE Decided'
  <2>1. CASE cache[model[r]] = {} /\ Goto(r, "fetch") /\ UNCHANGED forwarded
    BY <1>2, <2>1, DecideLater DEF Lookup
  <2>2. ASSUME NEW known \in cache[model[r]], Decide(r, known), Goto(r, "done")
        PROVE  Decided'
    <3>1. model[r] \in Models /\ known \in BOOLEAN
      BY DEF TypeOK
    <3>2. IF known THEN model[r] \in ever
          ELSE model[r] \notin always \/ model[r] \in failed
      BY <2>2, <3>1 DEF Grounded, CacheIsGrounded
    <3> QED
      BY <1>2, <2>2, <3>1, <3>2, DecideWell DEF Lookup
  <2> QED
    BY <1>2, <2>1, <2>2 DEF Lookup
<1>3. ASSUME NEW r \in Requests, Fetch(r) PROVE Decided'
  BY <1>3, DecideLater DEF Fetch
<1>4. ASSUME NEW r \in Requests, Store(r) PROVE Decided'
  <2>1. caps[r] \in BOOLEAN
    BY DEF TypeOK
  <2>2. IF caps[r] THEN model[r] \in ever
        ELSE model[r] \notin always \/ model[r] \in failed
    BY <1>4 DEF Store, Grounded, FetchIsGrounded
  <2> QED
    BY <1>4, <2>1, <2>2, DecideWell DEF Store
<1>5. ASSUME NEW m \in Models, ModelChanges(m) PROVE Decided'
  BY <1>5 DEF ModelChanges, Decided, UnsupportedToolsAreStripped,
     SupportedToolsAreKept
<1>6. CASE UNCHANGED vars
  BY <1>6 DEF vars, Decided, UnsupportedToolsAreStripped, SupportedToolsAreKept
<1> QED
  BY <1>1, <1>2, <1>3, <1>4, <1>5, <1>6 DEF Next

LEMMA Decisions == Spec => []Decided
<1>1. TypeOK /\ Grounded /\ Decided /\ [Next]_vars => (TypeOK /\ Grounded /\ Decided)'
  BY NextType, GroundedNext, DecidedNext
<1> QED
  BY <1>1, InitType, GroundedInit, DecidedInit, PTL DEF Spec

\* A model that has never supported tools is never sent any, for any number of
\* requests that fetch at once (proxy.go:207-247).
THEOREM NoToolsForTheUnable == Spec => []UnsupportedToolsAreStripped
<1>1. Decided => UnsupportedToolsAreStripped
  BY DEF Decided
<1> QED
  BY <1>1, Decisions, PTL

\* If no fetch about a model has failed and it has always supported tools, none
\* is stripped (capabilities.go:44-61).
THEOREM NoToolsLostByRaces == Spec => []SupportedToolsAreKept
<1>1. Decided => SupportedToolsAreKept
  BY DEF Decided
<1> QED
  BY <1>1, Decisions, PTL

=============================================================================
