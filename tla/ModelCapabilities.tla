-------------------------- MODULE ModelCapabilities --------------------------
(***************************************************************************)
(* capabilities.go and ProxyHandler.maybeStripTools: before a request is   *)
(* forwarded, its tools are removed if the model is not known to support   *)
(* them.  What Ollama answers about a model is cached for the life of the  *)
(* proxy.  The lock is not held while the answer is fetched, so requests   *)
(* for one model may fetch at the same time.                               *)
(*                                                                         *)
(* A capability list is abstracted to whether it has "tools"; the nil list *)
(* that stands for a failed fetch has not.  `ever', `always' and `failed'  *)
(* are history variables.                                                  *)
(***************************************************************************)
EXTENDS Naturals

CONSTANTS
    Requests,    \* the handler invocations
    Models       \* the models they ask for

VARIABLES
    pc,          \* the next step of each request
    model,       \* the model it asks for
    body,        \* what its body says of tools
    caps,        \* what the fetch of the request returned
    forwarded,   \* what was decided about the body
    cache,       \* per model, at most one cached answer
    capable,     \* models that support tools, as Ollama would answer now
    ever,        \* models that have supported tools at some time
    always,      \* models that have supported them all the time
    failed       \* models one of whose fetches has failed

vars == <<pc, model, body, caps, forwarded, cache, capable, ever, always, failed>>

\* A body with the text "tools" in quotes is a JSON object with one of the
\* keys that can be stripped ("tools"), or it is not ("mention").
Bodies == {"tools", "mention", "plain"}

TypeOK ==
    /\ pc \in [Requests -> {"new", "lookup", "fetch", "store", "done"}]
    /\ model \in [Requests -> Models]
    /\ body \in [Requests -> Bodies]
    /\ caps \in [Requests -> BOOLEAN]
    /\ forwarded \in [Requests -> {"none", "asIs", "stripped"}]
    /\ \A r \in Requests : forwarded[r] # "none" <=> pc[r] = "done"
    /\ cache \in [Models -> SUBSET BOOLEAN]
    /\ \A m \in Models : \A known, other \in cache[m] : known = other
    /\ capable \in SUBSET Models /\ ever \in SUBSET Models
    /\ always \in SUBSET Models /\ failed \in SUBSET Models

Init ==
    /\ pc = [r \in Requests |-> "new"]
    /\ model \in [Requests -> Models]
    /\ body \in [Requests -> Bodies]
    /\ caps = [r \in Requests |-> FALSE]
    /\ forwarded = [r \in Requests |-> "none"]
    /\ cache = [m \in Models |-> {}]
    /\ capable \in SUBSET Models
    /\ ever = capable /\ always = capable
    /\ failed = {}

ollamaVars == <<capable, ever, always>>

Goto(r, label) == pc' = [pc EXCEPT ![r] = label]

\* Mutants: tools are never stripped; the answer is not looked at.
DecideAsIs(r, supportsTools) == forwarded' = [forwarded EXCEPT ![r] = "asIs"]
DecideByBody(r, supportsTools) ==
    forwarded' = [forwarded EXCEPT ![r] =
        IF body[r] = "tools" THEN "stripped" ELSE "asIs"]

\* Only a body with one of the keys can be stripped.
Decide(r, supportsTools) ==
    forwarded' = [forwarded EXCEPT ![r] =
        IF body[r] = "tools" /\ ~supportsTools THEN "stripped" ELSE "asIs"]

-----------------------------------------------------------------------------
\* Mutant: a body that is not looked up is not handed back.
PassNothing(r) == Goto(r, "done") /\ UNCHANGED forwarded
PassOn(r) == Goto(r, "done") /\ Decide(r, FALSE)

\* The quick check: a body without the text is not looked up.
CheckBody(r) ==
    /\ pc[r] = "new"
    /\ IF body[r] = "plain"
       THEN PassOn(r)
       ELSE Goto(r, "lookup") /\ UNCHANGED forwarded
    /\ UNCHANGED <<model, body, caps, cache, failed, ollamaVars>>

\* getCapabilities under the read lock.
Lookup(r) ==
    /\ pc[r] = "lookup"
    /\ \/ /\ cache[model[r]] = {}
          /\ Goto(r, "fetch")
          /\ UNCHANGED forwarded
       \/ /\ \E known \in cache[model[r]] : Decide(r, known)
          /\ Goto(r, "done")
    /\ UNCHANGED <<model, body, caps, cache, failed, ollamaVars>>

\* fetchCapabilities: Ollama answers, or the call fails in one of four ways,
\* all of which return nil.
Fetch(r) ==
    /\ pc[r] = "fetch"
    /\ \/ /\ caps' = [caps EXCEPT ![r] = model[r] \in capable]
          /\ UNCHANGED failed
       \/ /\ caps' = [caps EXCEPT ![r] = FALSE]
          /\ failed' = failed \cup {model[r]}
    /\ Goto(r, "store")
    /\ UNCHANGED <<model, body, forwarded, cache, ollamaVars>>

\* Mutant: the model is not the key.
RememberForAll(r) == cache' = [m \in Models |-> {caps[r]}]
Remember(r) == cache' = [cache EXCEPT ![model[r]] = {caps[r]}]

\* The answer, nil included, overwrites what another request has stored since.
Store(r) ==
    /\ pc[r] = "store"
    /\ Remember(r)
    /\ Decide(r, caps[r])
    /\ Goto(r, "done")
    /\ UNCHANGED <<model, body, caps, failed, ollamaVars>>

\* Ollama pulls another version of a model.
ModelChanges(m) ==
    /\ capable' = IF m \in capable THEN capable \ {m} ELSE capable \cup {m}
    /\ ever' = ever \cup {m}
    /\ always' = always \ {m}
    /\ UNCHANGED <<pc, model, body, caps, forwarded, cache, failed>>

Next ==
    \/ \E r \in Requests : CheckBody(r) \/ Lookup(r) \/ Fetch(r) \/ Store(r)
    \/ \E m \in Models : ModelChanges(m)

Spec == Init /\ [][Next]_vars

-----------------------------------------------------------------------------
\* proxy.go:207, "removes tools/tool_choice from the request body if the
\* target model doesn't support tool use": a model that has never supported
\* tools is never sent any, whatever races and failures there are.
UnsupportedToolsAreStripped ==
    \A r \in Requests :
        (pc[r] = "done" /\ body[r] = "tools" /\ model[r] \notin ever)
            => forwarded[r] = "stripped"

\* If no fetch about a model has failed, it keeps the tools it is sent as
\* long as it has always supported them; however many requests fetched at
\* once, none overwrites the answer with a worse one (capabilities.go:44-61).
SupportedToolsAreKept ==
    \A r \in Requests :
        model[r] \in always \ failed => forwarded[r] # "stripped"

\* proxy.go:207, the other way round: tools are stripped only from requests
\* for a model that does not support them.
StrippedOnlyIfUnsupported ==
    \A r \in Requests : forwarded[r] = "stripped" => model[r] \notin always

\* What is cached about a model was answered about it at some time.
CacheIsGrounded ==
    \A m \in Models :
        /\ TRUE \in cache[m] => m \in ever
        /\ FALSE \in cache[m] => m \notin always \/ m \in failed

=============================================================================
