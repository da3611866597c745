---------------------------- MODULE HookLifecycle ----------------------------
(***************************************************************************)
(* The order in which one request handler calls the methods of its Hook,   *)
(* as seen by any hook: the abstract specification that ProxyHandler       *)
(* implements and that the hook modules take as their environment.         *)
(*                                                                         *)
(* handleStreaming calls OnRequestStart once (or OnError alone when the    *)
(* body cannot be read), then any number of OnThinking, OnToken,           *)
(* OnToolCalls and OnRequestComplete calls, and possibly one OnError,      *)
(* which is always the last call.  It may also return without having       *)
(* called either OnRequestComplete or OnError: "abandoned".                *)
(***************************************************************************)
EXTENDS Naturals

CONSTANTS
    Requests,    \* the handler invocations
    MaxTokens    \* bound on the OnToken calls of one request

ASSUME MaxTokensAssumption == MaxTokens \in Nat

VARIABLES
    stage,       \* where each handler stands in the call order
    sent         \* number of OnToken calls made (the handler's tokenCount)

lifecycleVars == <<stage, sent>>

Stages == {"new", "open", "completed", "last", "returned", "abandoned"}

LifecycleTypeOK ==
    /\ stage \in [Requests -> Stages]
    /\ sent \in [Requests -> 0 .. MaxTokens]

LifecycleInit ==
    /\ stage = [r \in Requests |-> "new"]
    /\ sent = [r \in Requests |-> 0]

\* A handler that has called OnRequestStart and may still call the hook.
MayCall(r) == stage[r] \in {"open", "completed"}

Started(r) == stage[r] # "new"

Finished(r) == stage[r] \in {"returned", "abandoned"}

MoveTo(r, s) == stage' = [stage EXCEPT ![r] = s]

-----------------------------------------------------------------------------
Start(r) ==
    /\ stage[r] = "new"
    /\ MoveTo(r, "open")
    /\ UNCHANGED sent

\* OnToken carries the number of the token: 1, 2, 3, ...
Token(r) ==
    /\ MayCall(r)
    /\ sent[r] < MaxTokens
    /\ sent' = [sent EXCEPT ![r] = @ + 1]
    /\ UNCHANGED stage

\* OnRequestComplete, once for every done line of the stream.
Complete(r) ==
    /\ MayCall(r)
    /\ MoveTo(r, "completed")
    /\ UNCHANGED sent

\* OnError: alone for an unreadable body, else after OnRequestStart.
Fail(r) ==
    /\ stage[r] \in {"new", "open", "completed"}
    /\ MoveTo(r, "last")
    /\ UNCHANGED sent

\* The handler returns; a request that was never intercepted returns
\* without a single call.
Return(r) ==
    /\ ~Finished(r)
    /\ MoveTo(r, IF stage[r] = "open" THEN "abandoned" ELSE "returned")
    /\ UNCHANGED sent

LifecycleNext ==
    \E r \in Requests :
        Start(r) \/ Token(r) \/ Complete(r) \/ Fail(r) \/ Return(r)

LifecycleSpec == LifecycleInit /\ [][LifecycleNext]_lifecycleVars

=============================================================================
