---------------------------- MODULE ProxyHandler ----------------------------
(***************************************************************************)
(* proxy.go: ServeHTTP and handleStreaming, one handler per request, and   *)
(* the MultiHook of hooks.go, which makes every call on one hook after the *)
(* other before the handler goes on.                                       *)
(*                                                                         *)
(* Upstream and client are the environment.  A line of the response is     *)
(* abstracted to what the handler and the properties tell apart: whether   *)
(* it parses, which of the fields the endpoint looks at are non-empty, and *)
(* how it ends (LF, CR LF, or nothing because it is the last one).  The    *)
(* model capability look-up that precedes OnRequestStart changes only the  *)
(* body sent upstream and is modelled in ModelCapabilities.                *)
(***************************************************************************)
EXTENDS Naturals, Sequences, FiniteSets, Functions

CONSTANTS
    Requests,    \* the handler invocations
    MaxLines,    \* bound on the lines of one upstream response
    NumHooks     \* hooks in the MultiHook: log, metrics and the plugins

ASSUME MaxLinesAssumption == MaxLines \in Nat
ASSUME NumHooksAssumption == NumHooks \in Nat \ {0}

VARIABLES
    pc,          \* the next step of each handler
    ep,          \* endpoint type the request was classified as
    streaming,   \* FALSE iff the body says "stream": false
    ending,      \* how the upstream body ended: "open" while it has not
    got,         \* lines the scanner has returned
    out,         \* lines written to the client
    pending,     \* fields of the current line whose hook call is still due
    tokenCount,  \* content chunks counted so far
    status,      \* status the client was answered with
    trace,       \* calls made on the MultiHook, in order
    told         \* how many hooks the last call of trace has been made on

hookVars == <<trace, told>>
vars == <<pc, ep, streaming, ending, got, out, pending, tokenCount, status,
          hookVars>>

Endpoints == {"OllamaChat", "OllamaGenerate", "OpenAIChat"}

Fields == {"thinking", "content", "tool_calls", "done"}

\* The order in which handleStreaming looks at the fields of a line.
Rank == [thinking |-> 1, content |-> 2, tool_calls |-> 3, done |-> 4]

\* What a line may carry: /api/generate has no tool calls, and the done line
\* of the OpenAI format is the sentinel "data: [DONE]", which carries no chunk.
LineFields(e) ==
    CASE e = "OllamaChat" -> SUBSET Fields
      [] e = "OllamaGenerate" -> SUBSET (Fields \ {"tool_calls"})
      [] e = "OpenAIChat" -> (SUBSET {"thinking", "content"}) \cup {{"done"}}

Eols == {"lf", "crlf", "none"}

Line == [parses : BOOLEAN, has : SUBSET Fields, eol : Eols]

\* A line that does not parse (bad JSON, SSE separator) has no fields.
LinesOf(e) ==
    {l \in [parses : BOOLEAN, has : LineFields(e), eol : Eols] :
        l.parses \/ l.has = {}}

Event == [call : {"start", "thinking", "token", "toolcalls", "complete", "error"},
          n : 0 .. MaxLines]

PCs == {"accept", "body", "start", "upstream", "whole", "scan", "write",
        "dispatch", "exit", "returned"}

TypeOK ==
    /\ pc \in [Requests -> PCs]
    /\ ep \in [Requests -> Endpoints \cup {"Passthrough"}]
    /\ streaming \in [Requests -> BOOLEAN]
    /\ ending \in [Requests -> {"open", "eof", "error"}]
    /\ got \in [Requests -> Seq(Line)]
    /\ out \in [Requests -> Seq(Line)]
    /\ \A r \in Requests : Len(got[r]) <= MaxLines
    /\ pending \in [Requests -> SUBSET Fields]
    /\ tokenCount \in [Requests -> 0 .. MaxLines]
    /\ status \in [Requests -> {"none", "200", "400", "500", "502", "upstream"}]
    /\ trace \in [Requests -> Seq(Event)]
    /\ told \in [Requests -> 0 .. NumHooks]

Init ==
    /\ pc = [r \in Requests |-> "accept"]
    /\ ep = [r \in Requests |-> "Passthrough"]
    /\ streaming = [r \in Requests |-> TRUE]
    /\ ending = [r \in Requests |-> "open"]
    /\ got = [r \in Requests |-> <<>>]
    /\ out = [r \in Requests |-> <<>>]
    /\ pending = [r \in Requests |-> {}]
    /\ tokenCount = [r \in Requests |-> 0]
    /\ status = [r \in Requests |-> "none"]
    /\ trace = [r \in Requests |-> <<>>]
    /\ told = [r \in Requests |-> NumHooks]

\* The handler goes on when the call it made has been made on every hook.
\* Mutant: the hooks are called in the background.
AtAnyTime(r, label) == pc[r] = label
At(r, label) == pc[r] = label /\ told[r] = NumHooks

Goto(r, label) == pc' = [pc EXCEPT ![r] = label]

\* One call on the MultiHook.  Only OnToken and OnRequestComplete carry a
\* number.
Call(r, method, n) ==
    /\ trace' = [trace EXCEPT ![r] = Append(@, [call |-> method, n |-> n])]
    /\ told' = [told EXCEPT ![r] = 0]

Answer(r, code) == status' = [status EXCEPT ![r] = code]

streamVars == <<ending, got, out, pending, tokenCount>>

-----------------------------------------------------------------------------
\* ServeHTTP: a POST to one of the three endpoints is intercepted, anything
\* else (reverse proxy, /_proxy/ paths, not found) returns without a hook call.
ServeHTTP(r) ==
    /\ At(r, "accept")
    /\ \E e \in Endpoints \cup {"Passthrough"} :
          /\ ep' = [ep EXCEPT ![r] = e]
          /\ Goto(r, IF e = "Passthrough" THEN "exit" ELSE "body")
    /\ UNCHANGED <<streaming, streamVars, status, hookVars>>

\* Reading the body fails, or tells whether streaming is disabled.
ReadBody(r) ==
    /\ At(r, "body")
    /\ \/ /\ \E s \in BOOLEAN : streaming' = [streaming EXCEPT ![r] = s]
          /\ Goto(r, "start")
          /\ UNCHANGED <<status, hookVars>>
       \/ /\ Answer(r, "400")
          /\ Call(r, "error", 0)
          /\ Goto(r, "exit")
          /\ UNCHANGED streaming
    /\ UNCHANGED <<ep, streamVars>>

StartRequest(r) ==
    /\ At(r, "start")
    /\ Call(r, "start", 0)
    /\ Goto(r, "upstream")
    /\ UNCHANGED <<ep, streaming, streamVars, status>>

\* The request cannot be built (500), cannot be sent (502), or is answered
\* with a status other than 200, whose body is copied.
UpstreamFails(r) ==
    /\ At(r, "upstream")
    /\ \E code \in {"500", "502", "upstream"} : Answer(r, code)
    /\ Call(r, "error", 0)
    /\ Goto(r, "exit")
    /\ UNCHANGED <<ep, streaming, streamVars>>

UpstreamAnswers(r) ==
    /\ At(r, "upstream")
    /\ Answer(r, "200")
    /\ Goto(r, IF streaming[r] THEN "scan" ELSE "whole")
    /\ UNCHANGED <<ep, streaming, streamVars, hookVars>>

\* Non-streaming: the body is read and written as one piece; an error of the
\* read is ignored, so a truncated answer is reported as complete.
CopyWhole(r) ==
    /\ At(r, "whole")
    /\ \E e \in {"eof", "error"} : ending' = [ending EXCEPT ![r] = e]
    /\ Call(r, "complete", 0)
    /\ Goto(r, "exit")
    /\ UNCHANGED <<ep, streaming, got, out, pending, tokenCount, status>>

-----------------------------------------------------------------------------
\* scanner.Scan returns the next line.  A line without a terminator is what
\* is left in the buffer when the body ends or the read fails.
ScanLine(r) ==
    /\ At(r, "scan") /\ ending[r] = "open"
    /\ Len(got[r]) < MaxLines
    /\ \E l \in LinesOf(ep[r]) :
          /\ got' = [got EXCEPT ![r] = Append(@, l)]
          /\ \E e \in IF l.eol = "none" THEN {"eof", "error"} ELSE {"open"} :
                ending' = [ending EXCEPT ![r] = e]
    /\ Goto(r, "write")
    /\ UNCHANGED <<ep, streaming, out, pending, tokenCount, status, hookVars>>

\* Mutant: a line that does not parse is skipped before it is written.
ForwardParsed(r, l) ==
    out' = [out EXCEPT ![r] = IF l.parses THEN Append(@, [l EXCEPT !.eol = "lf"]) ELSE @]
Forward(r, l) == out' = [out EXCEPT ![r] = Append(@, [l EXCEPT !.eol = "lf"])]

\* The line goes to the client with a line feed of the proxy's own, and only
\* then is parsed.
WriteLine(r) ==
    /\ At(r, "write")
    /\ LET l == got[r][Len(got[r])] IN
          /\ Forward(r, l)
          /\ pending' = [pending EXCEPT ![r] = l.has]
          /\ Goto(r, IF l.has = {} THEN "scan" ELSE "dispatch")
    /\ UNCHANGED <<ep, streaming, ending, got, tokenCount, status, hookVars>>

IsNext(r, f) ==
    /\ f \in pending[r]
    /\ \A g \in pending[r] : Rank[f] <= Rank[g]

\* Mutants: a field is looked at again; the first field of a line is the only
\* one looked at; tokens are numbered from 0.
HandledAgain(r, f) == Goto(r, "dispatch") /\ UNCHANGED pending
HandledOnly(r, f) ==
    /\ pending' = [pending EXCEPT ![r] = @ \ {f}]
    /\ Goto(r, "scan")
TokenFromZero(r) == tokenCount[r]

\* After the last field of a line comes the next line.
Handled(r, f) ==
    /\ pending' = [pending EXCEPT ![r] = @ \ {f}]
    /\ Goto(r, IF pending[r] = {f} THEN "scan" ELSE "dispatch")

NextToken(r) == tokenCount[r] + 1

\* The hook call for one field of the current line.
CallHook(r, f) ==
    /\ At(r, "dispatch")
    /\ IsNext(r, f)
    /\ Handled(r, f)
    /\ CASE f = "content" ->
              /\ tokenCount' = [tokenCount EXCEPT ![r] = NextToken(r)]
              /\ Call(r, "token", NextToken(r))
         [] f = "done" ->
              /\ Call(r, "complete", tokenCount[r])
              /\ UNCHANGED tokenCount
         [] f = "thinking" ->
              /\ Call(r, "thinking", 0)
              /\ UNCHANGED tokenCount
         [] f = "tool_calls" ->
              /\ Call(r, "toolcalls", 0)
              /\ UNCHANGED tokenCount
    /\ UNCHANGED <<ep, streaming, ending, got, out, status>>

\* Mutants: scanner.Err() is not looked at; the end of the stream is taken for
\* a completion.
StreamEndsQuietly(r, e) == UNCHANGED hookVars
StreamEndsComplete(r, e) ==
    IF e = "error" THEN Call(r, "error", 0) ELSE Call(r, "complete", tokenCount[r])
StreamEnds(r, e) ==
    IF e = "error" THEN Call(r, "error", 0) ELSE UNCHANGED hookVars

\* scanner.Scan returns FALSE: end of body, or an error (broken connection,
\* cancelled client, line longer than the buffer), which reaches OnError.
ScanEnd(r) ==
    /\ At(r, "scan")
    /\ \E e \in IF ending[r] = "open" THEN {"eof", "error"} ELSE {ending[r]} :
          /\ ending' = [ending EXCEPT ![r] = e]
          /\ StreamEnds(r, e)
    /\ Goto(r, "exit")
    /\ UNCHANGED <<ep, streaming, got, out, pending, tokenCount, status>>

\* MultiHook: the call is made on the next hook of the list and returns.
Tell(r) ==
    /\ told[r] < NumHooks
    /\ told' = [told EXCEPT ![r] = @ + 1]
    /\ UNCHANGED <<pc, ep, streaming, streamVars, status, trace>>

HandlerReturn(r) ==
    /\ At(r, "exit")
    /\ Goto(r, "returned")
    /\ UNCHANGED <<ep, streaming, streamVars, status, hookVars>>

-----------------------------------------------------------------------------
\* Steps the handler takes by itself, without waiting for client or upstream;
\* that a hook call returns is DatabaseHook!HandlerNeverWaits for that hook.
OwnStep(r) ==
    \/ StartRequest(r) \/ Tell(r)
    \/ \E f \in Fields : CallHook(r, f)
    \/ HandlerReturn(r)

Next ==
    \E r \in Requests :
        \/ ServeHTTP(r) \/ ReadBody(r)
        \/ UpstreamFails(r) \/ UpstreamAnswers(r)
        \/ CopyWhole(r) \/ ScanLine(r) \/ WriteLine(r) \/ ScanEnd(r)
        \/ OwnStep(r)

Spec == Init /\ [][Next]_vars

\* No fairness on client and upstream: there is no timeout on either.
Fairness == \A r \in Requests : WF_vars(OwnStep(r))

FairSpec == Spec /\ Fairness

-----------------------------------------------------------------------------
\* Every line the scanner returned is written to the client, malformed ones
\* included, in order, and before any hook hears of it (proxy.go:347,
\* TestMalformedNDJSON): the hooks have been told of at most as many tokens
\* as the client has been written content lines.  "Byte-for-byte"
\* (README.md:5) holds but for the terminator, which is always LF
\* (proxy.go:348).
Calls(r, method) == {i \in DOMAIN trace[r] : trace[r][i].call = method}

WrittenBeforeHooks ==
    \A r \in Requests :
        /\ pc[r] # "write" => Len(out[r]) = Len(got[r])
        /\ \A i \in DOMAIN out[r] : out[r][i] = [got[r][i] EXCEPT !.eol = "lf"]
        /\ Cardinality(Calls(r, "token"))
             <= Cardinality({i \in DOMAIN out[r] : "content" \in out[r][i].has})

\* The k-th OnToken call carries k, and every OnRequestComplete of a stream
\* carries the number of OnToken calls made before it, so that a hook that
\* counts for itself agrees with the handler (proxy.go:366, 375).
TokenNumbering ==
    \A r \in Requests : \A i \in DOMAIN trace[r] :
        LET before == {j \in Calls(r, "token") : j <= i} IN
            trace[r][i].call \in {"token", "complete"} =>
                trace[r][i].n = Cardinality(before)

\* A request whose client was answered anything but 200, or whose stream
\* broke (a body that is not streamed is another matter: CopyWhole), is
\* reported to the hooks by OnError as the last call, so no failed answer is
\* counted or kept in flight as a running request (proxy.go:258, 287, 303,
\* 319, 434).
FailureIsReported ==
    \A r \in Requests :
        (/\ pc[r] = "returned"
         /\ \/ status[r] \notin {"none", "200"}
            \/ streaming[r] /\ ending[r] = "error")
            => /\ trace[r] # <<>>
               /\ trace[r][Len(trace[r])].call = "error"

\* A stream is reported complete once per done line forwarded, never twice
\* for one line and never without one.
CompleteOncePerDoneLine ==
    \A r \in Requests :
        (streaming[r] /\ pc[r] # "dispatch" /\ pc[r] # "write") =>
            Cardinality(Calls(r, "complete"))
              = Cardinality({i \in DOMAIN out[r] : "done" \in out[r][i].has})

\* Once a line has been read, all its calls are made on all hooks, whatever
\* the client and upstream do afterwards (proxy.go:354-430, hooks.go:27-62).
LineIsDispatched ==
    \A r \in Requests :
        (pending[r] # {}) ~> (pending[r] = {} /\ told[r] = NumHooks)

-----------------------------------------------------------------------------
\* What the last hook of the list has heard: all calls, or all but the one
\* that is on its way to it.
Heard(r) ==
    IF told[r] = NumHooks THEN trace[r]
    ELSE SubSeq(trace[r], 1, Len(trace[r]) - 1)

HeardCalls(r, method) == {i \in DOMAIN Heard(r) : trace[r][i].call = method}

\* The stage of HookLifecycle that these calls put the handler in.
HeardStage(r) ==
    IF Heard(r) = <<>> THEN "new"
    ELSE IF HeardCalls(r, "error") # {} THEN "last"
    ELSE IF HeardCalls(r, "complete") # {} THEN "completed"
    ELSE "open"

stageOf == [r \in Requests |->
    IF pc[r] # "returned" THEN HeardStage(r)
    ELSE IF HeardStage(r) = "open" THEN "abandoned" ELSE "returned"]

sentOf == [r \in Requests |-> Cardinality(HeardCalls(r, "token"))]

Lifecycle == INSTANCE HookLifecycle
    WITH MaxTokens <- MaxLines, stage <- stageOf, sent <- sentOf

\* Even the last of the hooks sees the call order of HookLifecycle, and a
\* handler that returns only when it has been told of everything
\* (hooks.go:27-62).
ImplementsLifecycle == Lifecycle!LifecycleSpec

=============================================================================
