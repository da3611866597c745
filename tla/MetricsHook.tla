---------------------------- MODULE MetricsHook -----------------------------
(***************************************************************************)
(* metrics.go: the hook that keeps per-request timings in a map under a    *)
(* mutex and the aggregate counters in atomics, which GET /_proxy/metrics  *)
(* reads one after the other while requests are running.                   *)
(*                                                                         *)
(* Timings are left out except for whether the first token has been seen.  *)
(* The counter of RGB drops is left out: nothing increments it.            *)
(***************************************************************************)
EXTENDS HookLifecycle, Sequences, FiniteSets

CONSTANTS
    Ids,         \* the strings reqID() may draw
    ReqID        \* the one it drew for each request

ASSUME ReqIDAssumption == ReqID \in [Requests -> Ids]
ASSUME RequestsAssumption == IsFiniteSet(Requests)

VARIABLES
    call,        \* what a handler inside a hook call has yet to do
    inFlight,    \* the map: per identifier at most one entry
    total,       \* the counters requestsTotal, tokensTotal and errorsTotal
    scrape,      \* the counters the current scrape has read
    atStart,     \* history: the counters when the scrape began
    started,     \* history: the requests OnRequestStart was called for
    failed       \* history: those OnError was called for

historyVars == <<started, failed>>
vars == <<lifecycleVars, call, inFlight, total, scrape, atStart, historyVars>>

Counters == {"requests", "tokens", "errors"}

\* requestMetrics: whose request it is and whether firstTok is set.
Entry == [owner : Requests, firstTok : BOOLEAN]

\* The order in which ServeMetrics loads the counters.
ScrapeOrder == <<"requests", "tokens", "errors">>

TypeOK ==
    /\ LifecycleTypeOK
    /\ call \in [Requests -> Counters \cup {"none", "forget"}]
    /\ inFlight \in [Ids -> SUBSET Entry]
    /\ total \in [Counters -> Nat]
    /\ scrape \in Seq(Nat) /\ Len(scrape) <= Len(ScrapeOrder)
    /\ atStart \in [Counters -> Nat]
    /\ started \in SUBSET Requests /\ failed \in SUBSET Requests

Init ==
    /\ LifecycleInit
    /\ call = [r \in Requests |-> "none"]
    /\ inFlight = [i \in Ids |-> {}]
    /\ total = [c \in Counters |-> 0]
    /\ scrape = <<>>
    /\ atStart = total
    /\ started = {} /\ failed = {}

Continue(r, next) == call' = [call EXCEPT ![r] = next]

\* Mutant: the counter goes the wrong way.
Decrement(c) == total' = [total EXCEPT ![c] = @ - 1]
Increment(c) == total' = [total EXCEPT ![c] = @ + 1]

scrapeVars == <<scrape, atStart>>

-----------------------------------------------------------------------------
\* The entry is made under the lock, the request counted after it.
OnRequestStart(r) ==
    /\ call[r] = "none"
    /\ Start(r)
    /\ inFlight' = [inFlight EXCEPT ![ReqID[r]] = {[owner |-> r, firstTok |-> FALSE]}]
    /\ Continue(r, "requests")
    /\ started' = started \cup {r}
    /\ UNCHANGED <<total, scrapeVars, failed>>

\* Mutant: a token of a request that is no longer in flight is not counted.
OnTokenInFlight(r) ==
    /\ call[r] = "none"
    /\ Token(r)
    /\ inFlight' = [inFlight EXCEPT ![ReqID[r]] =
          {[e EXCEPT !.firstTok = TRUE] : e \in @}]
    /\ Continue(r, IF inFlight[ReqID[r]] = {} THEN "none" ELSE "tokens")
    /\ UNCHANGED <<total, scrapeVars, historyVars>>

\* Mutant: the first token is not noticed.
NotSeen(e) == e
Seen(e) == [e EXCEPT !.firstTok = TRUE]

OnToken(r) ==
    /\ call[r] = "none"
    /\ Token(r)
    /\ inFlight' = [inFlight EXCEPT ![ReqID[r]] =
          {Seen(e) : e \in @}]
    /\ Continue(r, "tokens")
    /\ UNCHANGED <<total, scrapeVars, historyVars>>

\* The atomic Add of OnRequestStart or OnToken.
Count(r) ==
    /\ call[r] \in {"requests", "tokens"}
    /\ Increment(call[r])
    /\ Continue(r, "none")
    /\ UNCHANGED <<lifecycleVars, inFlight, scrapeVars, historyVars>>

\* OnRequestComplete logs the timings of the entry it takes off the map.
OnRequestComplete(r) ==
    /\ call[r] = "none"
    /\ Complete(r)
    /\ inFlight' = [inFlight EXCEPT ![ReqID[r]] = {}]
    /\ UNCHANGED <<call, total, scrapeVars, historyVars>>

\* OnError counts first and then takes the lock.
OnError(r) ==
    /\ call[r] = "none"
    /\ Fail(r)
    /\ Increment("errors")
    /\ failed' = failed \cup {r}
    /\ Continue(r, "forget")
    /\ UNCHANGED <<inFlight, scrapeVars, started>>

\* Mutant: the entry stays.
ForgetNot(r) ==
    /\ call[r] = "forget"
    /\ Continue(r, "none")
    /\ UNCHANGED <<lifecycleVars, inFlight, total, scrapeVars, historyVars>>

Forget(r) ==
    /\ call[r] = "forget"
    /\ inFlight' = [inFlight EXCEPT ![ReqID[r]] = {}]
    /\ Continue(r, "none")
    /\ UNCHANGED <<lifecycleVars, total, scrapeVars, historyVars>>

HandlerReturn(r) ==
    /\ call[r] = "none"
    /\ Return(r)
    /\ UNCHANGED <<call, inFlight, total, scrapeVars, historyVars>>

\* Mutant: the first counter is read every time.
LoadFirst(i) == total[ScrapeOrder[1]]
LoadNth(i) == total[ScrapeOrder[i]]

\* ServeMetrics loads one counter after the other; one scrape at a time.
Load ==
    /\ Len(scrape) < Len(ScrapeOrder)
    /\ scrape' = Append(scrape, LoadNth(Len(scrape) + 1))
    /\ atStart' = IF scrape = <<>> THEN total ELSE atStart
    /\ UNCHANGED <<lifecycleVars, call, inFlight, total, historyVars>>

Respond ==
    /\ Len(scrape) = Len(ScrapeOrder)
    /\ scrape' = <<>>
    /\ UNCHANGED <<lifecycleVars, call, inFlight, total, atStart, historyVars>>

Next ==
    \/ \E r \in Requests :
          \/ OnRequestStart(r) \/ OnToken(r) \/ Count(r)
          \/ OnRequestComplete(r) \/ OnError(r) \/ Forget(r) \/ HandlerReturn(r)
    \/ Load \/ Respond

Spec == Init /\ [][Next]_vars

-----------------------------------------------------------------------------
\* Concurrent handlers lose no increment: the counters are the numbers of
\* calls made, short only of the handlers about to count, whether identifiers
\* collide or not, and one request is counted as one error at most, before it
\* is forgotten (metrics.go:50, 60, 114, logging.go:43).
AboutTo(c) == Cardinality({r \in Requests : call[r] = c})

\* One pair for each OnToken call made: whose it is and which one.
TokenCalls == {p \in Requests \X (1 .. MaxTokens) : p[2] <= sent[p[1]]}

CountersAreExact ==
    /\ total["requests"] + AboutTo("requests") = Cardinality(started)
    /\ total["tokens"] + AboutTo("tokens") = Cardinality(TokenCalls)
    /\ total["errors"] = Cardinality(failed)

\* reqID did not draw the identifier of r again.
Alone(r) == \A q \in Requests : ReqID[q] = ReqID[r] => q = r

\* The request that a completion finds in the map is its own, and its first
\* token has been seen exactly if it has been sent one, so the time to the
\* first token is reported when there is one, also while other requests share
\* an identifier (metrics.go:55, 92, logging.go:43).
EntryIsOwn ==
    \A r \in {q \in Requests : Alone(q)} : \A e \in inFlight[ReqID[r]] :
        e.owner = r /\ (e.firstTok <=> sent[r] > 0)

\* The map holds running requests, and those whose handler returned without
\* OnRequestComplete or OnError (metrics.go:113-119).
OnlyAbandonedLeak ==
    \A r \in {q \in Requests : Alone(q)} :
        (call[r] # "forget" /\ inFlight[ReqID[r]] # {})
            => stage[r] \in {"open", "abandoned"}

\* The numbers of one scrape were not all current at one time, but each was
\* at some time during the scrape (metrics.go:131-133).
ScrapeIsBracketed ==
    \A i \in DOMAIN scrape :
        LET c == ScrapeOrder[i] IN atStart[c] <= scrape[i] /\ scrape[i] <= total[c]

=============================================================================
