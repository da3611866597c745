------------------------- MODULE ProxyHandlerProofs -------------------------
(***************************************************************************)
(* Theorems about ProxyHandler and their proofs.                           *)
(***************************************************************************)
EXTENDS ProxyHandler, FiniteSetTheorems, TLAPS

-----------------------------------------------------------------------------
(* Counting in sequences that grow at their end.                           *)

\* A call on the hooks, its number not bounded yet.
AnyCall == [call : {"start", "thinking", "token", "toolcalls", "complete", "error"},
            n : Nat]

Called(s, m) == {i \in DOMAIN s : s[i].call = m}

Carrying(s, f) == {i \in DOMAIN s : f \in s[i].has}

\* Positions of a sequence are a finite set, one more is one element more.
LEMMA CountGrows ==
    ASSUME NEW n \in Nat, NEW P \in SUBSET (1 .. n)
    PROVE  /\ IsFiniteSet(P) /\ Cardinality(P) \in Nat /\ Cardinality(P) <= n
           /\ Cardinality(P \cup {n + 1}) = Cardinality(P) + 1
<1>1. IsFiniteSet(1 .. n) /\ Cardinality(1 .. n) = n
  BY FS_Interval
<1>2. IsFiniteSet(P) /\ Cardinality(P) \in Nat /\ Cardinality(P) <= n
  BY <1>1, FS_Subset, FS_CardinalityType
<1>3. n + 1 \notin P
  OBVIOUS
<1> QED
  BY <1>2, <1>3, FS_AddElement

LEMMA CalledGrows ==
    ASSUME NEW s \in Seq(AnyCall), NEW e \in AnyCall, NEW m
    PROVE  /\ Called(s, m) \in SUBSET (1 .. Len(s))
           /\ Called(Append(s, e), m) =
                 IF e.call = m THEN Called(s, m) \cup {Len(s) + 1} ELSE Called(s, m)
BY DEF Called

LEMMA CarryingGrows ==
    ASSUME NEW s \in Seq(Line), NEW l \in Line, NEW f
    PROVE  /\ Carrying(s, f) \in SUBSET (1 .. Len(s))
           /\ Carrying(Append(s, l), f) =
                 IF f \in l.has THEN Carrying(s, f) \cup {Len(s) + 1} ELSE Carrying(s, f)
BY DEF Carrying

LEMMA CalledCount ==
    ASSUME NEW s \in Seq(AnyCall), NEW e \in AnyCall, NEW m
    PROVE  /\ Cardinality(Called(s, m)) \in Nat
           /\ Cardinality(Called(Append(s, e), m)) =
                 Cardinality(Called(s, m)) + (IF e.call = m THEN 1 ELSE 0)
<1>1. Len(s) \in Nat /\ Called(s, m) \in SUBSET (1 .. Len(s))
  BY CalledGrows
<1>2. /\ Cardinality(Called(s, m)) \in Nat
      /\ Cardinality(Called(s, m) \cup {Len(s) + 1}) = Cardinality(Called(s, m)) + 1
  BY <1>1, CountGrows
<1>3. CASE e.call = m
  BY <1>2, <1>3, CalledGrows
<1>4. CASE e.call # m
  BY <1>2, <1>4, CalledGrows
<1> QED
  BY <1>3, <1>4

LEMMA CarryingCount ==
    ASSUME NEW s \in Seq(Line), NEW l \in Line, NEW f
    PROVE  /\ Cardinality(Carrying(s, f)) \in Nat
           /\ Cardinality(Carrying(s, f)) <= Len(s)
           /\ Cardinality(Carrying(Append(s, l), f)) =
                 Cardinality(Carrying(s, f)) + (IF f \in l.has THEN 1 ELSE 0)
<1>1. Len(s) \in Nat /\ Carrying(s, f) \in SUBSET (1 .. Len(s))
  BY CarryingGrows
<1>2. /\ Cardinality(Carrying(s, f)) \in Nat
      /\ Cardinality(Carrying(s, f)) <= Len(s)
      /\ Cardinality(Carrying(s, f) \cup {Len(s) + 1}) = Cardinality(Carrying(s, f)) + 1
  BY <1>1, CountGrows
<1>3. CASE f \in l.has
  BY <1>2, <1>3, CarryingGrows
<1>4. CASE f \notin l.has
  BY <1>2, <1>4, CarryingGrows
<1> QED
  BY <1>2, <1>3, <1>4

\* Each token carries its number, each completion the number of tokens so far,
\* any other call 0.
Numbered(s) ==
    \A i \in DOMAIN s :
        /\ s[i].call \in {"token", "complete"} =>
              s[i].n = Cardinality({j \in Called(s, "token") : j <= i})
        /\ s[i].call \notin {"token", "complete"} => s[i].n = 0

LEMMA NumberedGrows ==
    ASSUME NEW s \in Seq(AnyCall), Numbered(s), NEW e \in AnyCall,
           e.call = "token" => e.n = Cardinality(Called(s, "token")) + 1,
           e.call = "complete" => e.n = Cardinality(Called(s, "token")),
           e.call \notin {"token", "complete"} => e.n = 0
    PROVE  Numbered(Append(s, e))
<1> DEFINE t == Append(s, e)
<1>1. Len(s) \in Nat /\ DOMAIN s = 1 .. Len(s) /\ DOMAIN t = 1 .. Len(s) + 1
  OBVIOUS
<1>2. t[Len(s) + 1] = e /\ \A i \in 1 .. Len(s) : t[i] = s[i]
  OBVIOUS
<1>3. Called(s, "token") \in SUBSET (1 .. Len(s))
  BY CalledGrows
<1>4. \A i \in 1 .. Len(s) :
        {j \in Called(t, "token") : j <= i} = {j \in Called(s, "token") : j <= i}
  BY <1>1, <1>2 DEF Called
<1>5. {j \in Called(t, "token") : j <= Len(s) + 1} = Called(t, "token")
  BY <1>1 DEF Called
<1>6. Cardinality(Called(t, "token")) =
        Cardinality(Called(s, "token")) + (IF e.call = "token" THEN 1 ELSE 0)
  BY CalledCount
<1>7. Cardinality(Called(s, "token")) \in Nat
  BY CalledCount
<1>8. ASSUME NEW i \in 1 .. Len(s), t[i].call \in {"token", "complete"}
      PROVE  t[i].n = Cardinality({j \in Called(t, "token") : j <= i})
  BY <1>1, <1>2, <1>4, <1>8 DEF Numbered
<1>9. e.call \in {"token", "complete"} => e.n = Cardinality(Called(t, "token"))
  BY <1>6, <1>7
<1>10. ASSUME NEW i \in DOMAIN t, t[i].call \in {"token", "complete"}
       PROVE  t[i].n = Cardinality({j \in Called(t, "token") : j <= i})
  <2>1. CASE i = Len(s) + 1
    BY <1>2, <1>5, <1>9, <1>10, <2>1
  <2>2. CASE i \in 1 .. Len(s)
    BY <1>8, <1>10, <2>2
  <2> QED
    BY <1>1, <2>1, <2>2
<1>11. ASSUME NEW i \in DOMAIN t, t[i].call \notin {"token", "complete"}
       PROVE  t[i].n = 0
  <2>1. i = Len(s) + 1 \/ i \in 1 .. Len(s)
    BY <1>1
  <2> QED
    BY <1>1, <1>2, <1>11, <2>1 DEF Numbered
<1> QED
  BY <1>10, <1>11 DEF Numbered

-----------------------------------------------------------------------------
(* The inductive invariant.                                                *)

\* TypeOK without the bounds, which need the counting below.
Types ==
    /\ pc \in [Requests -> PCs]
    /\ ep \in [Requests -> Endpoints \cup {"Passthrough"}]
    /\ streaming \in [Requests -> BOOLEAN]
    /\ ending \in [Requests -> {"open", "eof", "error"}]
    /\ got \in [Requests -> Seq(Line)]
    /\ out \in [Requests -> Seq(Line)]
    /\ pending \in [Requests -> SUBSET Fields]
    /\ tokenCount \in [Requests -> Nat]
    /\ status \in [Requests -> {"none", "200", "400", "500", "502", "upstream"}]
    /\ trace \in [Requests -> Seq(AnyCall)]
    /\ told \in [Requests -> 0 .. NumHooks]

\* Where in the handler something can have happened yet.
Phase(r) ==
    /\ pc[r] \notin {"accept", "exit", "returned"} => ep[r] \in Endpoints
    /\ pc[r] \in {"accept", "body", "start", "upstream"} =>
          status[r] = "none" /\ ending[r] = "open"
    /\ pc[r] \in {"accept", "body"} => streaming[r]
    /\ pc[r] = "whole" => status[r] = "200" /\ ~streaming[r]
    /\ pc[r] \in {"scan", "write", "dispatch"} => status[r] = "200" /\ streaming[r]
    /\ pc[r] \in {"accept", "body", "start", "upstream", "whole"} =>
          tokenCount[r] = 0
    /\ pc[r] # "dispatch" => pending[r] = {}

Lines(r) ==
    /\ Len(got[r]) = Len(out[r]) + (IF pc[r] = "write" THEN 1 ELSE 0)
    /\ Len(got[r]) <= MaxLines
    /\ \A i \in 1 .. Len(out[r]) : out[r][i] = [got[r][i] EXCEPT !.eol = "lf"]

Due(r, f) == IF f \in pending[r] THEN 1 ELSE 0

\* Every field of a written line has been reported or is still due.
Counts(r) ==
    /\ Cardinality(Called(trace[r], "token")) = tokenCount[r]
    /\ tokenCount[r] + Due(r, "content") = Cardinality(Carrying(out[r], "content"))
    /\ streaming[r] =>
          Cardinality(Called(trace[r], "complete")) + Due(r, "done")
            = Cardinality(Carrying(out[r], "done"))

Reported(r) ==
    (/\ pc[r] \in {"exit", "returned"}
     /\ status[r] \notin {"none", "200"} \/ (streaming[r] /\ ending[r] = "error"))
        => /\ trace[r] # <<>>
           /\ trace[r][Len(trace[r])].call = "error"

HandlerInv(r) ==
    Phase(r) /\ Lines(r) /\ Counts(r) /\ Numbered(trace[r]) /\ Reported(r)

ProxyInv == Types /\ \A r \in Requests : HandlerInv(r)

\* What a call on the hooks does to the calls made so far.
LEMMA CallEffect ==
    ASSUME Types, NEW r \in Requests, NEW m, NEW n,
           [call |-> m, n |-> n] \in AnyCall, Call(r, m, n)
    PROVE  /\ trace' \in [Requests -> Seq(AnyCall)]
           /\ told' \in [Requests -> 0 .. NumHooks]
           /\ trace'[r] = Append(trace[r], [call |-> m, n |-> n])
           /\ trace'[r] # <<>> /\ trace'[r][Len(trace'[r])].call = m
           /\ Cardinality(Called(trace[r], "token")) \in Nat
           /\ Cardinality(Called(trace[r], "complete")) \in Nat
           /\ Cardinality(Called(trace'[r], "token")) =
                 Cardinality(Called(trace[r], "token")) + (IF m = "token" THEN 1 ELSE 0)
           /\ Cardinality(Called(trace'[r], "complete")) =
                 Cardinality(Called(trace[r], "complete")) + (IF m = "complete" THEN 1 ELSE 0)
           /\ told'[r] = 0
<1> DEFINE e == [call |-> m, n |-> n]
<1>1. trace \in [Requests -> Seq(AnyCall)] /\ told \in [Requests -> 0 .. NumHooks]
  BY DEF Types
<1>2. trace[r] \in Seq(AnyCall) /\ e \in AnyCall /\ e.call = m
  BY <1>1
<1>3. trace' = [trace EXCEPT ![r] = Append(trace[r], e)]
  BY DEF Call
<1>4. trace'[r] = Append(trace[r], e) /\ Append(trace[r], e) \in Seq(AnyCall)
  BY <1>1, <1>2, <1>3
<1>5. Append(trace[r], e) # <<>> /\ Append(trace[r], e)[Len(Append(trace[r], e))] = e
  BY <1>2
<1>6. trace' \in [Requests -> Seq(AnyCall)]
  BY <1>1, <1>3, <1>4
<1>7. told' = [told EXCEPT ![r] = 0] /\ 0 \in 0 .. NumHooks
  BY NumHooksAssumption DEF Call
<1>8. told' \in [Requests -> 0 .. NumHooks] /\ told'[r] = 0
  BY <1>1, <1>7
<1> QED
  BY <1>2, <1>4, <1>5, <1>6, <1>8, CalledCount

\* A call other than OnToken and OnRequestComplete changes no count.
LEMMA OtherCall ==
    ASSUME Types, NEW r \in Requests, Counts(r), Numbered(trace[r]),
           NEW m \in {"start", "thinking", "toolcalls", "error"}, Call(r, m, 0)
    PROVE  /\ trace' \in [Requests -> Seq(AnyCall)]
           /\ told' \in [Requests -> 0 .. NumHooks]
           /\ trace'[r] # <<>> /\ trace'[r][Len(trace'[r])].call = m
           /\ Cardinality(Called(trace'[r], "token")) =
                 Cardinality(Called(trace[r], "token"))
           /\ Cardinality(Called(trace'[r], "complete")) =
                 Cardinality(Called(trace[r], "complete"))
           /\ Numbered(trace'[r])
<1>1. [call |-> m, n |-> 0] \in AnyCall /\ m # "token" /\ m # "complete"
  BY DEF AnyCall
<1>2. trace[r] \in Seq(AnyCall)
  BY DEF Types
<1>3. Numbered(Append(trace[r], [call |-> m, n |-> 0]))
  BY <1>1, <1>2, NumberedGrows
<1>4. /\ trace' \in [Requests -> Seq(AnyCall)]
      /\ told' \in [Requests -> 0 .. NumHooks]
      /\ trace'[r] = Append(trace[r], [call |-> m, n |-> 0])
      /\ trace'[r] # <<>> /\ trace'[r][Len(trace'[r])].call = m
  BY <1>1, CallEffect
<1>5. /\ Cardinality(Called(trace[r], "token")) \in Nat
      /\ Cardinality(Called(trace[r], "complete")) \in Nat
      /\ Cardinality(Called(trace'[r], "token")) = Cardinality(Called(trace[r], "token")) + 0
      /\ Cardinality(Called(trace'[r], "complete")) =
            Cardinality(Called(trace[r], "complete")) + 0
  BY <1>1, CallEffect
<1> QED
  BY <1>3, <1>4, <1>5

-----------------------------------------------------------------------------
(* One lemma per action: what it does to its own handler.                  *)

LEMMA ServeHTTPStep ==
    ASSUME Types, NEW r \in Requests, HandlerInv(r), ServeHTTP(r)
    PROVE  Types' /\ HandlerInv(r)'
<1>1. PICK e \in Endpoints \cup {"Passthrough"} :
        /\ ep' = [ep EXCEPT ![r] = e]
        /\ pc' = [pc EXCEPT ![r] = IF e = "Passthrough" THEN "exit" ELSE "body"]
  BY DEF ServeHTTP, Goto
<1>2. /\ pc[r] = "accept"
      /\ UNCHANGED <<streaming, ending, got, out, pending, tokenCount, status,
                     trace, told>>
  BY DEF ServeHTTP, At, streamVars, hookVars
<1>3. Types'
  BY <1>1, <1>2 DEF Types, PCs
<1>4. pc'[r] \in {"exit", "body"} /\ ep'[r] = e
      /\ (pc'[r] = "body" => e \in Endpoints)
  BY <1>1 DEF Types
<1> QED
  BY <1>2, <1>3, <1>4 DEF HandlerInv, Phase, Lines, Counts, Due, Reported

LEMMA ReadBodyStep ==
    ASSUME Types, NEW r \in Requests, HandlerInv(r), ReadBody(r)
    PROVE  Types' /\ HandlerInv(r)'
<1>1. pc[r] = "body" /\ UNCHANGED <<ep, ending, got, out, pending, tokenCount>>
  BY DEF ReadBody, At, streamVars
<1>2. /\ ep[r] \in Endpoints /\ status[r] = "none" /\ ending[r] = "open"
      /\ tokenCount[r] = 0 /\ pending[r] = {} /\ streaming[r]
      /\ Lines(r) /\ Counts(r) /\ Numbered(trace[r])
  BY <1>1 DEF HandlerInv, Phase
<1>3. CASE Answer(r, "400") /\ Call(r, "error", 0) /\ Goto(r, "exit") /\ UNCHANGED streaming
  <2>1. pc'[r] = "exit" /\ pc' \in [Requests -> PCs]
        /\ status' \in [Requests -> {"none", "200", "400", "500", "502", "upstream"}]
    BY <1>3 DEF Goto, Answer, Types, PCs
  <2>2. Types'
    BY <1>1, <1>2, <1>3, <2>1, OtherCall DEF Types
  <2>3. Phase(r)'
    BY <1>1, <1>2, <1>3, <2>1 DEF Phase
  <2>4. Lines(r)'
    BY <1>1, <1>2, <2>1 DEF Lines
  <2>5. Counts(r)' /\ Numbered(trace[r])' /\ Reported(r)'
    BY <1>1, <1>2, <1>3, OtherCall DEF Counts, Due, Reported
  <2> QED
    BY <2>2, <2>3, <2>4, <2>5 DEF HandlerInv
<1>4. CASE /\ \E b \in BOOLEAN : streaming' = [streaming EXCEPT ![r] = b]
           /\ Goto(r, "start") /\ UNCHANGED <<status, hookVars>>
  <2>1. pc'[r] = "start" /\ pc' \in [Requests -> PCs]
        /\ streaming' \in [Requests -> BOOLEAN]
    BY <1>4 DEF Goto, Types, PCs
  <2>2. Types' /\ status' = status /\ trace' = trace
    BY <1>1, <1>4, <2>1 DEF Types, hookVars
  <2>3. Phase(r)' /\ Lines(r)' /\ Reported(r)'
    BY <1>1, <1>2, <2>1, <2>2 DEF Phase, Lines, Reported
  <2>4. Counts(r)'
    BY <1>1, <1>2, <2>2 DEF Counts, Due
  <2> QED
    BY <1>2, <2>2, <2>3, <2>4 DEF HandlerInv
<1> QED
  BY <1>3, <1>4 DEF ReadBody

\* A step after which the handler is somewhere else, and nothing was read,
\* written or counted.
LEMMA LinesKept ==
    ASSUME NEW r \in Requests, Lines(r), UNCHANGED <<got, out>>,
           pc[r] = "write" <=> pc'[r] = "write"
    PROVE  Lines(r)'
BY DEF Lines

LEMMA CountsKept ==
    ASSUME NEW r \in Requests, Counts(r),
           UNCHANGED <<streaming, out, pending, tokenCount>>,
           Cardinality(Called(trace'[r], "token")) = Cardinality(Called(trace[r], "token")),
           Cardinality(Called(trace'[r], "complete")) =
              Cardinality(Called(trace[r], "complete"))
    PROVE  Counts(r)'
BY DEF Counts, Due

LEMMA StartRequestStep ==
    ASSUME Types, NEW r \in Requests, HandlerInv(r), StartRequest(r)
    PROVE  Types' /\ HandlerInv(r)'
<1>1. /\ pc[r] = "start" /\ Goto(r, "upstream") /\ Call(r, "start", 0)
      /\ UNCHANGED <<ep, streaming, ending, got, out, pending, tokenCount, status>>
  BY DEF StartRequest, At, streamVars
<1>2. pc'[r] = "upstream" /\ pc' \in [Requests -> PCs]
  BY <1>1 DEF Goto, Types, PCs
<1>3. Types'
  BY <1>1, <1>2, OtherCall DEF Types, HandlerInv
<1>4. Phase(r)' /\ Reported(r)'
  BY <1>1, <1>2 DEF HandlerInv, Phase, Reported
<1>5. Lines(r)' /\ Counts(r)' /\ Numbered(trace[r])'
  BY <1>1, <1>2, OtherCall, LinesKept, CountsKept DEF HandlerInv
<1> QED
  BY <1>3, <1>4, <1>5 DEF HandlerInv

LEMMA UpstreamFailsStep ==
    ASSUME Types, NEW r \in Requests, HandlerInv(r), UpstreamFails(r)
    PROVE  Types' /\ HandlerInv(r)'
<1>1. /\ pc[r] = "upstream" /\ Goto(r, "exit") /\ Call(r, "error", 0)
      /\ UNCHANGED <<ep, streaming, ending, got, out, pending, tokenCount>>
  BY DEF UpstreamFails, At, streamVars
<1>2. pc'[r] = "exit" /\ pc' \in [Requests -> PCs]
      /\ status' \in [Requests -> {"none", "200", "400", "500", "502", "upstream"}]
  BY <1>1 DEF UpstreamFails, Answer, Goto, Types, PCs
<1>3. Types'
  BY <1>1, <1>2, OtherCall DEF Types, HandlerInv
<1>4. Phase(r)'
  BY <1>1, <1>2 DEF HandlerInv, Phase
<1>5. Lines(r)' /\ Counts(r)' /\ Numbered(trace[r])'
  BY <1>1, <1>2, OtherCall, LinesKept, CountsKept DEF HandlerInv
<1>6. Reported(r)'
  BY <1>1, OtherCall DEF HandlerInv, Reported
<1> QED
  BY <1>3, <1>4, <1>5, <1>6 DEF HandlerInv

LEMMA UpstreamAnswersStep ==
    ASSUME Types, NEW r \in Requests, HandlerInv(r), UpstreamAnswers(r)
    PROVE  Types' /\ HandlerInv(r)'
<1>1. /\ pc[r] = "upstream" /\ Goto(r, IF streaming[r] THEN "scan" ELSE "whole")
      /\ Answer(r, "200")
      /\ UNCHANGED <<ep, streaming, ending, got, out, pending, tokenCount, trace, told>>
  BY DEF UpstreamAnswers, At, streamVars, hookVars
<1>2. /\ pc'[r] = IF streaming[r] THEN "scan" ELSE "whole"
      /\ pc' \in [Requests -> PCs]
      /\ status'[r] = "200"
      /\ status' \in [Requests -> {"none", "200", "400", "500", "502", "upstream"}]
  BY <1>1 DEF Answer, Goto, Types, PCs
<1>3. Types'
  BY <1>1, <1>2 DEF Types
<1>4. Phase(r)' /\ Reported(r)'
  BY <1>1, <1>2 DEF HandlerInv, Phase, Reported
<1>5. Lines(r)' /\ Counts(r)' /\ Numbered(trace[r])'
  BY <1>1, <1>2, LinesKept, CountsKept DEF HandlerInv
<1> QED
  BY <1>3, <1>4, <1>5 DEF HandlerInv

LEMMA CopyWholeStep ==
    ASSUME Types, NEW r \in Requests, HandlerInv(r), CopyWhole(r)
    PROVE  Types' /\ HandlerInv(r)'
<1>1. /\ pc[r] = "whole" /\ Goto(r, "exit") /\ Call(r, "complete", 0)
      /\ UNCHANGED <<ep, streaming, got, out, pending, tokenCount, status>>
  BY DEF CopyWhole, At
<1>2. /\ pc'[r] = "exit" /\ pc' \in [Requests -> PCs]
      /\ ending' \in [Requests -> {"open", "eof", "error"}]
  BY <1>1 DEF CopyWhole, Goto, Types, PCs
<1>3. /\ status[r] = "200" /\ ~streaming[r] /\ tokenCount[r] = 0
      /\ Cardinality(Called(trace[r], "token")) = 0
  BY <1>1 DEF HandlerInv, Phase, Counts
<1>4. [call |-> "complete", n |-> 0] \in AnyCall
  BY DEF AnyCall
<1>5. /\ trace' \in [Requests -> Seq(AnyCall)]
      /\ told' \in [Requests -> 0 .. NumHooks]
      /\ trace'[r] = Append(trace[r], [call |-> "complete", n |-> 0])
      /\ Cardinality(Called(trace'[r], "token")) =
            Cardinality(Called(trace[r], "token")) + 0
  BY <1>1, <1>4, CallEffect
<1>6. Types'
  BY <1>1, <1>2, <1>5 DEF Types
<1>7. Phase(r)' /\ Reported(r)'
  BY <1>1, <1>2, <1>3 DEF HandlerInv, Phase, Reported
<1>8. Lines(r)'
  BY <1>1, <1>2, LinesKept DEF HandlerInv
<1>9. Counts(r)'
  BY <1>1, <1>3, <1>5 DEF HandlerInv, Counts, Due
<1>10. Numbered(trace'[r])
  <2>1. trace[r] \in Seq(AnyCall)
    BY DEF Types
  <2> QED
    BY <1>3, <1>4, <1>5, <2>1, NumberedGrows DEF HandlerInv
<1> QED
  BY <1>6, <1>7, <1>8, <1>9, <1>10 DEF HandlerInv

LEMMA ScanEndStep ==
    ASSUME Types, NEW r \in Requests, HandlerInv(r), ScanEnd(r)
    PROVE  Types' /\ HandlerInv(r)'
<1>1. /\ pc[r] = "scan" /\ Goto(r, "exit")
      /\ UNCHANGED <<ep, streaming, got, out, pending, tokenCount, status>>
  BY DEF ScanEnd, At
<1>2. PICK e \in {"eof", "error"} :
        ending' = [ending EXCEPT ![r] = e] /\ StreamEnds(r, e)
  BY DEF ScanEnd, Types
<1>3. /\ pc'[r] = "exit" /\ pc' \in [Requests -> PCs]
      /\ ending' \in [Requests -> {"open", "eof", "error"}] /\ ending'[r] = e
  BY <1>1, <1>2 DEF Goto, Types, PCs
<1>4. Phase(r)' /\ Lines(r)'
  BY <1>1, <1>3, LinesKept DEF HandlerInv, Phase
<1>5. CASE e = "error"
  <2>1. Call(r, "error", 0)
    BY <1>2, <1>5 DEF StreamEnds
  <2>2. Types'
    BY <1>1, <1>3, <2>1, OtherCall DEF Types, HandlerInv
  <2>3. Counts(r)' /\ Numbered(trace[r])' /\ Reported(r)'
    BY <1>1, <2>1, OtherCall, CountsKept DEF HandlerInv, Reported
  <2> QED
    BY <1>4, <2>2, <2>3 DEF HandlerInv
<1>6. CASE e = "eof"
  <2>1. UNCHANGED <<trace, told>>
    BY <1>2, <1>6 DEF StreamEnds, hookVars
  <2>2. Types'
    BY <1>1, <1>3, <2>1 DEF Types
  <2>3. Counts(r)' /\ Numbered(trace[r])'
    BY <1>1, <2>1, CountsKept DEF HandlerInv
  <2>4. Reported(r)'
    BY <1>1, <1>3, <1>6 DEF HandlerInv, Phase, Reported
  <2> QED
    BY <1>4, <2>2, <2>3, <2>4 DEF HandlerInv
<1> QED
  BY <1>5, <1>6

LEMMA ReturnStep ==
    ASSUME Types, NEW r \in Requests, HandlerInv(r), HandlerReturn(r) \/ Tell(r)
    PROVE  Types' /\ HandlerInv(r)'
<1>1. UNCHANGED <<ep, streaming, ending, got, out, pending, tokenCount, status, trace>>
  BY DEF HandlerReturn, Tell, streamVars, hookVars
<1>2. pc' = pc \/ (pc[r] = "exit" /\ pc' = [pc EXCEPT ![r] = "returned"])
  BY DEF HandlerReturn, Tell, At, Goto
<1>3. told' \in [Requests -> 0 .. NumHooks]
  <2>1. told[r] \in Nat /\ (Tell(r) => told[r] + 1 \in 0 .. NumHooks)
    BY NumHooksAssumption DEF Tell, Types
  <2> QED
    BY <2>1 DEF HandlerReturn, Tell, hookVars, Types
<1>4. Types'
  BY <1>1, <1>2, <1>3 DEF Types, PCs
<1>5. Phase(r)' /\ Reported(r)'
  BY <1>1, <1>2 DEF Types, HandlerInv, Phase, Reported
<1>6. Lines(r)' /\ Counts(r)' /\ Numbered(trace[r])'
  BY <1>1, <1>2, LinesKept, CountsKept DEF Types, HandlerInv
<1> QED
  BY <1>4, <1>5, <1>6 DEF HandlerInv

LEMMA ScanLineStep ==
    ASSUME Types, NEW r \in Requests, HandlerInv(r), ScanLine(r)
    PROVE  Types' /\ HandlerInv(r)'
<1>1. /\ pc[r] = "scan" /\ Goto(r, "write") /\ Len(got[r]) < MaxLines
      /\ UNCHANGED <<ep, streaming, out, pending, tokenCount, status, trace, told>>
  BY DEF ScanLine, At, hookVars
<1>2. PICK l \in LinesOf(ep[r]) :
        /\ got' = [got EXCEPT ![r] = Append(got[r], l)]
        /\ \E e \in {"open", "eof", "error"} : ending' = [ending EXCEPT ![r] = e]
  BY DEF ScanLine
<1>3. l \in Line
  <2>1. ep[r] \in Endpoints
    BY <1>1 DEF HandlerInv, Phase
  <2>2. LineFields(ep[r]) \subseteq SUBSET Fields
    <3>1. CASE ep[r] = "OllamaChat"
      BY <3>1 DEF LineFields
    <3>2. CASE ep[r] = "OllamaGenerate"
      BY <3>2 DEF LineFields, Fields
    <3>3. CASE ep[r] = "OpenAIChat"
      <4>1. LineFields("OpenAIChat") = (SUBSET {"thinking", "content"}) \cup {{"done"}}
        BY DEF LineFields
      <4>2. ASSUME NEW has \in LineFields("OpenAIChat")
            PROVE  has \in SUBSET Fields
        <5>1. has \in SUBSET {"thinking", "content"} \/ has = {"done"}
          BY <4>1, <4>2, Zenon
        <5> QED
          BY <5>1 DEF Fields
      <4> QED
        BY <3>3, <4>2
    <3> QED
      BY <2>1, <3>1, <3>2, <3>3 DEF Endpoints
  <2> QED
    BY <2>2 DEF LinesOf, Line
<1>4. got[r] \in Seq(Line) /\ out[r] \in Seq(Line)
  BY DEF Types
<1>5. /\ got'[r] = Append(got[r], l) /\ got' \in [Requests -> Seq(Line)]
      /\ pc'[r] = "write" /\ pc' \in [Requests -> PCs]
      /\ ending' \in [Requests -> {"open", "eof", "error"}]
  BY <1>1, <1>2, <1>3 DEF Types, Goto, PCs
<1>6. Types'
  BY <1>1, <1>5 DEF Types
<1>7. Phase(r)' /\ Reported(r)'
  BY <1>1, <1>5 DEF HandlerInv, Phase, Reported
<1>8. Lines(r)'
  <2>1. /\ Len(got[r]) = Len(out[r])
        /\ \A i \in 1 .. Len(out[r]) : out[r][i] = [got[r][i] EXCEPT !.eol = "lf"]
    <3>1. Len(got[r]) = Len(out[r]) + 0
      BY <1>1 DEF HandlerInv, Lines
    <3>2. Len(got[r]) \in Nat /\ Len(out[r]) \in Nat
      BY <1>4
    <3>3. \A i \in 1 .. Len(out[r]) : out[r][i] = [got[r][i] EXCEPT !.eol = "lf"]
      BY DEF HandlerInv, Lines
    <3>4. Len(got[r]) = Len(out[r])
      BY <3>1, <3>2
    <3> QED
      BY <3>3, <3>4
  <2>2. /\ Len(got'[r]) = Len(got[r]) + 1
        /\ \A i \in 1 .. Len(got[r]) : got'[r][i] = got[r][i]
    BY <1>3, <1>4, <1>5
  <2>3. Len(got[r]) + 1 <= MaxLines
    BY <1>1, <1>4, MaxLinesAssumption
  <2> QED
    <3>1. Len(out[r]) \in Nat /\ Len(got'[r]) = Len(out[r]) + 1
      BY <1>4, <2>1, <2>2
    <3>2. \A i \in 1 .. Len(out[r]) : out[r][i] = [got'[r][i] EXCEPT !.eol = "lf"]
      BY <2>1, <2>2
    <3>3. Len(got'[r]) <= MaxLines
      BY <2>2, <2>3
    <3> QED
      BY <1>1, <1>5, <3>1, <3>2, <3>3 DEF Lines
<1>9. Counts(r)' /\ Numbered(trace[r])'
  BY <1>1, CountsKept DEF HandlerInv
<1> QED
  BY <1>6, <1>7, <1>8, <1>9 DEF HandlerInv

LEMMA WriteLineStep ==
    ASSUME Types, NEW r \in Requests, HandlerInv(r), WriteLine(r)
    PROVE  Types' /\ HandlerInv(r)'
<1> DEFINE l == got[r][Len(got[r])]
           w == [l EXCEPT !.eol = "lf"]
<1>1. /\ pc[r] = "write"
      /\ out' = [out EXCEPT ![r] = Append(out[r], w)]
      /\ pending' = [pending EXCEPT ![r] = l.has]
      /\ Goto(r, IF l.has = {} THEN "scan" ELSE "dispatch")
      /\ UNCHANGED <<ep, streaming, ending, got, tokenCount, status, trace, told>>
  BY DEF WriteLine, At, Forward, hookVars
<1>2. got[r] \in Seq(Line) /\ out[r] \in Seq(Line)
  BY DEF Types
<1>3. Len(got[r]) = Len(out[r]) + 1 /\ Len(got[r]) \in 1 .. Len(got[r])
  BY <1>1, <1>2 DEF HandlerInv, Lines
<1>4. l \in Line
  BY <1>2, <1>3
<1>5. w \in Line /\ w.has = l.has /\ l.has \in SUBSET Fields
  BY <1>4 DEF Line, Eols
<1> HIDE DEF l, w
<1>6. /\ out'[r] = Append(out[r], w) /\ out' \in [Requests -> Seq(Line)]
      /\ pending'[r] = l.has /\ pending' \in [Requests -> SUBSET Fields]
      /\ pc'[r] = IF l.has = {} THEN "scan" ELSE "dispatch"
      /\ pc' \in [Requests -> PCs]
  BY <1>1, <1>2, <1>5 DEF Types, Goto, PCs
<1>7. Types'
  BY <1>1, <1>6 DEF Types
<1>8. Phase(r)' /\ Reported(r)'
  BY <1>1, <1>6 DEF HandlerInv, Phase, Reported
<1>9. Lines(r)'
  <2>1. /\ Len(out'[r]) = Len(out[r]) + 1
        /\ out'[r][Len(out[r]) + 1] = w
        /\ \A i \in 1 .. Len(out[r]) : out'[r][i] = out[r][i]
    BY <1>2, <1>5, <1>6
  <2>2. w = [got[r][Len(out[r]) + 1] EXCEPT !.eol = "lf"]
    BY <1>3 DEF l, w
  <2>3. pc'[r] # "write"
    BY <1>6
  <2>4. Len(out'[r]) = Len(got'[r]) /\ Len(out[r]) \in Nat
    BY <1>1, <1>2, <1>3, <2>1
  <2>5. \A i \in 1 .. Len(out[r]) + 1 :
           out'[r][i] = [got'[r][i] EXCEPT !.eol = "lf"]
    <3>0. \A i \in 1 .. Len(out[r]) : out[r][i] = [got[r][i] EXCEPT !.eol = "lf"]
      BY DEF HandlerInv, Lines
    <3>1. ASSUME NEW i \in 1 .. Len(out[r]) + 1
          PROVE  out'[r][i] = [got[r][i] EXCEPT !.eol = "lf"]
      <4>1. CASE i = Len(out[r]) + 1
        BY <2>1, <2>2, <4>1
      <4>2. CASE i \in 1 .. Len(out[r])
        BY <2>1, <3>0, <4>2
      <4> QED
        BY <2>4, <3>1, <4>1, <4>2
    <3> QED
      BY <1>1, <3>1
  <2>6. Len(got'[r]) <= MaxLines
    BY <1>1 DEF HandlerInv, Lines
  <2> QED
    <3>1. Len(out'[r]) = Len(out[r]) + 1
      BY <2>1
    <3>2. Len(got'[r]) = Len(out'[r]) + 0
      BY <2>1, <2>4
    <3>3. \A i \in 1 .. Len(out'[r]) :
             out'[r][i] = [got'[r][i] EXCEPT !.eol = "lf"]
      BY <2>5, <3>1
    <3> QED
      BY <2>3, <2>6, <3>2, <3>3 DEF Lines
<1>10. Counts(r)'
  <2>1. \A f : /\ Cardinality(Carrying(out[r], f)) \in Nat
               /\ Cardinality(Carrying(out'[r], f)) =
                     Cardinality(Carrying(out[r], f)) + (IF f \in l.has THEN 1 ELSE 0)
    BY <1>2, <1>5, <1>6, CarryingCount
  <2>2. pending[r] = {}
    BY <1>1 DEF HandlerInv, Phase
  <2>3. tokenCount[r] \in Nat /\ Cardinality(Called(trace[r], "complete")) \in Nat
    <3>1. trace[r] \in Seq(AnyCall) /\ tokenCount[r] \in Nat
      BY DEF Types
    <3>2. [call |-> "start", n |-> 0] \in AnyCall
      BY DEF AnyCall
    <3> QED
      BY <3>1, <3>2, CalledCount
  <2>4. /\ tokenCount[r] + 0 = Cardinality(Carrying(out[r], "content"))
        /\ streaming[r] => Cardinality(Called(trace[r], "complete")) + 0
                             = Cardinality(Carrying(out[r], "done"))
    BY <2>2 DEF HandlerInv, Counts, Due
  <2>5. tokenCount[r] + (IF "content" \in l.has THEN 1 ELSE 0)
          = Cardinality(Carrying(out'[r], "content"))
    BY <2>1, <2>3, <2>4
  <2>6. streaming[r] =>
          Cardinality(Called(trace[r], "complete")) + (IF "done" \in l.has THEN 1 ELSE 0)
            = Cardinality(Carrying(out'[r], "done"))
    BY <2>1, <2>3, <2>4
  <2>7. Cardinality(Called(trace[r], "token")) = tokenCount[r]
    BY DEF HandlerInv, Counts
  <2> QED
    BY <1>1, <1>6, <2>5, <2>6, <2>7 DEF Counts, Due
<1>11. Numbered(trace[r])'
  BY <1>1 DEF HandlerInv
<1> QED
  BY <1>7, <1>8, <1>9, <1>10, <1>11 DEF HandlerInv

LEMMA CallHookStep ==
    ASSUME Types, NEW r \in Requests, HandlerInv(r),
           NEW f \in Fields, CallHook(r, f)
    PROVE  Types' /\ HandlerInv(r)'
<1>1. /\ pc[r] = "dispatch" /\ f \in pending[r]
      /\ pending' = [pending EXCEPT ![r] = pending[r] \ {f}]
      /\ Goto(r, IF pending[r] = {f} THEN "scan" ELSE "dispatch")
      /\ UNCHANGED <<ep, streaming, ending, got, out, status>>
  BY DEF CallHook, At, IsNext, Handled
<1>2. /\ pending'[r] = pending[r] \ {f} /\ pending' \in [Requests -> SUBSET Fields]
      /\ pc'[r] = IF pending[r] = {f} THEN "scan" ELSE "dispatch"
      /\ pc' \in [Requests -> PCs]
  BY <1>1 DEF Types, Goto, PCs
<1>3. /\ tokenCount[r] \in Nat /\ trace[r] \in Seq(AnyCall)
      /\ Cardinality(Called(trace[r], "token")) = tokenCount[r]
      /\ Numbered(trace[r])
  BY DEF Types, HandlerInv, Counts
<1>4. Phase(r)' /\ Lines(r)'
  <2>1. tokenCount'[r] = 0 \/ pc'[r] \notin {"accept", "body", "start", "upstream", "whole"}
    BY <1>2
  <2> QED
    BY <1>1, <1>2, <2>1, LinesKept DEF HandlerInv, Phase
<1>5. Reported(r)'
  BY <1>2 DEF Reported
<1>6. CASE f = "content"
  <2> DEFINE k == tokenCount[r] + 1
  <2>1. tokenCount' = [tokenCount EXCEPT ![r] = k] /\ Call(r, "token", k)
    BY <1>6 DEF CallHook, NextToken
  <2>2. k \in Nat /\ [call |-> "token", n |-> k] \in AnyCall
    BY <1>3 DEF AnyCall
  <2>3. tokenCount'[r] = k /\ tokenCount' \in [Requests -> Nat]
    BY <2>1, <2>2 DEF Types
  <2> HIDE DEF k
  <2>4. /\ trace' \in [Requests -> Seq(AnyCall)]
        /\ told' \in [Requests -> 0 .. NumHooks]
        /\ trace'[r] = Append(trace[r], [call |-> "token", n |-> k])
        /\ Cardinality(Called(trace'[r], "token")) =
              Cardinality(Called(trace[r], "token")) + 1
        /\ Cardinality(Called(trace'[r], "complete")) =
              Cardinality(Called(trace[r], "complete")) + 0
        /\ Cardinality(Called(trace[r], "complete")) \in Nat
    BY <2>1, <2>2, CallEffect
  <2>5. Types'
    BY <1>1, <1>2, <2>3, <2>4 DEF Types
  <2>6. Due(r, "content") = 1 /\ Due(r, "content")' = 0 /\ Due(r, "done")' = Due(r, "done")
    BY <1>1, <1>2, <1>6 DEF Due
  <2>7. Counts(r)'
    <3>1. k = tokenCount[r] + 1
      BY DEF k
    <3> QED
      BY <1>1, <1>3, <2>2, <2>3, <2>4, <2>6, <3>1 DEF HandlerInv, Counts
  <2>8. Numbered(trace'[r])
    <3>1. k = Cardinality(Called(trace[r], "token")) + 1
      BY <1>3 DEF k
    <3> QED
      BY <1>3, <2>2, <2>4, <3>1, NumberedGrows
  <2> QED
    BY <1>4, <1>5, <2>5, <2>7, <2>8 DEF HandlerInv
<1>7. CASE f = "done"
  <2>1. tokenCount' = tokenCount /\ Call(r, "complete", tokenCount[r])
    BY <1>7 DEF CallHook
  <2>2. [call |-> "complete", n |-> tokenCount[r]] \in AnyCall
    BY <1>3 DEF AnyCall
  <2>3. /\ trace' \in [Requests -> Seq(AnyCall)]
        /\ told' \in [Requests -> 0 .. NumHooks]
        /\ trace'[r] = Append(trace[r], [call |-> "complete", n |-> tokenCount[r]])
        /\ Cardinality(Called(trace'[r], "token")) =
              Cardinality(Called(trace[r], "token")) + 0
        /\ Cardinality(Called(trace'[r], "complete")) =
              Cardinality(Called(trace[r], "complete")) + 1
        /\ Cardinality(Called(trace[r], "complete")) \in Nat
    BY <2>1, <2>2, CallEffect
  <2>4. Types'
    BY <1>1, <1>2, <2>1, <2>3 DEF Types
  <2>5. Due(r, "done") = 1 /\ Due(r, "done")' = 0 /\ Due(r, "content")' = Due(r, "content")
    BY <1>1, <1>2, <1>7 DEF Due
  <2>6. Counts(r)'
    BY <1>1, <1>3, <2>1, <2>3, <2>5 DEF HandlerInv, Counts
  <2>7. Numbered(trace'[r])
    BY <1>3, <2>2, <2>3, NumberedGrows
  <2> QED
    BY <1>4, <1>5, <2>4, <2>6, <2>7 DEF HandlerInv
<1>8. CASE f \in {"thinking", "tool_calls"}
  <2>1. tokenCount' = tokenCount
    BY <1>8 DEF CallHook
  <2>2. PICK m \in {"start", "thinking", "toolcalls", "error"} : Call(r, m, 0)
    BY <1>8 DEF CallHook
  <2>3. Types' /\ Numbered(trace'[r])
    BY <1>1, <1>2, <1>3, <2>1, <2>2, OtherCall DEF Types, HandlerInv
  <2>4. Due(r, "done")' = Due(r, "done") /\ Due(r, "content")' = Due(r, "content")
    BY <1>1, <1>2, <1>8 DEF Due
  <2>5. Counts(r)'
    BY <1>1, <2>1, <2>2, <2>4, OtherCall DEF HandlerInv, Counts
  <2> QED
    BY <1>4, <1>5, <2>3, <2>5 DEF HandlerInv
<1> QED
  BY <1>6, <1>7, <1>8 DEF Fields

-----------------------------------------------------------------------------
(* The invariant holds.                                                    *)

HandlerStep(r) ==
    \/ ServeHTTP(r) \/ ReadBody(r)
    \/ UpstreamFails(r) \/ UpstreamAnswers(r)
    \/ CopyWhole(r) \/ ScanLine(r) \/ WriteLine(r) \/ ScanEnd(r)
    \/ OwnStep(r)

LEMMA OwnHandler ==
    ASSUME Types, NEW r \in Requests, HandlerInv(r), HandlerStep(r)
    PROVE  Types' /\ HandlerInv(r)'
BY ServeHTTPStep, ReadBodyStep, StartRequestStep, UpstreamFailsStep,
   UpstreamAnswersStep, CopyWholeStep, ScanLineStep, WriteLineStep,
   CallHookStep, ScanEndStep, ReturnStep
DEF HandlerStep, OwnStep

\* A handler touches nothing of another one.
LEMMA OthersUntouched ==
    ASSUME Types, NEW r \in Requests, NEW q \in Requests, q # r, HandlerStep(r)
    PROVE  /\ pc'[q] = pc[q] /\ ep'[q] = ep[q] /\ streaming'[q] = streaming[q]
           /\ ending'[q] = ending[q] /\ got'[q] = got[q] /\ out'[q] = out[q]
           /\ pending'[q] = pending[q] /\ tokenCount'[q] = tokenCount[q]
           /\ status'[q] = status[q] /\ trace'[q] = trace[q] /\ told'[q] = told[q]
<1> USE DEF Types, Goto, Call, Answer, streamVars, hookVars
<1>1. CASE ServeHTTP(r) \/ ReadBody(r)
  BY <1>1 DEF ServeHTTP, ReadBody
<1>2. CASE StartRequest(r) \/ UpstreamFails(r) \/ UpstreamAnswers(r)
  BY <1>2 DEF StartRequest, UpstreamFails, UpstreamAnswers
<1>3. CASE CopyWhole(r) \/ ScanLine(r)
  BY <1>3 DEF CopyWhole, ScanLine
<1>4. CASE WriteLine(r)
  BY <1>4 DEF WriteLine, Forward
<1>5. ASSUME NEW f \in Fields, CallHook(r, f)
      PROVE  /\ pc'[q] = pc[q] /\ pending'[q] = pending[q]
             /\ UNCHANGED <<ep, streaming, ending, got, out, status>>
             /\ tokenCount'[q] = tokenCount[q]
             /\ trace'[q] = trace[q] /\ told'[q] = told[q]
  <2>1. /\ pc'[q] = pc[q] /\ pending'[q] = pending[q]
        /\ UNCHANGED <<ep, streaming, ending, got, out, status>>
    BY <1>5 DEF CallHook, Handled
  <2>2. CASE f = "content"
    BY <1>5, <2>1, <2>2 DEF CallHook
  <2>3. CASE f = "done"
    BY <1>5, <2>1, <2>3 DEF CallHook
  <2>4. CASE f = "thinking"
    BY <1>5, <2>1, <2>4 DEF CallHook
  <2>5. CASE f = "tool_calls"
    BY <1>5, <2>1, <2>5 DEF CallHook
  <2> QED
    BY <2>2, <2>3, <2>4, <2>5 DEF Fields
<1>6. CASE ScanEnd(r)
  BY <1>6 DEF ScanEnd, StreamEnds
<1>7. CASE Tell(r) \/ HandlerReturn(r)
  BY <1>7 DEF Tell, HandlerReturn
<1> QED
  BY <1>1, <1>2, <1>3, <1>4, <1>5, <1>6, <1>7 DEF HandlerStep, OwnStep

LEMMA HandlerInvKept ==
    ASSUME NEW q \in Requests, HandlerInv(q),
           pc'[q] = pc[q], ep'[q] = ep[q], streaming'[q] = streaming[q],
           ending'[q] = ending[q], got'[q] = got[q], out'[q] = out[q],
           pending'[q] = pending[q], tokenCount'[q] = tokenCount[q],
           status'[q] = status[q], trace'[q] = trace[q]
    PROVE  HandlerInv(q)'
<1>1. Phase(q)' /\ Reported(q)'
  BY DEF HandlerInv, Phase, Reported
<1>2. Lines(q)'
  BY DEF HandlerInv, Lines
<1>3. Counts(q)' /\ Numbered(trace[q])'
  BY DEF HandlerInv, Counts, Due
<1> QED
  BY <1>1, <1>2, <1>3 DEF HandlerInv

LEMMA ProxyNext == ProxyInv /\ [Next]_vars => ProxyInv'
<1> SUFFICES ASSUME ProxyInv, [Next]_vars PROVE ProxyInv'
  OBVIOUS
<1>1. ASSUME NEW r \in Requests, HandlerStep(r)
      PROVE  ProxyInv'
  <2>1. Types' /\ HandlerInv(r)'
    BY <1>1, OwnHandler DEF ProxyInv
  <2>2. ASSUME NEW q \in Requests, q # r
        PROVE  HandlerInv(q)'
    BY <1>1, <2>2, OthersUntouched, HandlerInvKept DEF ProxyInv
  <2> QED
    BY <2>1, <2>2 DEF ProxyInv
<1>2. CASE UNCHANGED vars
  <2>1. UNCHANGED <<pc, ep, streaming, ending, got, out, pending, tokenCount,
                    status, trace, told>>
    BY <1>2 DEF vars, hookVars
  <2>2. Types'
    <3>1. Types
      BY DEF ProxyInv
    <3> QED
      BY <2>1, <3>1 DEF Types
  <2>3. ASSUME NEW q \in Requests
        PROVE  HandlerInv(q)'
    <3>1. HandlerInv(q)
      BY DEF ProxyInv
    <3> QED
      BY <2>1, <3>1, HandlerInvKept
  <2> QED
    BY <2>2, <2>3 DEF ProxyInv
<1> QED
  BY <1>1, <1>2 DEF Next, HandlerStep

LEMMA ProxyInit == Init => ProxyInv
<1> SUFFICES ASSUME Init PROVE ProxyInv
  OBVIOUS
<1>1. Types
  <2>1. NumHooks \in 0 .. NumHooks
    BY NumHooksAssumption
  <2> QED
    BY <2>1 DEF Init, Types, PCs
<1>2. ASSUME NEW r \in Requests
      PROVE  HandlerInv(r)
  <2>1. /\ pc[r] = "accept" /\ status[r] = "none" /\ ending[r] = "open"
        /\ streaming[r] /\ tokenCount[r] = 0 /\ pending[r] = {}
        /\ got[r] = <<>> /\ out[r] = <<>> /\ trace[r] = <<>>
    BY DEF Init
  <2>2. Called(<<>>, "token") = {} /\ Called(<<>>, "complete") = {}
    BY DEF Called
  <2>3. Carrying(<<>>, "content") = {} /\ Carrying(<<>>, "done") = {}
    BY DEF Carrying
  <2>4. Phase(r) /\ Reported(r)
    BY <2>1 DEF Phase, Reported
  <2>5. Lines(r)
    <3>1. Len(got[r]) = 0 /\ Len(out[r]) = 0 /\ pc[r] # "write"
      BY <2>1
    <3>2. 0 <= MaxLines /\ \A i \in 1 .. 0 : FALSE
      BY MaxLinesAssumption
    <3> QED
      BY <3>1, <3>2 DEF Lines
  <2>6. Counts(r)
    <3>1. Cardinality({}) = 0
      BY FS_EmptySet
    <3>2. /\ Cardinality(Called(trace[r], "token")) = 0
          /\ Cardinality(Called(trace[r], "complete")) = 0
          /\ Cardinality(Carrying(out[r], "content")) = 0
          /\ Cardinality(Carrying(out[r], "done")) = 0
      BY <2>1, <2>2, <2>3, <3>1
    <3>3. Due(r, "content") = 0 /\ Due(r, "done") = 0
      BY <2>1 DEF Due
    <3> QED
      BY <2>1, <3>2, <3>3 DEF Counts
  <2>7. Numbered(trace[r])
    BY <2>1 DEF Numbered
  <2> QED
    BY <2>4, <2>5, <2>6, <2>7 DEF HandlerInv
<1> QED
  BY <1>1, <1>2 DEF ProxyInv

LEMMA ProxyCorrect == Spec => []ProxyInv
BY ProxyInit, ProxyNext, PTL DEF Spec

-----------------------------------------------------------------------------
(* What it shows.                                                          *)

LEMMA CallsAreCalled ==
    ASSUME NEW r \in Requests, NEW m
    PROVE  Calls(r, m) = Called(trace[r], m)
BY DEF Calls, Called

\* There are never more tokens than lines.
LEMMA TokensBounded ==
    ASSUME ProxyInv, NEW r \in Requests
    PROVE  tokenCount[r] \in 0 .. MaxLines
<1>1. out[r] \in Seq(Line) /\ got[r] \in Seq(Line) /\ tokenCount[r] \in Nat
  BY DEF ProxyInv, Types
<1>2. [parses |-> TRUE, has |-> {}, eol |-> "lf"] \in Line
  BY DEF Line, Eols
<1>3. Cardinality(Carrying(out[r], "content")) <= Len(out[r])
  BY <1>1, <1>2, CarryingCount
<1>4. Len(out[r]) <= Len(got[r]) /\ Len(got[r]) <= MaxLines
  <2>1. Lines(r)
    BY DEF ProxyInv, HandlerInv
  <2>2. Len(out[r]) \in Nat /\ Len(got[r]) \in Nat
    BY <1>1
  <2>3. CASE pc[r] = "write"
    BY <2>1, <2>2, <2>3 DEF Lines
  <2>4. CASE pc[r] # "write"
    BY <2>1, <2>2, <2>4 DEF Lines
  <2> QED
    BY <2>3, <2>4
<1>5. tokenCount[r] <= Cardinality(Carrying(out[r], "content"))
  <2>1. tokenCount[r] + Due(r, "content") = Cardinality(Carrying(out[r], "content"))
    BY DEF ProxyInv, HandlerInv, Counts
  <2>2. Due(r, "content") \in {0, 1}
    BY DEF Due
  <2> QED
    BY <1>1, <2>1, <2>2
<1>6. Cardinality(Carrying(out[r], "content")) \in Nat /\ Len(out[r]) \in Nat
      /\ Len(got[r]) \in Nat
  BY <1>1, <1>2, CarryingCount
<1> QED
  BY <1>1, <1>3, <1>4, <1>5, <1>6, MaxLinesAssumption

\* Every reachable state is of its types and within its bounds.
THEOREM TypeCorrect == Spec => []TypeOK
<1>1. ASSUME ProxyInv
      PROVE  TypeOK
  <2>1. ASSUME NEW r \in Requests
        PROVE  /\ Len(got[r]) <= MaxLines
               /\ tokenCount[r] \in 0 .. MaxLines
               /\ trace[r] \in Seq(Event)
    <3>1. Len(got[r]) <= MaxLines
      BY <1>1 DEF ProxyInv, HandlerInv, Lines
    <3>2. tokenCount[r] \in 0 .. MaxLines
      BY <1>1, TokensBounded
    <3>3. trace[r] \in Seq(AnyCall) /\ Numbered(trace[r])
      BY <1>1 DEF ProxyInv, Types, HandlerInv
    <3>4. Cardinality(Called(trace[r], "token")) = tokenCount[r]
      BY <1>1 DEF ProxyInv, HandlerInv, Counts
    <3>5. ASSUME NEW i \in DOMAIN trace[r]
          PROVE  trace[r][i] \in Event
      <4> DEFINE P == {j \in Called(trace[r], "token") : j <= i}
      <4>1. trace[r][i] \in AnyCall
        BY <3>3, <3>5
      <4>2. Called(trace[r], "token") \in SUBSET (1 .. Len(trace[r])) /\ Len(trace[r]) \in Nat
        BY <3>3 DEF Called
      <4>3. IsFiniteSet(Called(trace[r], "token"))
        BY <4>2, CountGrows
      <4>4. P \subseteq Called(trace[r], "token")
        OBVIOUS
      <4>5. Cardinality(P) <= tokenCount[r] /\ Cardinality(P) \in Nat
        BY <3>4, <4>3, <4>4, FS_Subset, FS_CardinalityType
      <4>6. trace[r][i].n = Cardinality(P) \/ trace[r][i].n = 0
        BY <3>3, <3>5 DEF Numbered
      <4>7. trace[r][i].n \in 0 .. MaxLines
        BY <3>2, <4>5, <4>6, MaxLinesAssumption
      <4> QED
        BY <4>1, <4>7 DEF AnyCall, Event
    <3>6. trace[r] \in Seq(Event)
      BY <3>3, <3>5
    <3> QED
      BY <3>1, <3>2, <3>6
  <2> QED
    BY <1>1, <2>1 DEF ProxyInv, Types, TypeOK
<1> QED
  BY <1>1, ProxyCorrect, PTL

\* The client has been written every line, changed in its terminator only, and
\* the hooks have heard of no token it has not been written, for any number of
\* requests, lines and hooks (proxy.go:347, README.md:5).
THEOREM ClientComesFirst == Spec => []WrittenBeforeHooks
<1>1. ASSUME ProxyInv, NEW r \in Requests
      PROVE  /\ pc[r] # "write" => Len(out[r]) = Len(got[r])
             /\ \A i \in DOMAIN out[r] : out[r][i] = [got[r][i] EXCEPT !.eol = "lf"]
             /\ Cardinality(Calls(r, "token"))
                  <= Cardinality({i \in DOMAIN out[r] : "content" \in out[r][i].has})
  <2>1. out[r] \in Seq(Line) /\ got[r] \in Seq(Line) /\ tokenCount[r] \in Nat
    BY <1>1 DEF ProxyInv, Types
  <2>2. Lines(r) /\ Counts(r)
    BY <1>1 DEF ProxyInv, HandlerInv
  <2>3. Len(out[r]) \in Nat /\ DOMAIN out[r] = 1 .. Len(out[r]) /\ Len(got[r]) \in Nat
    BY <2>1
  <2>4. pc[r] # "write" => Len(out[r]) = Len(got[r])
    BY <2>2, <2>3 DEF Lines
  <2>5. Cardinality(Calls(r, "token")) = tokenCount[r]
    BY <2>2, CallsAreCalled DEF Counts
  <2>6. Due(r, "content") \in {0, 1}
    BY DEF Due
  <2>7. tokenCount[r] <= Cardinality(Carrying(out[r], "content"))
    BY <2>1, <2>2, <2>6 DEF Counts
  <2> QED
    BY <2>2, <2>3, <2>4, <2>5, <2>7 DEF Lines, Carrying
<1>2. ProxyInv => WrittenBeforeHooks
  BY <1>1 DEF WrittenBeforeHooks
<1> QED
  BY <1>2, ProxyCorrect, PTL

\* The numbers carried by OnToken and OnRequestComplete are the number of
\* OnToken calls (proxy.go:366, 375).
THEOREM TokensAreNumbered == Spec => []TokenNumbering
<1>1. ASSUME ProxyInv
      PROVE  TokenNumbering
  BY <1>1, CallsAreCalled DEF ProxyInv, HandlerInv, Numbered, TokenNumbering
<1> QED
  BY <1>1, ProxyCorrect, PTL

\* A failed request ends with OnError (proxy.go:258, 287, 303, 319, 434).
THEOREM FailuresReachTheHooks == Spec => []FailureIsReported
<1>1. ProxyInv => FailureIsReported
  BY DEF ProxyInv, HandlerInv, Reported, FailureIsReported
<1> QED
  BY <1>1, ProxyCorrect, PTL

\* As many completions are reported as done lines have been written.
THEOREM CompletionsMatchDoneLines == Spec => []CompleteOncePerDoneLine
<1>1. ASSUME ProxyInv, NEW r \in Requests, streaming[r], pc[r] # "dispatch"
      PROVE  Cardinality(Calls(r, "complete"))
               = Cardinality({i \in DOMAIN out[r] : "done" \in out[r][i].has})
  <2>1. Due(r, "done") = 0
    BY <1>1 DEF ProxyInv, HandlerInv, Phase, Due
  <2>2. Cardinality(Called(trace[r], "complete")) + 0 = Cardinality(Carrying(out[r], "done"))
    BY <1>1, <2>1 DEF ProxyInv, HandlerInv, Counts
  <2>3. Cardinality(Called(trace[r], "complete")) \in Nat
    <3>1. trace[r] \in Seq(AnyCall) /\ [call |-> "start", n |-> 0] \in AnyCall
      BY <1>1 DEF ProxyInv, Types, AnyCall
    <3> QED
      BY <3>1, CalledCount
  <2> QED
    BY <2>2, <2>3, CallsAreCalled DEF Carrying
<1>2. ProxyInv => CompleteOncePerDoneLine
  BY <1>1 DEF CompleteOncePerDoneLine
<1> QED
  BY <1>2, ProxyCorrect, PTL

=============================================================================
