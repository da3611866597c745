--------------------------- MODULE ConversationLog ---------------------------
(***************************************************************************)
(* What the database plugin promises of the three records a request makes: *)
(* one for the conversation when it starts, one for the assistant message  *)
(* and one for the update of the conversation when it completes.  A record *)
(* becomes due once, and ends up stored or lost, for good.  A message or   *)
(* an update is stored only if the conversation is.  Which records are     *)
(* lost is left open: the plugin never makes a request wait.               *)
(***************************************************************************)
CONSTANT Requests

VARIABLE record   \* what has become of each record of each request

Kinds == {"conversation", "message", "update"}

LogInit == record = [r \in Requests |-> [k \in Kinds |-> "none"]]

Settle(S, kind, fate) ==
    /\ \A r \in S : record[r][kind] = "due"
    /\ record' = [r \in Requests |->
          IF r \in S THEN [record[r] EXCEPT ![kind] = fate] ELSE record[r]]

\* The request starts.
Begin(r) ==
    /\ record[r] = [k \in Kinds |-> "none"]
    /\ record' = [record EXCEPT ![r]["conversation"] = "due"]

\* The request completes: both records become due at the same time.
Finish(r) ==
    /\ record[r]["conversation"] # "none"
    /\ record[r]["message"] = "none" /\ record[r]["update"] = "none"
    /\ record' = [record EXCEPT ![r]["message"] = "due", ![r]["update"] = "due"]

\* Messages are stored and lost by the batch, the others one by one.
Store(S, kind) ==
    /\ kind # "message" => \E r \in Requests : S = {r}
    /\ kind # "conversation" =>
          \A r \in S : record[r]["conversation"] = "stored"
    /\ Settle(S, kind, "stored")

Discard(S, kind) ==
    /\ kind # "message" => \E r \in Requests : S = {r}
    /\ Settle(S, kind, "lost")

LogNext ==
    \/ \E r \in Requests : Begin(r) \/ Finish(r)
    \/ \E S \in SUBSET Requests, kind \in Kinds :
          Store(S, kind) \/ Discard(S, kind)

LogSpec == LogInit /\ [][LogNext]_record

=============================================================================
