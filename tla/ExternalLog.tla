---------------------------- MODULE ExternalLog -----------------------------
(***************************************************************************)
(* POST /_proxy/log: handleExternalLog (proxy.go) checks the request and   *)
(* WriteExternalConversation (database_hook.go) stores it, a conversation  *)
(* and two messages in one transaction, before the caller is answered.     *)
(*                                                                         *)
(* Only the rows that can be told apart matter: how many of its three rows *)
(* a request has in its transaction and in the database.  The module is a  *)
(* part of Main, which opens and closes the pool under it.                 *)
(***************************************************************************)
EXTENDS Naturals

CONSTANT LogRequests   \* the POST requests to /_proxy/log

VARIABLES
    logToken,    \* whether a token is configured
    pool,        \* the connections of the db plugin: "absent" without it
    at,          \* where each request is
    inserted,    \* rows in its transaction
    rows,        \* rows in the database
    answer,      \* status the caller was answered with
    unsure       \* history: requests whose commit was applied unnoticed

logVars == <<at, inserted, rows, answer, unsure>>

\* conversations, the user's message and the assistant's.
RowsOfOne == 3

LogTypeOK ==
    /\ logToken \in BOOLEAN
    /\ pool \in {"absent", "open", "closed"}
    /\ at \in [LogRequests -> {"new", "begin", "insert", "reply", "done"}]
    /\ inserted \in [LogRequests -> 0 .. RowsOfOne]
    /\ rows \in [LogRequests -> 0 .. RowsOfOne]
    /\ answer \in [LogRequests -> {"none", "200", "400", "401", "500", "501"}]
    /\ unsure \in SUBSET LogRequests

LogInit ==
    /\ logToken = FALSE /\ pool = "absent"
    /\ at = [r \in LogRequests |-> "new"]
    /\ inserted = [r \in LogRequests |-> 0]
    /\ rows = [r \in LogRequests |-> 0]
    /\ answer = [r \in LogRequests |-> "none"]
    /\ unsure = {}

Goto(r, label) == at' = [at EXCEPT ![r] = label]

Reply(r, code) ==
    /\ answer' = [answer EXCEPT ![r] = code]
    /\ Goto(r, "done")

-----------------------------------------------------------------------------
\* The checks in the order of the code: token, plugin, JSON, required fields.
Receive(r) ==
    /\ at[r] = "new"
    /\ \E authorized, complete \in BOOLEAN :
          IF ~logToken THEN Reply(r, "501")
          ELSE IF ~authorized THEN Reply(r, "401")
          ELSE IF pool = "absent" THEN Reply(r, "501")
          ELSE IF ~complete THEN Reply(r, "400")
          ELSE Goto(r, "begin") /\ UNCHANGED answer
    /\ UNCHANGED <<logToken, pool, inserted, rows, unsure>>

\* The error is returned and the deferred Rollback undoes the transaction.
Fails(r) ==
    /\ inserted' = [inserted EXCEPT ![r] = 0]
    /\ Reply(r, "500")
    /\ UNCHANGED rows

\* db.Begin fails on a closed pool, and may fail on an open one.
Begin(r) ==
    /\ at[r] = "begin"
    /\ \/ /\ pool = "open"
          /\ Goto(r, "insert")
          /\ UNCHANGED <<inserted, rows, answer>>
       \/ Fails(r)
    /\ UNCHANGED <<logToken, pool, unsure>>

\* Mutant: db.Exec, outside the transaction.
InsertDirectly(r) ==
    /\ inserted' = [inserted EXCEPT ![r] = @ + 1]
    /\ rows' = [rows EXCEPT ![r] = @ + 1]
InsertRow(r) ==
    /\ inserted' = [inserted EXCEPT ![r] = @ + 1]
    /\ UNCHANGED rows

\* tx.Exec, three times.  A transaction that has begun keeps its connection
\* when the pool is closed: it may fail or not.
Insert(r) ==
    /\ at[r] = "insert" /\ inserted[r] < RowsOfOne
    /\ \/ InsertRow(r) /\ UNCHANGED <<at, answer>>
       \/ Fails(r)
    /\ UNCHANGED <<logToken, pool, unsure>>

\* Mutant: the error of Commit is not looked at.
CommitFailsUnseen(r) == Goto(r, "reply") /\ UNCHANGED <<rows, answer>>
CommitFails(r) == Reply(r, "500") /\ UNCHANGED rows

\* tx.Commit: done, refused, or done with its result lost.
Commit(r) ==
    /\ at[r] = "insert" /\ inserted[r] = RowsOfOne
    /\ \/ /\ rows' = [rows EXCEPT ![r] = inserted[r]]
          /\ \/ Goto(r, "reply") /\ UNCHANGED <<answer, unsure>>
             \/ Reply(r, "500") /\ unsure' = unsure \cup {r}
       \/ CommitFails(r) /\ UNCHANGED unsure
    /\ UNCHANGED <<logToken, pool, inserted>>

Respond(r) ==
    /\ at[r] = "reply"
    /\ Reply(r, "200")
    /\ UNCHANGED <<logToken, pool, inserted, rows, unsure>>

LogStep(r) == Begin(r) \/ Insert(r) \/ Commit(r) \/ Respond(r)

-----------------------------------------------------------------------------
\* A conversation is in the database with both its messages or not at all,
\* whatever fails and whenever the pool is closed or the process ends
\* (database_hook.go:380-415, main.go:160).
WholeConversations == \A r \in LogRequests : rows[r] \in {0, RowsOfOne}

\* The answer tells the truth: after 200 the conversation is stored, after
\* any other answer it is not, except that a commit may have been applied
\* whose answer was lost (proxy.go:484-491, database_hook.go:411).
AnswerIsTrue ==
    \A r \in LogRequests :
        /\ answer[r] = "200" => rows[r] = RowsOfOne
        /\ answer[r] \notin {"none", "200"} /\ r \notin unsure => rows[r] = 0

=============================================================================
