---------------------------- MODULE DatabaseHook ----------------------------
(***************************************************************************)
(* database_hook.go: the plugin that logs conversations to PostgreSQL.     *)
(*                                                                         *)
(* Request handlers (whose calls follow HookLifecycle) keep the            *)
(* conversations in flight in a map and put records on three bounded       *)
(* channels without ever waiting; three background writers take them off   *)
(* and write them; Close stops the writers after a drain.  Nothing orders  *)
(* the three channels relative to each other.                              *)
(*                                                                         *)
(* A conversation (its UUID) is named by the request it was made for, a    *)
(* token by the request and its number in the stream.  A value that may be *)
(* absent is a set with at most one element.  `lost' and `late' are        *)
(* history variables: the program does not read them.                      *)
(***************************************************************************)
EXTENDS HookLifecycle, Sequences, FiniteSets

CONSTANTS
    Ids,         \* the strings reqID() may draw
    ReqID,       \* the one it drew for each request
    ConvCap,     \* capacity of convCh, 100 in the code
    MsgCap,      \* capacity of msgCh, 1000
    UpdCap,      \* capacity of updateCh, 100
    BatchSize,   \* messages that make the message writer flush, 10
    DbFails,     \* whether a database operation may fail
    Thinkers,    \* bound: the requests whose model streams thinking chunks
    ToolCallers  \* bound: the requests whose model calls tools

ASSUME ReqIDAssumption == ReqID \in [Requests -> Ids]
ASSUME CapAssumption ==
    /\ ConvCap \in Nat \ {0} /\ MsgCap \in Nat \ {0} /\ UpdCap \in Nat \ {0}
    /\ BatchSize \in Nat \ {0}
ASSUME DbFailsAssumption == DbFails \in BOOLEAN
ASSUME BoundAssumption == Thinkers \subseteq Requests /\ ToolCallers \subseteq Requests

VARIABLES
    call,           \* what a handler inside a hook call has yet to enqueue
    taken,          \* the conversation a completing handler took off the map
    conversations,  \* the map of conversations in flight
    convCh, msgCh, updateCh,   \* the channels
    convHeld,       \* the record conversationWriter is writing
    updHeld,        \* the record updateWriter is writing
    msgPc,          \* where messageWriter is
    draining,       \* whether messageWriter has seen the cancellation
    batch,          \* the messages it has collected
    tx,             \* its transaction: statements executed, none failed
    exited,         \* the writers that have returned
    proc,           \* progress of the shutdown
    convRows,       \* conversations with a row in the database
    endedRows,      \* those whose row was updated, with their total_tokens
    msgRows,        \* rows of the messages table, in order of insertion
    lost,           \* records dropped or not written
    late            \* handlers that had not returned when Close was called

handlerVars == <<call, taken, conversations>>
channelVars == <<convCh, msgCh, updateCh>>
messageVars == <<msgPc, draining, batch, tx>>
rowVars == <<convRows, endedRows, msgRows>>
vars == <<lifecycleVars, handlerVars, channelVars, convHeld, updHeld,
          messageVars, exited, proc, rowVars, lost, late>>

Writers == {"conversation", "message", "update"}

Chunk == [of : Requests, n : 1 .. MaxTokens]

\* conversationState: thinking and toolCalls say whose chunks they hold.
Conversation == [id : Requests, tokens : Seq(Chunk),
                 thinking : SUBSET Requests, toolCalls : SUBSET Requests]

MessageRecord == [conv : Requests, tokens : Seq(Chunk),
                  thinking : SUBSET Requests, toolCalls : SUBSET Requests,
                  tokenCount : 0 .. MaxTokens]

ConversationUpdate == [conv : Requests, totalTokens : 0 .. MaxTokens]

Record == [kind : Writers, conv : Requests]

TypeOK ==
    /\ LifecycleTypeOK
    /\ call \in [Requests -> Writers \cup {"none"}]
    /\ taken \in [Requests -> SUBSET Conversation]
    /\ conversations \in [Ids -> SUBSET Conversation]
    /\ convCh \in Seq(Requests) /\ Len(convCh) <= ConvCap
    /\ msgCh \in Seq(MessageRecord) /\ Len(msgCh) <= MsgCap
    /\ updateCh \in Seq(ConversationUpdate) /\ Len(updateCh) <= UpdCap
    /\ convHeld \in SUBSET Requests
    /\ updHeld \in SUBSET ConversationUpdate
    /\ msgPc \in {"select", "drain", "flush", "exec", "exited"}
    /\ draining \in BOOLEAN
    /\ batch \in Seq(MessageRecord)
    /\ tx \in [executed : Nat, ok : BOOLEAN]
    /\ exited \in SUBSET Writers
    /\ proc \in {"running", "closing", "closed", "exited"}
    /\ convRows \in SUBSET Requests
    /\ endedRows \in SUBSET ConversationUpdate
    /\ msgRows \in Seq(MessageRecord)
    /\ lost \in SUBSET Record
    /\ late \in SUBSET Requests

Init ==
    /\ LifecycleInit
    /\ call = [r \in Requests |-> "none"]
    /\ taken = [r \in Requests |-> {}]
    /\ conversations = [i \in Ids |-> {}]
    /\ convCh = <<>> /\ msgCh = <<>> /\ updateCh = <<>>
    /\ convHeld = {} /\ updHeld = {}
    /\ msgPc = "select" /\ draining = FALSE
    /\ batch = <<>> /\ tx = [executed |-> 0, ok |-> TRUE]
    /\ exited = {} /\ proc = "running"
    /\ convRows = {} /\ endedRows = {} /\ msgRows = <<>>
    /\ lost = {} /\ late = {}

-----------------------------------------------------------------------------
(* Request handlers.                                                       *)

\* A handler that is running and not inside a hook call.
Free(r) == proc # "exited" /\ call[r] = "none"

\* A handler that is inside a hook call, about to enqueue a record.
About(r, kind) == proc # "exited" /\ call[r] = kind

Continue(r, kind) == call' = [call EXCEPT ![r] = kind]

\* A send in a select with a default branch goes through if there is room.
\* Mutant: off by one.
RoomForOneMore(ch, cap) == Len(ch) <= cap
Room(ch, cap) == Len(ch) < cap

\* Mutant: a select without the default branch waits for room.
LoseNever(kind, S) == FALSE
Lose(kind, S) == lost' = lost \cup {[kind |-> kind, conv |-> r] : r \in S}

NewConversation(r) ==
    [id |-> r, tokens |-> <<>>, thinking |-> {}, toolCalls |-> {}]

backVars == <<convHeld, updHeld, messageVars, exited, proc, rowVars, late>>

\* The map entry is written under the lock ...
OnRequestStart(r) ==
    /\ Free(r)
    /\ Start(r)
    /\ conversations' = [conversations EXCEPT ![ReqID[r]] = {NewConversation(r)}]
    /\ Continue(r, "conversation")
    /\ UNCHANGED <<taken, channelVars, backVars, lost>>

\* ... and the record is sent after it, or dropped if the channel is full.
EnqueueConversation(r) ==
    /\ About(r, "conversation")
    /\ IF Room(convCh, ConvCap)
       THEN convCh' = Append(convCh, r) /\ UNCHANGED lost
       ELSE Lose("conversation", {r}) /\ UNCHANGED convCh
    /\ Continue(r, "none")
    /\ UNCHANGED <<lifecycleVars, taken, conversations, msgCh, updateCh, backVars>>

\* OnToken, OnThinking and OnToolCalls change the entry if there is one.
\* Mutant: the newest token comes first.
PrependToken(e, chunk) == [e EXCEPT !.tokens = <<chunk>> \o @]
AddToken(e, chunk) == [e EXCEPT !.tokens = Append(@, chunk)]
AddThinking(e, r) == [e EXCEPT !.thinking = @ \cup {r}]
SetToolCalls(e, r) == [e EXCEPT !.toolCalls = {r}]

OnToken(r) ==
    /\ Free(r)
    /\ Token(r)
    /\ LET chunk == [of |-> r, n |-> sent[r] + 1] IN
          conversations' = [conversations EXCEPT ![ReqID[r]] =
              {AddToken(e, chunk) : e \in @}]
    /\ UNCHANGED <<call, taken, channelVars, backVars, lost>>

\* Mutant: the chunk goes to every conversation in flight.
OnThinkingOfAny(r) ==
    /\ r \in Thinkers
    /\ Free(r)
    /\ MayCall(r)
    /\ conversations' = [i \in Ids |-> {AddThinking(e, r) : e \in conversations[i]}]
    /\ UNCHANGED <<lifecycleVars, call, taken, channelVars, backVars, lost>>

OnThinking(r) ==
    /\ r \in Thinkers
    /\ Free(r)
    /\ MayCall(r)
    /\ conversations' = [conversations EXCEPT ![ReqID[r]] =
          {AddThinking(e, r) : e \in @}]
    /\ UNCHANGED <<lifecycleVars, call, taken, channelVars, backVars, lost>>

\* Only the last tool_calls payload is kept.
OnToolCalls(r) ==
    /\ r \in ToolCallers
    /\ Free(r)
    /\ MayCall(r)
    /\ conversations' = [conversations EXCEPT ![ReqID[r]] =
          {SetToolCalls(e, r) : e \in @}]
    /\ UNCHANGED <<lifecycleVars, call, taken, channelVars, backVars, lost>>

\* delete(h.conversations, reqID).  Mutant: the entry stays.
NotRemoved(r) == conversations
Removed(r) == [conversations EXCEPT ![ReqID[r]] = {}]

\* The entry is taken off the map under the lock; a completion that finds
\* none (a second done line) only logs a warning.
OnRequestComplete(r) ==
    /\ Free(r)
    /\ Complete(r)
    /\ taken' = [taken EXCEPT ![r] = conversations[ReqID[r]]]
    /\ conversations' = Removed(r)
    /\ Continue(r, IF conversations[ReqID[r]] = {} THEN "none" ELSE "message")
    /\ UNCHANGED <<channelVars, backVars, lost>>

MessageOf(e, total) ==
    [conv |-> e.id, tokens |-> e.tokens, thinking |-> e.thinking,
     toolCalls |-> e.toolCalls, tokenCount |-> total]

\* Mutant: the count at the time the last token came.
UpdateOfLast(e, total) ==
    [conv |-> e.id, totalTokens |-> IF total = 0 THEN 0 ELSE total - 1]
UpdateOf(e, total) == [conv |-> e.id, totalTokens |-> total]

\* The total is the handler's own token count.
EnqueueMessage(r) ==
    /\ About(r, "message")
    /\ \E e \in taken[r] :
          IF Room(msgCh, MsgCap)
          THEN msgCh' = Append(msgCh, MessageOf(e, sent[r])) /\ UNCHANGED lost
          ELSE Lose("message", {e.id}) /\ UNCHANGED msgCh
    /\ Continue(r, "update")
    /\ UNCHANGED <<lifecycleVars, taken, conversations, convCh, updateCh, backVars>>

EnqueueUpdate(r) ==
    /\ About(r, "update")
    /\ \E e \in taken[r] :
          IF Room(updateCh, UpdCap)
          THEN /\ updateCh' = Append(updateCh, UpdateOf(e, sent[r]))
               /\ UNCHANGED lost
          ELSE Lose("update", {e.id}) /\ UNCHANGED updateCh
    /\ taken' = [taken EXCEPT ![r] = {}]
    /\ Continue(r, "none")
    /\ UNCHANGED <<lifecycleVars, conversations, convCh, msgCh, backVars>>

OnError(r) ==
    /\ Free(r)
    /\ Fail(r)
    /\ conversations' = Removed(r)
    /\ UNCHANGED <<call, taken, channelVars, backVars, lost>>

HandlerReturn(r) ==
    /\ Free(r)
    /\ Return(r)
    /\ UNCHANGED <<handlerVars, channelVars, backVars, lost>>

-----------------------------------------------------------------------------
(* conversationWriter and updateWriter.  The normal loop and the drain     *)
(* after the cancellation receive and write alike; the writer returns when *)
(* it has been cancelled and finds its channel empty.                      *)

ConvReceive ==
    /\ "conversation" \notin exited
    /\ convHeld = {} /\ convCh # <<>>
    /\ convHeld' = {Head(convCh)}
    /\ convCh' = Tail(convCh)
    /\ UNCHANGED <<lifecycleVars, handlerVars, msgCh, updateCh, updHeld,
                   messageVars, exited, proc, rowVars, lost, late>>

\* writeConversation: a failure is logged and the record is gone.
ConvWrite ==
    /\ convHeld # {}
    /\ \/ convRows' = convRows \cup convHeld /\ UNCHANGED lost
       \/ DbFails /\ Lose("conversation", convHeld) /\ UNCHANGED convRows
    /\ convHeld' = {}
    /\ UNCHANGED <<lifecycleVars, handlerVars, channelVars, updHeld,
                   messageVars, exited, proc, endedRows, msgRows, late>>

\* Mutant: the writer returns as soon as it is cancelled.
NotDrained(ch) == TRUE
Drained(ch) == ch = <<>>

ConvExit ==
    /\ "conversation" \notin exited
    /\ proc = "closing" /\ convHeld = {} /\ Drained(convCh)
    /\ exited' = exited \cup {"conversation"}
    /\ UNCHANGED <<lifecycleVars, handlerVars, channelVars, convHeld, updHeld,
                   messageVars, proc, rowVars, lost, late>>

UpdReceive ==
    /\ "update" \notin exited
    /\ updHeld = {} /\ updateCh # <<>>
    /\ updHeld' = {Head(updateCh)}
    /\ updateCh' = Tail(updateCh)
    /\ UNCHANGED <<lifecycleVars, handlerVars, convCh, msgCh, convHeld,
                   messageVars, exited, proc, rowVars, lost, late>>

\* updateConversation: UPDATE ... WHERE id = $1 sets the columns of the row
\* if there is one and succeeds just the same if there is none.
UpdWrite ==
    /\ updHeld # {}
    /\ \E u \in updHeld :
          \/ /\ u.conv \in convRows
             /\ endedRows' = {x \in endedRows : x.conv # u.conv} \cup {u}
             /\ UNCHANGED lost
          \/ /\ u.conv \notin convRows \/ DbFails
             /\ Lose("update", {u.conv})
             /\ UNCHANGED endedRows
    /\ updHeld' = {}
    /\ UNCHANGED <<lifecycleVars, handlerVars, channelVars, convHeld,
                   messageVars, exited, proc, convRows, msgRows, late>>

UpdExit ==
    /\ "update" \notin exited
    /\ proc = "closing" /\ updHeld = {} /\ Drained(updateCh)
    /\ exited' = exited \cup {"update"}
    /\ UNCHANGED <<lifecycleVars, handlerVars, channelVars, convHeld, updHeld,
                   messageVars, proc, rowVars, lost, late>>

-----------------------------------------------------------------------------
(* messageWriter.                                                          *)

frontVars == <<lifecycleVars, handlerVars, convCh, updateCh, convHeld, updHeld,
               proc, convRows, endedRows, late>>

MsgReceive ==
    /\ msgPc = "select" /\ msgCh # <<>>
    /\ batch' = Append(batch, Head(msgCh))
    /\ msgCh' = Tail(msgCh)
    /\ msgPc' = IF Len(batch) + 1 >= BatchSize THEN "flush" ELSE "select"
    /\ UNCHANGED <<frontVars, draining, tx, exited, msgRows, lost>>

\* The ticker, every 100 ms; nothing happens if the batch is empty.
\* Mutant: no ticker.
MsgTickNever == FALSE
MsgTick ==
    /\ msgPc = "select" /\ batch # <<>>
    /\ msgPc' = "flush"
    /\ UNCHANGED <<frontVars, draining, batch, tx, msgCh, exited, msgRows, lost>>

MsgCancelled ==
    /\ msgPc = "select" /\ proc = "closing"
    /\ msgPc' = "drain" /\ draining' = TRUE
    /\ UNCHANGED <<frontVars, batch, tx, msgCh, exited, msgRows, lost>>

\* While draining the batch grows without regard to BatchSize.
MsgDrain ==
    /\ msgPc = "drain" /\ msgCh # <<>>
    /\ batch' = Append(batch, Head(msgCh))
    /\ msgCh' = Tail(msgCh)
    /\ UNCHANGED <<frontVars, msgPc, draining, tx, exited, msgRows, lost>>

\* Mutant: break leaves the inner loop only.
MsgDrainedBreak ==
    /\ msgPc = "drain" /\ msgCh = <<>>
    /\ msgPc' = "select"
    /\ UNCHANGED <<frontVars, draining, batch, tx, msgCh, exited, msgRows, lost>>

MsgDrained ==
    /\ msgPc = "drain" /\ msgCh = <<>>
    /\ IF batch = <<>>
       THEN msgPc' = "exited" /\ exited' = exited \cup {"message"}
       ELSE msgPc' = "flush" /\ UNCHANGED exited
    /\ UNCHANGED <<frontVars, draining, batch, tx, msgCh, msgRows, lost>>

Convs(messages) == {messages[i].conv : i \in DOMAIN messages}

\* The end of flush(): the batch is emptied whatever became of it.
FlushOver ==
    /\ batch' = <<>>
    /\ IF draining
       THEN msgPc' = "exited" /\ exited' = exited \cup {"message"}
       ELSE msgPc' = "select" /\ UNCHANGED exited

\* writeMessages: Begin and Prepare ...
FlushBegin ==
    /\ msgPc = "flush"
    /\ msgPc' = "exec" /\ tx' = [executed |-> 0, ok |-> TRUE]
    /\ UNCHANGED <<frontVars, draining, batch, msgCh, exited, msgRows, lost>>

FlushBeginFails ==
    /\ DbFails
    /\ msgPc = "flush"
    /\ Lose("message", Convs(batch))
    /\ FlushOver
    /\ UNCHANGED <<frontVars, draining, tx, msgCh, msgRows>>

\* The foreign key of messages.conversation_id.  Mutant: a schema without it.
ReferencedAnyway(m) == TRUE
Referenced(m) == m.conv \in convRows

\* ... one INSERT per message, each refused by the foreign key if the row of
\* its conversation is not there.  A refused statement aborts the whole
\* transaction, but the loop goes on with the next message.
FlushExec ==
    /\ msgPc = "exec" /\ tx.executed < Len(batch)
    /\ LET inserted == tx.ok /\ Referenced(batch[tx.executed + 1]) IN
          \E ok \in {inserted, inserted /\ ~DbFails} :
              tx' = [executed |-> tx.executed + 1, ok |-> ok]
    /\ UNCHANGED <<frontVars, msgPc, draining, batch, msgCh, exited, msgRows, lost>>

\* ... Commit, which an aborted transaction answers with a rollback.
FlushCommit ==
    /\ msgPc = "exec" /\ tx.executed = Len(batch)
    /\ \/ tx.ok /\ msgRows' = msgRows \o batch /\ UNCHANGED lost
       \/ /\ ~tx.ok \/ DbFails
          /\ Lose("message", Convs(batch))
          /\ UNCHANGED msgRows
    /\ FlushOver
    /\ UNCHANGED <<frontVars, draining, tx, msgCh>>

-----------------------------------------------------------------------------
(* Close, called by main when ListenAndServe has returned, which is when   *)
(* Shutdown begins and not when it ends: handlers may still be running.    *)

Cancel ==
    /\ proc = "running"
    /\ proc' = "closing"
    /\ late' = {r \in Requests : ~Finished(r)}
    /\ UNCHANGED <<lifecycleVars, handlerVars, channelVars, convHeld, updHeld,
                   messageVars, exited, rowVars, lost>>

\* wg.Wait returns when the three writers have.
CloseReturns ==
    /\ proc = "closing" /\ exited = Writers
    /\ proc' = "closed"
    /\ UNCHANGED <<lifecycleVars, handlerVars, channelVars, convHeld, updHeld,
                   messageVars, exited, rowVars, lost, late>>

\* main returns, and the process ends with every handler still running.
ProcessExit ==
    /\ proc = "closed"
    /\ proc' = "exited"
    /\ UNCHANGED <<lifecycleVars, handlerVars, channelVars, convHeld, updHeld,
                   messageVars, exited, rowVars, lost, late>>

-----------------------------------------------------------------------------
Enqueue(r) == EnqueueConversation(r) \/ EnqueueMessage(r) \/ EnqueueUpdate(r)

Handler(r) ==
    \/ OnRequestStart(r) \/ OnToken(r) \/ OnThinking(r) \/ OnToolCalls(r)
    \/ OnRequestComplete(r) \/ OnError(r) \/ HandlerReturn(r)
    \/ Enqueue(r)

ConversationWriter == ConvReceive \/ ConvWrite \/ ConvExit

UpdateWriter == UpdReceive \/ UpdWrite \/ UpdExit

MessageWriter ==
    \/ MsgReceive \/ MsgTick \/ MsgCancelled \/ MsgDrain \/ MsgDrained
    \/ FlushBegin \/ FlushBeginFails \/ FlushExec \/ FlushCommit

Close == Cancel \/ CloseReturns \/ ProcessExit

Next ==
    \/ \E r \in Requests : Handler(r)
    \/ ConversationWriter \/ UpdateWriter \/ MessageWriter
    \/ Close

Spec == Init /\ [][Next]_vars

\* A goroutine that can take a step by itself eventually takes one.
HandlersRun == \A r \in Requests : WF_vars(Enqueue(r))

\* Every statement sent to the database is answered or fails.
WritersRun ==
    /\ WF_vars(ConversationWriter)
    /\ WF_vars(UpdateWriter)
    /\ WF_vars(MessageWriter)

ShutdownRuns == WF_vars(CloseReturns) /\ WF_vars(ProcessExit)

FairSpec == Spec /\ HandlersRun /\ WritersRun /\ ShutdownRuns

-----------------------------------------------------------------------------
(* Properties.                                                             *)

\* The messages that have left the map, oldest first.
Pipeline == msgRows \o batch \o msgCh

\* The chunks 1 .. n of the stream of a request.
Stream(r, n) == [i \in 1 .. n |-> [of |-> r, n |-> i]]

OwnFields(r, m) == m.thinking \subseteq {r} /\ m.toolCalls \subseteq {r}

\* An entry of the map holds what its own handler was sent and nothing else
\* (database_hook.go:131-153).
EntryFaithful ==
    \A r \in Requests : \A e \in conversations[ReqID[r]] \cup taken[r] :
        /\ e.id = r
        /\ e.tokens = Stream(r, sent[r])
        /\ OwnFields(r, e)

\* A message record holds the whole stream of its conversation up to its
\* token_count and nothing of any other.
Faithful(m) == m.tokens = Stream(m.conv, m.tokenCount) /\ OwnFields(m.conv, m)

\* README.md:164, "hooks can track concurrent requests without cross-talk":
\* on its way and in its row, the message of a conversation has all the
\* tokens of that conversation, in order, and a token_count that agrees with
\* them, whatever other requests did meanwhile (database_hook.go:174-184).
AllFaithful(messages) == \A i \in DOMAIN messages : Faithful(messages[i])

MessageFaithful == AllFaithful(Pipeline)

\* However often a stream says that it is done, a conversation has at most
\* one message, counting those still queued or in the batch
\* (database_hook.go:155-166).
OneMessagePerConversation ==
    \A i, j \in DOMAIN Pipeline : Pipeline[i].conv = Pipeline[j].conv => i = j

\* The two rows a completed request leaves agree on its number of tokens,
\* though they take different channels and writers (database_hook.go:182,
\* 196).
RowsAgree ==
    \A u \in endedRows : \A i \in DOMAIN msgRows :
        msgRows[i].conv = u.conv => msgRows[i].tokenCount = u.totalTokens

\* A row of the map goes with its request, unless the handler returns having
\* called neither OnRequestComplete nor OnError, when it stays for ever: the
\* one way the map can leak (database_hook.go:207, proxy.go:432).
OnlyAbandonedLeak ==
    \A r \in Requests :
        conversations[ReqID[r]] # {} => stage[r] \in {"open", "abandoned"}

\* Once Close has returned, a record still queued is one of a handler that
\* was running when Close was called: the drain leaves nothing of an earlier
\* request behind (database_hook.go:222-229, 259-267, 280-286).
LeftBehindIsLate ==
    proc \in {"closed", "exited"} =>
        /\ convHeld = {} /\ updHeld = {} /\ batch = <<>>
        /\ \A i \in DOMAIN convCh : convCh[i] \in late
        /\ \A i \in DOMAIN msgCh : msgCh[i].conv \in late
        /\ \A i \in DOMAIN updateCh : updateCh[i].conv \in late

\* README.md:101, "Persists every conversation and message": as long as no
\* database operation fails, no message is lost.
MessagesArePersisted ==
    ~DbFails => \A r \in Requests : [kind |-> "message", conv |-> r] \notin lost

\* README.md:101, "non-blocking": a handler inside a hook call can always go
\* on by itself, even if no writer ever takes another step; since no step of
\* another disables its send, it returns (database_hook.go:118-128, 186-201).
HandlerNeverWaits ==
    \A r \in Requests :
        (call[r] # "none" /\ proc # "exited") => ENABLED Enqueue(r)

\* Close returns and the process ends, however full the channels are.
CloseTerminates == proc = "closing" ~> proc = "exited"

-----------------------------------------------------------------------------
(* The invariants above, strengthened until every step preserves them, for *)
(* identifiers that do not collide.                                        *)

NoCollision == \A r, q \in Requests : ReqID[r] = ReqID[q] => r = q

\* What the map and the conversations taken off it hold is the handler's own,
\* and a handler outside OnRequestComplete holds none, so that no token is
\* added to a conversation that is being enqueued (database_hook.go:155-202).
HandlerInv ==
    /\ EntryFaithful
    /\ \A r \in Requests :
          /\ stage[r] = "new" => sent[r] = 0 /\ call[r] = "none"
          /\ taken[r] # {} => call[r] \in {"message", "update"}

\* A conversation with a message on its way or stored has started, is off the
\* map and will not be enqueued again (database_hook.go:155-166).
PipelineInv ==
    /\ OneMessagePerConversation
    /\ \A r \in Requests :
          call[r] = "message" => conversations[ReqID[r]] = {}
    /\ \A i \in DOMAIN Pipeline :
          LET r == Pipeline[i].conv IN
              /\ stage[r] # "new" /\ call[r] # "message"
              /\ conversations[ReqID[r]] = {}

-----------------------------------------------------------------------------
InSeq(x, s) == \E i \in DOMAIN s : s[i] = x

OnItsWay(r, kind) ==
    CASE kind = "conversation" ->
            call[r] = kind \/ r \in convHeld \/ InSeq(r, convCh)
      [] kind = "message" ->
            call[r] = kind \/ r \in Convs(batch) \cup Convs(msgCh)
      [] kind = "update" ->
            \/ call[r] \in {"message", "update"}
            \/ \E u \in updHeld : u.conv = r
            \/ r \in Convs(updateCh)

InDatabase(r, kind) ==
    CASE kind = "conversation" -> r \in convRows
      [] kind = "message" -> r \in Convs(msgRows)
      [] kind = "update" -> \E u \in endedRows : u.conv = r

\* Every record that is due reaches the database or is lost, unless the
\* process ends first.
RecordsSettle ==
    \A r \in Requests, kind \in Writers :
        OnItsWay(r, kind) ~> ~OnItsWay(r, kind) \/ proc \in {"closed", "exited"}

fateOf == [r \in Requests |-> [kind \in Writers |->
    IF InDatabase(r, kind) THEN "stored"
    ELSE IF [kind |-> kind, conv |-> r] \in lost THEN "lost"
    ELSE IF OnItsWay(r, kind) THEN "due"
    ELSE "none"]]

Log == INSTANCE ConversationLog WITH record <- fateOf

\* Three channels and three writers, seen from the database, are a log: no
\* record vanishes, is written twice or comes back (ConversationLog).
ImplementsConversationLog == Log!LogSpec

=============================================================================
