------------------------- MODULE DatabaseHookProofs -------------------------
(***************************************************************************)
(* Theorems about DatabaseHook and their proofs.                           *)
(***************************************************************************)
EXTENDS DatabaseHook, SequenceTheorems, TLAPS

-----------------------------------------------------------------------------
(* Types.                                                                  *)

\* The calls of one handler keep the lifecycle variables in their types.
LEMMA LifecycleType ==
    ASSUME LifecycleTypeOK, NEW r \in Requests,
           Start(r) \/ Token(r) \/ Complete(r) \/ Fail(r) \/ Return(r)
    PROVE  LifecycleTypeOK'
BY MaxTokensAssumption
   DEF LifecycleTypeOK, Start, Token, Complete, Fail, Return, MoveTo, Stages,
       MayCall, Finished

\* What the hook builds from a conversation has the type of a conversation or of
\* a message (database_hook.go:38-66).
LEMMA ConversationTypes ==
    ASSUME NEW r \in Requests
    PROVE  /\ NewConversation(r) \in Conversation
           /\ \A e \in Conversation, chunk \in Chunk :
                AddToken(e, chunk) \in Conversation
           /\ \A e \in Conversation :
                /\ AddThinking(e, r) \in Conversation
                /\ SetToolCalls(e, r) \in Conversation
           /\ \A e \in Conversation, total \in 0 .. MaxTokens :
                MessageOf(e, total) \in MessageRecord
BY DEF NewConversation, Conversation, AddToken, AddThinking, SetToolCalls,
       MessageOf, MessageRecord

\* The entry of one handler's identifier is replaced by entries of the type.
LEMMA MapType ==
    ASSUME TypeOK, NEW r \in Requests, NEW S \in SUBSET Conversation,
           conversations' = [conversations EXCEPT ![ReqID[r]] = S]
    PROVE  conversations' \in [Ids -> SUBSET Conversation]
BY DEF TypeOK

\* OnRequestStart keeps every variable in its type.
LEMMA StartType ==
    ASSUME TypeOK, NEW r \in Requests, OnRequestStart(r)
    PROVE  TypeOK'
<1>1. LifecycleTypeOK'
  BY LifecycleType DEF TypeOK, OnRequestStart
<1>2. conversations' \in [Ids -> SUBSET Conversation]
  <2>1. {NewConversation(r)} \in SUBSET Conversation
    BY ConversationTypes
  <2> QED
    BY <2>1, MapType DEF OnRequestStart
<1>3. call' \in [Requests -> Writers \cup {"none"}]
  BY DEF TypeOK, OnRequestStart, Continue, Writers
<1> QED
  BY <1>1, <1>2, <1>3 DEF TypeOK, OnRequestStart, channelVars, backVars,
     messageVars, rowVars

\* OnToken keeps every variable in its type.
LEMMA TokenType ==
    ASSUME TypeOK, NEW r \in Requests, OnToken(r)
    PROVE  TypeOK'
<1>1. LifecycleTypeOK'
  BY LifecycleType DEF TypeOK, OnToken
<1>2. conversations' \in [Ids -> SUBSET Conversation]
  <2> DEFINE chunk == [of |-> r, n |-> sent[r] + 1]
  <2> DEFINE S == {AddToken(e, chunk) : e \in conversations[ReqID[r]]}
  <2>1. chunk \in Chunk
    BY MaxTokensAssumption DEF TypeOK, LifecycleTypeOK, OnToken, Token, Chunk
  <2>2. conversations[ReqID[r]] \subseteq Conversation
    BY ReqIDAssumption DEF TypeOK
  <2>3. S \in SUBSET Conversation
    BY <2>1, <2>2, ConversationTypes
  <2>4. conversations' = [conversations EXCEPT ![ReqID[r]] = S]
    BY DEF OnToken
  <2> QED
    BY <2>3, <2>4, MapType
<1> QED
  BY <1>1, <1>2 DEF TypeOK, OnToken, channelVars, backVars, messageVars, rowVars

\* OnThinking keeps every variable in its type.
LEMMA ThinkingType ==
    ASSUME TypeOK, NEW r \in Requests, OnThinking(r)
    PROVE  TypeOK'
<1>1. conversations' \in [Ids -> SUBSET Conversation]
  <2> DEFINE S == {AddThinking(e, r) : e \in conversations[ReqID[r]]}
  <2>1. S \in SUBSET Conversation
    BY ConversationTypes, ReqIDAssumption DEF TypeOK
  <2>2. conversations' = [conversations EXCEPT ![ReqID[r]] = S]
    BY DEF OnThinking
  <2> QED
    BY <2>1, <2>2, MapType
<1> QED
  BY <1>1 DEF TypeOK, LifecycleTypeOK, OnThinking, lifecycleVars, channelVars,
     backVars, messageVars, rowVars

\* OnToolCalls keeps every variable in its type.
LEMMA ToolCallsType ==
    ASSUME TypeOK, NEW r \in Requests, OnToolCalls(r)
    PROVE  TypeOK'
<1>1. conversations' \in [Ids -> SUBSET Conversation]
  <2> DEFINE S == {SetToolCalls(e, r) : e \in conversations[ReqID[r]]}
  <2>1. S \in SUBSET Conversation
    BY ConversationTypes, ReqIDAssumption DEF TypeOK
  <2>2. conversations' = [conversations EXCEPT ![ReqID[r]] = S]
    BY DEF OnToolCalls
  <2> QED
    BY <2>1, <2>2, MapType
<1> QED
  BY <1>1 DEF TypeOK, LifecycleTypeOK, OnToolCalls, lifecycleVars, channelVars,
     backVars, messageVars, rowVars

\* OnRequestComplete keeps every variable in its type up to its first send.
LEMMA CompleteType ==
    ASSUME TypeOK, NEW r \in Requests, OnRequestComplete(r)
    PROVE  TypeOK'
<1>1. LifecycleTypeOK'
  BY LifecycleType DEF TypeOK, OnRequestComplete
<1>2. conversations' \in [Ids -> SUBSET Conversation]
  <2>1. {} \in SUBSET Conversation
    OBVIOUS
  <2> QED
    BY <2>1, MapType DEF OnRequestComplete, Removed
<1>3. /\ taken' \in [Requests -> SUBSET Conversation]
      /\ call' \in [Requests -> Writers \cup {"none"}]
  BY ReqIDAssumption DEF TypeOK, OnRequestComplete, Continue, Writers
<1> QED
  BY <1>1, <1>2, <1>3 DEF TypeOK, OnRequestComplete, channelVars, backVars,
     messageVars, rowVars

\* OnError keeps every variable in its type.
LEMMA ErrorType ==
    ASSUME TypeOK, NEW r \in Requests, OnError(r)
    PROVE  TypeOK'
<1>1. LifecycleTypeOK'
  BY LifecycleType DEF TypeOK, OnError
<1>2. conversations' \in [Ids -> SUBSET Conversation]
  <2>1. {} \in SUBSET Conversation
    OBVIOUS
  <2> QED
    BY <2>1, MapType DEF OnError, Removed
<1> QED
  BY <1>1, <1>2 DEF TypeOK, OnError, channelVars, backVars, messageVars, rowVars

\* The return of a handler keeps every variable in its type.
LEMMA ReturnType ==
    ASSUME TypeOK, NEW r \in Requests, HandlerReturn(r)
    PROVE  TypeOK'
<1>1. LifecycleTypeOK'
  BY LifecycleType DEF TypeOK, HandlerReturn
<1> QED
  BY <1>1 DEF TypeOK, HandlerReturn, handlerVars, channelVars, backVars,
     messageVars, rowVars

\* Losing records of requests keeps the history of losses in its type.
LEMMA LoseType ==
    ASSUME TypeOK, NEW kind \in Writers, NEW S \in SUBSET Requests, Lose(kind, S)
    PROVE  lost' \in SUBSET Record
BY DEF TypeOK, Lose, Record

\* select { case ch <- record: default: } keeps the channel within its capacity.
LEMMA OfferType ==
    ASSUME NEW T, NEW ch \in Seq(T), NEW cap \in Nat, Len(ch) <= cap, NEW x \in T
    PROVE  /\ Append(ch, x) \in Seq(T)
           /\ Len(ch) < cap => Len(Append(ch, x)) <= cap
OBVIOUS

\* Losing the record of one conversation does, too.
LEMMA LoseOneType ==
    ASSUME TypeOK, NEW kind \in Writers, NEW r \in Requests,
           Lose(kind, {r}) \/ UNCHANGED lost
    PROVE  lost' \in SUBSET Record
<1>1. {r} \in SUBSET Requests
  OBVIOUS
<1> QED
  BY <1>1, LoseType DEF TypeOK

\* The three sends keep every variable in its type, and no channel overflows.
LEMMA EnqueueType ==
    ASSUME TypeOK, NEW r \in Requests, Enqueue(r)
    PROVE  TypeOK'
<1>1. CASE EnqueueConversation(r)
  <2>1. /\ convCh' \in Seq(Requests) /\ Len(convCh') <= ConvCap
        /\ lost' \in SUBSET Record
    <3>1. lost' \in SUBSET Record
      BY <1>1, LoseOneType DEF EnqueueConversation, Writers
    <3>2. convCh \in Seq(Requests) /\ ConvCap \in Nat /\ Len(convCh) <= ConvCap
      BY CapAssumption DEF TypeOK
    <3> QED
      BY <1>1, <3>1, <3>2, OfferType DEF EnqueueConversation, Room
  <2>2. call' \in [Requests -> Writers \cup {"none"}]
    BY <1>1 DEF TypeOK, EnqueueConversation, Continue
  <2> QED
    BY <1>1, <2>1, <2>2 DEF TypeOK, LifecycleTypeOK, EnqueueConversation,
       lifecycleVars, backVars, messageVars, rowVars
<1>2. CASE EnqueueMessage(r)
  <2>1. PICK e \in taken[r] :
          IF Len(msgCh) < MsgCap
          THEN msgCh' = Append(msgCh, MessageOf(e, sent[r])) /\ UNCHANGED lost
          ELSE Lose("message", {e.id}) /\ UNCHANGED msgCh
    BY <1>2 DEF EnqueueMessage, Room
  <2>2. e \in Conversation /\ sent[r] \in 0 .. MaxTokens
    BY DEF TypeOK, LifecycleTypeOK
  <2>3. e.id \in Requests /\ MessageOf(e, sent[r]) \in MessageRecord
    BY <2>2, ConversationTypes DEF Conversation
  <2>4. /\ msgCh' \in Seq(MessageRecord) /\ Len(msgCh') <= MsgCap
        /\ lost' \in SUBSET Record
    <3>1. lost' \in SUBSET Record
      BY <2>1, <2>3, LoseOneType DEF Writers
    <3>2. msgCh \in Seq(MessageRecord) /\ MsgCap \in Nat /\ Len(msgCh) <= MsgCap
      BY CapAssumption DEF TypeOK
    <3> QED
      BY <2>1, <2>3, <3>1, <3>2, OfferType
  <2>5. call' \in [Requests -> Writers \cup {"none"}]
    BY <1>2 DEF TypeOK, EnqueueMessage, Continue, Writers
  <2> QED
    BY <1>2, <2>4, <2>5 DEF TypeOK, LifecycleTypeOK, EnqueueMessage,
       lifecycleVars, backVars, messageVars, rowVars
<1>3. CASE EnqueueUpdate(r)
  <2> DEFINE u(e) == [conv |-> e.id, totalTokens |-> sent[r]]
  <2>1. PICK e \in taken[r] :
          IF Len(updateCh) < UpdCap
          THEN updateCh' = Append(updateCh, u(e)) /\ UNCHANGED lost
          ELSE Lose("update", {e.id}) /\ UNCHANGED updateCh
    BY <1>3 DEF EnqueueUpdate, Room, UpdateOf
  <2>2. e.id \in Requests /\ u(e) \in ConversationUpdate
    BY DEF TypeOK, LifecycleTypeOK, Conversation, ConversationUpdate
  <2>3. /\ updateCh' \in Seq(ConversationUpdate) /\ Len(updateCh') <= UpdCap
        /\ lost' \in SUBSET Record
    <3>1. lost' \in SUBSET Record
      BY <2>1, <2>2, LoseOneType DEF Writers
    <3>2. updateCh \in Seq(ConversationUpdate) /\ UpdCap \in Nat /\ Len(updateCh) <= UpdCap
      BY CapAssumption DEF TypeOK
    <3> QED
      BY <2>1, <2>2, <3>1, <3>2, OfferType
  <2>4. /\ call' \in [Requests -> Writers \cup {"none"}]
        /\ taken' \in [Requests -> SUBSET Conversation]
    BY <1>3 DEF TypeOK, EnqueueUpdate, Continue
  <2> QED
    BY <1>3, <2>3, <2>4 DEF TypeOK, LifecycleTypeOK, EnqueueUpdate,
       lifecycleVars, backVars, messageVars, rowVars
<1> QED
  BY <1>1, <1>2, <1>3 DEF Enqueue

\* conversationWriter keeps every variable in its type.
LEMMA ConversationWriterType ==
    ASSUME TypeOK, ConversationWriter
    PROVE  TypeOK'
<1>1. CASE ConvReceive
  <2>1. convCh \in Seq(Requests) /\ convCh # <<>> /\ Len(convCh) <= ConvCap
    BY <1>1 DEF ConvReceive, TypeOK
  <2>2. /\ Head(convCh) \in Requests /\ Tail(convCh) \in Seq(Requests)
        /\ Len(Tail(convCh)) <= ConvCap
    BY <2>1, CapAssumption
  <2> QED
    BY <1>1, <2>2 DEF TypeOK, LifecycleTypeOK, ConvReceive, lifecycleVars,
       handlerVars, messageVars, rowVars
<1>2. CASE ConvWrite
  <2>1. lost' \in SUBSET Record
    BY <1>2, LoseType DEF ConvWrite, TypeOK, Writers
  <2> QED
    BY <1>2, <2>1 DEF TypeOK, LifecycleTypeOK, ConvWrite, lifecycleVars,
       handlerVars, channelVars, messageVars
<1>3. CASE ConvExit
  BY <1>3 DEF TypeOK, LifecycleTypeOK, ConvExit, lifecycleVars, handlerVars,
     channelVars, messageVars, rowVars, Writers
<1> QED
  BY <1>1, <1>2, <1>3 DEF ConversationWriter

\* updateWriter keeps every variable in its type.
LEMMA UpdateWriterType ==
    ASSUME TypeOK, UpdateWriter
    PROVE  TypeOK'
<1>1. CASE UpdReceive
  <2>1. /\ updateCh \in Seq(ConversationUpdate) /\ updateCh # <<>>
        /\ Len(updateCh) <= UpdCap
    BY <1>1 DEF UpdReceive, TypeOK
  <2>2. /\ Head(updateCh) \in ConversationUpdate
        /\ Tail(updateCh) \in Seq(ConversationUpdate)
        /\ Len(Tail(updateCh)) <= UpdCap
    BY <2>1, CapAssumption
  <2> QED
    BY <1>1, <2>2 DEF TypeOK, LifecycleTypeOK, UpdReceive, lifecycleVars,
       handlerVars, messageVars, rowVars
<1>2. CASE UpdWrite
  <2>1. PICK u \in updHeld :
          \/ /\ u.conv \in convRows
             /\ endedRows' = {x \in endedRows : x.conv # u.conv} \cup {u}
             /\ UNCHANGED lost
          \/ /\ u.conv \notin convRows \/ DbFails
             /\ Lose("update", {u.conv})
             /\ UNCHANGED endedRows
    BY <1>2 DEF UpdWrite
  <2>2. u \in ConversationUpdate /\ u.conv \in Requests
    BY DEF TypeOK, ConversationUpdate
  <2>3. lost' \in SUBSET Record
    BY <2>1, <2>2, LoseOneType DEF Writers
  <2>4. endedRows' \in SUBSET ConversationUpdate
    BY <2>1, <2>2 DEF TypeOK
  <2> QED
    BY <1>2, <2>3, <2>4 DEF TypeOK, LifecycleTypeOK, UpdWrite, lifecycleVars,
       handlerVars, channelVars, messageVars
<1>3. CASE UpdExit
  BY <1>3 DEF TypeOK, LifecycleTypeOK, UpdExit, lifecycleVars, handlerVars,
     channelVars, messageVars, rowVars, Writers
<1> QED
  BY <1>1, <1>2, <1>3 DEF UpdateWriter

\* The empty sequence is a sequence of anything.
LEMMA EmptySeqType == \A T : <<>> \in Seq(T) /\ Len(<<>>) = 0
OBVIOUS

\* The conversations of a sequence of messages are requests.
LEMMA BatchConvs ==
    ASSUME TypeOK
    PROVE  Convs(batch) \in SUBSET Requests
<1>1. \A i \in DOMAIN batch : batch[i] \in MessageRecord
  BY DEF TypeOK
<1>2. \A i \in DOMAIN batch : batch[i].conv \in Requests
  BY <1>1 DEF MessageRecord
<1> QED
  BY <1>2 DEF Convs

\* The end of flush() keeps what it changes in its types.
LEMMA FlushOverType ==
    ASSUME TypeOK, FlushOver
    PROVE  /\ batch' \in Seq(MessageRecord)
           /\ msgPc' \in {"select", "drain", "flush", "exec", "exited"}
           /\ exited' \in SUBSET Writers
<1>1. batch' \in Seq(MessageRecord)
  BY EmptySeqType DEF FlushOver
<1>2. CASE draining
  <2>1. msgPc' = "exited" /\ exited' = exited \cup {"message"}
    BY <1>2, Zenon DEF FlushOver
  <2> QED
    BY <1>1, <2>1 DEF TypeOK, Writers
<1>3. CASE ~draining
  BY <1>1, <1>3 DEF TypeOK, FlushOver, Writers
<1> QED
  BY <1>2, <1>3

\* messageWriter keeps every variable in its type.
LEMMA MessageWriterType ==
    ASSUME TypeOK, MessageWriter
    PROVE  TypeOK'
<1> USE DEF frontVars, lifecycleVars, handlerVars
<1>1. CASE MsgReceive \/ MsgDrain
  <2>1. msgCh \in Seq(MessageRecord) /\ msgCh # <<>> /\ Len(msgCh) <= MsgCap
    BY <1>1 DEF MsgReceive, MsgDrain, TypeOK
  <2>2. /\ Head(msgCh) \in MessageRecord /\ Tail(msgCh) \in Seq(MessageRecord)
        /\ Len(Tail(msgCh)) <= MsgCap
    BY <2>1, CapAssumption
  <2>3. Append(batch, Head(msgCh)) \in Seq(MessageRecord)
    BY <2>2 DEF TypeOK
  <2> QED
    BY <1>1, <2>2, <2>3 DEF TypeOK, LifecycleTypeOK, MsgReceive, MsgDrain
<1>2. CASE MsgTick \/ MsgCancelled \/ MsgDrained
  BY <1>2 DEF TypeOK, LifecycleTypeOK, MsgTick, MsgCancelled, MsgDrained, Writers
<1>3. CASE FlushBegin
  BY <1>3 DEF TypeOK, LifecycleTypeOK, FlushBegin
<1>4. CASE FlushBeginFails
  <2>1. lost' \in SUBSET Record
    <3>1. Lose("message", Convs(batch)) /\ "message" \in Writers
      BY <1>4 DEF FlushBeginFails, Writers
    <3> QED
      BY <3>1, BatchConvs, LoseType
  <2> QED
    BY <1>4, <2>1, FlushOverType DEF TypeOK, LifecycleTypeOK, FlushBeginFails
<1>5. CASE FlushExec
  <2>1. tx' \in [executed : Nat, ok : BOOLEAN]
    <3>1. PICK ok \in BOOLEAN : tx' = [executed |-> tx.executed + 1, ok |-> ok]
      BY <1>5, Zenon DEF FlushExec
    <3>2. tx.executed + 1 \in Nat
      BY DEF TypeOK
    <3> QED
      BY <3>1, <3>2
  <2> QED
    BY <1>5, <2>1 DEF TypeOK, LifecycleTypeOK, FlushExec
<1>6. CASE FlushCommit
  <2>1. lost' \in SUBSET Record
    BY <1>6, BatchConvs, LoseType DEF FlushCommit, TypeOK, Writers
  <2>2. msgRows' \in Seq(MessageRecord)
    <3>1. msgRows \in Seq(MessageRecord) /\ batch \in Seq(MessageRecord)
      BY DEF TypeOK
    <3>2. msgRows \o batch \in Seq(MessageRecord)
      BY <3>1, ConcatProperties
    <3> QED
      BY <1>6, <3>1, <3>2 DEF FlushCommit
  <2> QED
    BY <1>6, <2>1, <2>2, FlushOverType DEF TypeOK, LifecycleTypeOK, FlushCommit
<1> QED
  BY <1>1, <1>2, <1>3, <1>4, <1>5, <1>6 DEF MessageWriter

\* Close keeps every variable in its type.
LEMMA CloseType ==
    ASSUME TypeOK, Close
    PROVE  TypeOK'
BY DEF TypeOK, LifecycleTypeOK, Close, Cancel, CloseReturns, ProcessExit,
   lifecycleVars, handlerVars, channelVars, messageVars, rowVars

\* A hook that has just been made has its types.
LEMMA InitType == Init => TypeOK
<1> SUFFICES ASSUME Init PROVE TypeOK
  OBVIOUS
<1>1. LifecycleTypeOK
  BY MaxTokensAssumption DEF Init, LifecycleInit, LifecycleTypeOK, Stages
<1>2. tx \in [executed : Nat, ok : BOOLEAN]
  BY DEF Init
<1>3. /\ call \in [Requests -> Writers \cup {"none"}]
      /\ taken \in [Requests -> SUBSET Conversation]
      /\ conversations \in [Ids -> SUBSET Conversation]
  BY DEF Init
<1>4. /\ convCh \in Seq(Requests) /\ Len(convCh) <= ConvCap
      /\ msgCh \in Seq(MessageRecord) /\ Len(msgCh) <= MsgCap
      /\ updateCh \in Seq(ConversationUpdate) /\ Len(updateCh) <= UpdCap
      /\ batch \in Seq(MessageRecord) /\ msgRows \in Seq(MessageRecord)
  BY EmptySeqType, CapAssumption DEF Init
<1> QED
  BY <1>1, <1>2, <1>3, <1>4 DEF Init, TypeOK

\* Every step keeps every variable in its type.
LEMMA NextType == TypeOK /\ [Next]_vars => TypeOK'
<1> SUFFICES ASSUME TypeOK, [Next]_vars PROVE TypeOK'
  OBVIOUS
<1>1. ASSUME NEW r \in Requests, Handler(r) PROVE TypeOK'
  BY <1>1, StartType, TokenType, ThinkingType, ToolCallsType, CompleteType,
     ErrorType, ReturnType, EnqueueType DEF Handler
<1>2. CASE UNCHANGED vars
  BY <1>2 DEF TypeOK, LifecycleTypeOK, vars, lifecycleVars, handlerVars,
     channelVars, messageVars, rowVars
<1> QED
  BY <1>1, <1>2, ConversationWriterType, UpdateWriterType, MessageWriterType,
     CloseType DEF Next

\* The channels never exceed their capacity and every variable keeps its type,
\* for any number of requests, tokens and records.
THEOREM TypeCorrect == Spec => []TypeOK
BY InitType, NextType, PTL DEF Spec

-----------------------------------------------------------------------------
(* No cross-talk.  HandlerInv says what the map holds, and only            *)
(* EnqueueMessage makes a message record out of that.                      *)

\* The next chunk of a stream makes it the longer stream.
LEMMA StreamAppend ==
    ASSUME NEW r, NEW n \in Nat
    PROVE  /\ Stream(r, 0) = <<>>
           /\ Append(Stream(r, n), [of |-> r, n |-> n + 1]) = Stream(r, n + 1)
BY DEF Stream

\* A step of one handler that replaces its own entry leaves the others'.
LEMMA OtherEntries ==
    ASSUME NoCollision, TypeOK, NEW r \in Requests, NEW S,
           conversations' = [conversations EXCEPT ![ReqID[r]] = S]
    PROVE  /\ conversations'[ReqID[r]] = S
           /\ \A q \in Requests \ {r} :
                conversations'[ReqID[q]] = conversations[ReqID[q]]
BY ReqIDAssumption DEF NoCollision, TypeOK

\* The map is empty at first.
LEMMA HandlerInvInit == Init => HandlerInv
BY ReqIDAssumption DEF Init, LifecycleInit, HandlerInv, EntryFaithful

\* OnRequestStart puts an empty conversation of the handler in its own entry.
LEMMA HandlerInvStart ==
    ASSUME NoCollision, TypeOK, HandlerInv, NEW r \in Requests, OnRequestStart(r)
    PROVE  HandlerInv'
<1>1. /\ conversations'[ReqID[r]] = {NewConversation(r)}
      /\ \A q \in Requests \ {r} :
            conversations'[ReqID[q]] = conversations[ReqID[q]]
  BY OtherEntries DEF OnRequestStart
<1>2. /\ stage[r] = "new" /\ sent[r] = 0 /\ call[r] = "none" /\ taken[r] = {}
      /\ sent' = sent /\ taken' = taken
      /\ stage' = [stage EXCEPT ![r] = "open"]
      /\ call' = [call EXCEPT ![r] = "conversation"]
  BY DEF HandlerInv, OnRequestStart, Start, MoveTo, Continue, Free
<1>3. EntryFaithful'
  <2> SUFFICES ASSUME NEW q \in Requests,
                      NEW e \in (conversations[ReqID[q]] \cup taken[q])'
               PROVE  (e.id = q /\ e.tokens = Stream(q, sent[q]) /\ OwnFields(q, e))'
    BY DEF EntryFaithful
  <2>1. CASE q = r
    <3>1. e = NewConversation(r)
      BY <2>1, <1>1, <1>2
    <3>2. Stream(r, 0) = <<>>
      BY StreamAppend
    <3> QED
      BY <2>1, <3>1, <3>2, <1>2 DEF NewConversation, OwnFields
  <2>2. CASE q # r
    BY <2>2, <1>1, <1>2 DEF HandlerInv, EntryFaithful, OwnFields
  <2> QED
    BY <2>1, <2>2
<1> QED
  BY <1>2, <1>3 DEF HandlerInv, TypeOK, LifecycleTypeOK

\* OnToken adds the next chunk of the stream to the entry, if there is one.
LEMMA HandlerInvToken ==
    ASSUME NoCollision, TypeOK, HandlerInv, NEW r \in Requests, OnToken(r)
    PROVE  HandlerInv'
<1> DEFINE chunk == [of |-> r, n |-> sent[r] + 1]
<1>1. /\ conversations'[ReqID[r]] = {AddToken(e, chunk) : e \in conversations[ReqID[r]]}
      /\ \A q \in Requests \ {r} :
            conversations'[ReqID[q]] = conversations[ReqID[q]]
  <2>1. conversations' = [conversations EXCEPT ![ReqID[r]] =
            {AddToken(e, chunk) : e \in conversations[ReqID[r]]}]
    BY DEF OnToken
  <2> QED
    BY <2>1, OtherEntries
<1>2. /\ stage' = stage /\ taken' = taken /\ call' = call
      /\ sent' = [sent EXCEPT ![r] = @ + 1]
      /\ stage[r] # "new" /\ taken[r] = {} /\ sent[r] \in Nat
  <2>1. Token(r) /\ Free(r) /\ UNCHANGED <<call, taken>>
    BY DEF OnToken
  <2>2. stage' = stage /\ sent' = [sent EXCEPT ![r] = @ + 1] /\ stage[r] # "new"
    BY <2>1 DEF Token, MayCall
  <2>3. taken[r] = {}
    BY <2>1 DEF Free, HandlerInv
  <2>4. sent[r] \in Nat
    BY MaxTokensAssumption DEF TypeOK, LifecycleTypeOK
  <2> QED
    BY <2>1, <2>2, <2>3, <2>4
<1>3. EntryFaithful'
  <2> SUFFICES ASSUME NEW q \in Requests,
                      NEW e \in (conversations[ReqID[q]] \cup taken[q])'
               PROVE  (e.id = q /\ e.tokens = Stream(q, sent[q]) /\ OwnFields(q, e))'
    BY DEF EntryFaithful
  <2>1. CASE q = r
    <3>1. PICK f \in conversations[ReqID[r]] : e = AddToken(f, chunk)
      BY <2>1, <1>1, <1>2
    <3>2. f \in Conversation /\ f.id = r /\ f.tokens = Stream(r, sent[r]) /\ OwnFields(r, f)
      BY ReqIDAssumption DEF HandlerInv, EntryFaithful, TypeOK
    <3>3. /\ e.id = f.id /\ e.tokens = Append(f.tokens, chunk)
          /\ e.thinking = f.thinking /\ e.toolCalls = f.toolCalls
      BY <3>1, <3>2 DEF AddToken, Conversation
    <3>4. sent'[r] = sent[r] + 1
      BY <1>2 DEF TypeOK, LifecycleTypeOK
    <3>5. e.tokens = Stream(r, sent'[r])
      BY <3>2, <3>3, <3>4, <1>2, StreamAppend
    <3> QED
      BY <2>1, <3>2, <3>3, <3>5 DEF OwnFields
  <2>2. CASE q # r
    <3>1. e \in conversations[ReqID[q]] \cup taken[q]
      BY <2>2, <1>1, <1>2
    <3>2. sent'[q] = sent[q]
      BY <2>2, <1>2 DEF TypeOK, LifecycleTypeOK
    <3> QED
      BY <3>1, <3>2 DEF HandlerInv, EntryFaithful, OwnFields
  <2> QED
    BY <2>1, <2>2
<1> QED
  BY <1>2, <1>3 DEF HandlerInv, TypeOK, LifecycleTypeOK

\* OnThinking and OnToolCalls add chunks of the handler's own.
LEMMA HandlerInvAmend ==
    ASSUME NoCollision, TypeOK, HandlerInv, NEW r \in Requests,
           OnThinking(r) \/ OnToolCalls(r)
    PROVE  HandlerInv'
<1>1. UNCHANGED <<stage, sent, call, taken>>
  BY DEF OnThinking, OnToolCalls, lifecycleVars
<1>2. PICK S :
          /\ conversations' = [conversations EXCEPT ![ReqID[r]] = S]
          /\ \A e \in S : \E f \in conversations[ReqID[r]] :
                e = AddThinking(f, r) \/ e = SetToolCalls(f, r)
  <2> DEFINE T == {AddThinking(e, r) : e \in conversations[ReqID[r]]}
  <2> DEFINE C == {SetToolCalls(e, r) : e \in conversations[ReqID[r]]}
  <2>1. CASE OnThinking(r)
    <3>1. conversations' = [conversations EXCEPT ![ReqID[r]] = T]
      BY <2>1 DEF OnThinking
    <3>2. \A e \in T : \E f \in conversations[ReqID[r]] : e = AddThinking(f, r)
      OBVIOUS
    <3> HIDE DEF T
    <3> QED
      BY <3>1, <3>2
  <2>2. CASE OnToolCalls(r)
    <3>1. conversations' = [conversations EXCEPT ![ReqID[r]] = C]
      BY <2>2 DEF OnToolCalls
    <3>2. \A e \in C : \E f \in conversations[ReqID[r]] : e = SetToolCalls(f, r)
      OBVIOUS
    <3> HIDE DEF C
    <3> QED
      BY <3>1, <3>2
  <2> QED
    BY <2>1, <2>2
<1>3. /\ conversations'[ReqID[r]] = S
      /\ \A q \in Requests \ {r} :
            conversations'[ReqID[q]] = conversations[ReqID[q]]
  BY <1>2, OtherEntries
<1>4. EntryFaithful'
  <2> SUFFICES ASSUME NEW q \in Requests,
                      NEW e \in (conversations[ReqID[q]] \cup taken[q])'
               PROVE  (e.id = q /\ e.tokens = Stream(q, sent[q]) /\ OwnFields(q, e))'
    BY DEF EntryFaithful
  <2>1. CASE q = r /\ e \in S
    <3>1. PICK f \in conversations[ReqID[r]] :
              e = AddThinking(f, r) \/ e = SetToolCalls(f, r)
      BY <2>1, <1>2
    <3>2. f \in Conversation /\ f.id = r /\ f.tokens = Stream(r, sent[r]) /\ OwnFields(r, f)
      BY ReqIDAssumption DEF HandlerInv, EntryFaithful, TypeOK
    <3>3. e.id = f.id /\ e.tokens = f.tokens /\ OwnFields(r, e)
      BY <3>1, <3>2 DEF AddThinking, SetToolCalls, Conversation, OwnFields
    <3> QED
      BY <2>1, <3>2, <3>3, <1>1 DEF OwnFields
  <2>2. CASE q # r \/ e \notin S
    BY <2>2, <1>1, <1>3 DEF HandlerInv, EntryFaithful, OwnFields
  <2> QED
    BY <2>1, <2>2
<1> QED
  BY <1>1, <1>4 DEF HandlerInv

\* OnRequestComplete takes the entry off the map as it is.
LEMMA HandlerInvComplete ==
    ASSUME NoCollision, TypeOK, HandlerInv, NEW r \in Requests, OnRequestComplete(r)
    PROVE  HandlerInv'
<1>1. /\ conversations'[ReqID[r]] = {}
      /\ \A q \in Requests \ {r} :
            conversations'[ReqID[q]] = conversations[ReqID[q]]
  BY OtherEntries DEF OnRequestComplete, Removed
<1>2. /\ sent' = sent
      /\ stage' = [stage EXCEPT ![r] = "completed"]
      /\ taken' = [taken EXCEPT ![r] = conversations[ReqID[r]]]
      /\ call' = [call EXCEPT ![r] =
            IF conversations[ReqID[r]] = {} THEN "none" ELSE "message"]
      /\ stage[r] # "new"
  BY DEF OnRequestComplete, Complete, MoveTo, MayCall, Continue
<1>3. EntryFaithful'
  <2> SUFFICES ASSUME NEW q \in Requests,
                      NEW e \in (conversations[ReqID[q]] \cup taken[q])'
               PROVE  (e.id = q /\ e.tokens = Stream(q, sent[q]) /\ OwnFields(q, e))'
    BY DEF EntryFaithful
  <2>1. e \in conversations[ReqID[q]] \cup taken[q]
    BY <1>1, <1>2 DEF TypeOK
  <2> QED
    BY <2>1, <1>2 DEF HandlerInv, EntryFaithful, OwnFields
<1>4. \A q \in Requests : taken'[q] # {} => call'[q] \in {"message", "update"}
  BY <1>2 DEF HandlerInv, TypeOK
<1>5. \A q \in Requests : stage'[q] = "new" => sent'[q] = 0 /\ call'[q] = "none"
  BY <1>2 DEF HandlerInv, TypeOK, LifecycleTypeOK
<1> QED
  BY <1>3, <1>4, <1>5 DEF HandlerInv

\* OnError and the return change no entry but by removing it.
LEMMA HandlerInvEnd ==
    ASSUME NoCollision, TypeOK, HandlerInv, NEW r \in Requests,
           OnError(r) \/ HandlerReturn(r)
    PROVE  HandlerInv'
<1>1. /\ UNCHANGED <<sent, call, taken>>
      /\ \A q \in Requests : stage'[q] = "new" => stage[q] = "new"
  BY DEF OnError, HandlerReturn, Fail, Return, MoveTo, handlerVars, TypeOK,
     LifecycleTypeOK
<1>2. \A q \in Requests : conversations'[ReqID[q]] \subseteq conversations[ReqID[q]]
  <2>1. CASE OnError(r)
    BY <2>1, OtherEntries DEF OnError, Removed
  <2>2. CASE HandlerReturn(r)
    BY <2>2 DEF HandlerReturn, handlerVars
  <2> QED
    BY <2>1, <2>2
<1>3. EntryFaithful'
  BY <1>1, <1>2 DEF HandlerInv, EntryFaithful, OwnFields
<1> QED
  BY <1>1, <1>3 DEF HandlerInv

\* No token is added while a completion is enqueueing.
LEMMA HandlerInvEnqueue ==
    ASSUME TypeOK, HandlerInv, NEW r \in Requests, Enqueue(r)
    PROVE  HandlerInv'
<1>1. /\ UNCHANGED <<stage, sent, conversations>>
      /\ call[r] # "none"
      /\ \A q \in Requests \ {r} : call'[q] = call[q] /\ taken'[q] = taken[q]
  BY DEF Enqueue, EnqueueConversation, EnqueueMessage, EnqueueUpdate, About,
     Continue, lifecycleVars, TypeOK
<1>2. /\ taken'[r] \subseteq taken[r]
      /\ taken'[r] # {} => call'[r] \in {"message", "update"}
  BY DEF Enqueue, EnqueueConversation, EnqueueMessage, EnqueueUpdate, About,
     Continue, HandlerInv, TypeOK
<1>3. EntryFaithful'
  <2>1. \A q \in Requests : taken'[q] \subseteq taken[q]
    BY <1>1, <1>2
  <2> QED
    BY <1>1, <2>1 DEF HandlerInv, EntryFaithful, OwnFields
<1> QED
  BY <1>1, <1>2, <1>3 DEF HandlerInv

\* The writers, Close and stuttering leave the handlers alone.
LEMMA BackgroundKeepsHandlers ==
    ASSUME ConversationWriter \/ UpdateWriter \/ MessageWriter \/ Close
           \/ UNCHANGED vars
    PROVE  UNCHANGED <<lifecycleVars, handlerVars>>
BY DEF ConversationWriter, ConvReceive, ConvWrite, ConvExit,
       UpdateWriter, UpdReceive, UpdWrite, UpdExit,
       MessageWriter, MsgReceive, MsgTick, MsgCancelled, MsgDrain, MsgDrained,
       FlushBegin, FlushBeginFails, FlushExec, FlushCommit, frontVars,
       Close, Cancel, CloseReturns, ProcessExit, vars

\* Every step keeps what the map holds faithful.
LEMMA HandlerInvNext ==
    ASSUME NoCollision, TypeOK, HandlerInv, [Next]_vars
    PROVE  HandlerInv'
<1>1. ASSUME NEW r \in Requests, Handler(r) PROVE HandlerInv'
  BY <1>1, HandlerInvStart, HandlerInvToken, HandlerInvAmend,
     HandlerInvComplete, HandlerInvEnd, HandlerInvEnqueue DEF Handler
<1>2. CASE UNCHANGED <<lifecycleVars, handlerVars>>
  BY <1>2 DEF lifecycleVars, handlerVars, HandlerInv, EntryFaithful, OwnFields
<1> QED
  BY <1>1, <1>2, BackgroundKeepsHandlers DEF Next

\* Unless two requests draw the same identifier, what the map holds of a
\* request in flight, and what a completion has taken off it, is the stream
\* of that request so far (database_hook.go:131-166).
THEOREM OwnConversations == NoCollision /\ Spec => []HandlerInv
<1> SUFFICES ASSUME NoCollision PROVE Spec => []HandlerInv
  OBVIOUS
<1>1. Init => TypeOK /\ HandlerInv
  BY InitType, HandlerInvInit
<1>2. (TypeOK /\ HandlerInv) /\ [Next]_vars => (TypeOK /\ HandlerInv)'
  BY NextType, HandlerInvNext
<1> QED
  BY <1>1, <1>2, PTL DEF Spec

\* A faithful message at the end of a queue leaves the queue faithful.
LEMMA FaithfulAppend ==
    ASSUME NEW S, NEW s \in Seq(S), AllFaithful(s), NEW m \in S, Faithful(m)
    PROVE  AllFaithful(Append(s, m))
BY AppendProperties DEF AllFaithful

\* The first message of a faithful queue and the rest of it are faithful.
LEMMA FaithfulHeadTail ==
    ASSUME NEW S, NEW s \in Seq(S), s # <<>>, AllFaithful(s)
    PROVE  Faithful(Head(s)) /\ AllFaithful(Tail(s))
<1>1. /\ Head(s) = s[1] /\ 1 \in DOMAIN s
      /\ \A i \in DOMAIN Tail(s) : i + 1 \in DOMAIN s /\ Tail(s)[i] = s[i + 1]
  BY HeadTailProperties, LenProperties
<1> QED
  BY <1>1 DEF AllFaithful

\* Two faithful queues one after the other are faithful.
LEMMA FaithfulConcat ==
    ASSUME NEW S, NEW s \in Seq(S), NEW t \in Seq(S), AllFaithful(s), AllFaithful(t)
    PROVE  s \o t \in Seq(S) /\ AllFaithful(s \o t)
<1>1. /\ s \o t \in Seq(S)
      /\ Len(s \o t) = Len(s) + Len(t)
      /\ \A i \in 1 .. Len(s) + Len(t) :
            (s \o t)[i] = IF i <= Len(s) THEN s[i] ELSE t[i - Len(s)]
  BY ConcatProperties
<1>2. SUFFICES ASSUME NEW i \in DOMAIN (s \o t) PROVE Faithful((s \o t)[i])
  BY <1>1 DEF AllFaithful
<1>3. CASE i <= Len(s)
  BY <1>1, <1>3 DEF AllFaithful
<1>4. CASE ~(i <= Len(s))
  <2>1. (s \o t)[i] = t[i - Len(s)] /\ i - Len(s) \in DOMAIN t
    BY <1>1, <1>4
  <2> QED
    BY <2>1 DEF AllFaithful
<1> QED
  BY <1>3, <1>4

PipelineFaithful == AllFaithful(msgRows) /\ AllFaithful(batch) /\ AllFaithful(msgCh)

\* An empty batch is faithful.
LEMMA FaithfulFlushOver ==
    ASSUME FlushOver
    PROVE  AllFaithful(batch')
BY DEF FlushOver, AllFaithful

\* Every step keeps the rows, the batch and the channel faithful: a message is
\* made of a faithful conversation, and only moves from then on.
LEMMA PipelineFaithfulNext ==
    ASSUME TypeOK, HandlerInv, PipelineFaithful, [Next]_vars
    PROVE  PipelineFaithful'
<1>1. ASSUME NEW r \in Requests, EnqueueMessage(r) PROVE PipelineFaithful'
  <2>1. PICK e \in taken[r] :
            msgCh' = Append(msgCh, MessageOf(e, sent[r])) \/ UNCHANGED msgCh
    BY <1>1 DEF EnqueueMessage
  <2>2. /\ e \in Conversation /\ sent[r] \in 0 .. MaxTokens
        /\ e.id = r /\ e.tokens = Stream(r, sent[r]) /\ OwnFields(r, e)
    BY DEF TypeOK, LifecycleTypeOK, HandlerInv, EntryFaithful
  <2>3. MessageOf(e, sent[r]) \in MessageRecord /\ Faithful(MessageOf(e, sent[r]))
    BY <2>2, ConversationTypes DEF MessageOf, Faithful, OwnFields
  <2>4. AllFaithful(msgCh')
    <3>1. msgCh \in Seq(MessageRecord) /\ AllFaithful(msgCh)
      BY DEF PipelineFaithful, TypeOK
    <3>2. AllFaithful(Append(msgCh, MessageOf(e, sent[r])))
      BY <2>3, <3>1, FaithfulAppend
    <3> QED
      BY <2>1, <3>1, <3>2
  <2> QED
    BY <1>1, <2>4 DEF PipelineFaithful, EnqueueMessage, backVars, messageVars, rowVars
<1>2. CASE MsgReceive \/ MsgDrain
  <2>1. /\ msgCh # <<>> /\ msgCh' = Tail(msgCh)
        /\ batch' = Append(batch, Head(msgCh)) /\ msgRows' = msgRows
    BY <1>2 DEF MsgReceive, MsgDrain
  <2>2. Head(msgCh) \in MessageRecord /\ Faithful(Head(msgCh)) /\ AllFaithful(msgCh')
    BY <2>1, FaithfulHeadTail, HeadTailProperties DEF PipelineFaithful, TypeOK
  <2>3. AllFaithful(batch')
    BY <2>1, <2>2, FaithfulAppend DEF PipelineFaithful, TypeOK
  <2> QED
    BY <2>1, <2>2, <2>3 DEF PipelineFaithful
<1>3. CASE FlushCommit \/ FlushBeginFails
  <2>1. AllFaithful(batch') /\ msgCh' = msgCh
    BY <1>3, FaithfulFlushOver DEF FlushCommit, FlushBeginFails
  <2>2. AllFaithful(msgRows')
    <3>1. AllFaithful(msgRows \o batch)
      BY FaithfulConcat DEF PipelineFaithful, TypeOK
    <3> QED
      BY <1>3, <3>1 DEF FlushCommit, FlushBeginFails, PipelineFaithful
  <2> QED
    BY <2>1, <2>2 DEF PipelineFaithful
<1>4. CASE UNCHANGED <<msgCh, batch, msgRows>>
  BY <1>4 DEF PipelineFaithful
<1>5. ASSUME NEW r \in Requests, Handler(r), ~EnqueueMessage(r)
      PROVE  UNCHANGED <<msgCh, batch, msgRows>>
  BY <1>5 DEF Handler, OnRequestStart, OnToken, OnThinking, OnToolCalls,
     OnRequestComplete, OnError, HandlerReturn, Enqueue, EnqueueConversation,
     EnqueueUpdate, channelVars, backVars, messageVars, rowVars
<1>6. ASSUME ConversationWriter \/ UpdateWriter \/ Close \/ UNCHANGED vars
             \/ MsgTick \/ MsgCancelled \/ MsgDrained \/ FlushBegin \/ FlushExec
      PROVE  UNCHANGED <<msgCh, batch, msgRows>>
  BY <1>6 DEF ConversationWriter, ConvReceive, ConvWrite, ConvExit,
     UpdateWriter, UpdReceive, UpdWrite, UpdExit, Close, Cancel, CloseReturns,
     ProcessExit, MsgTick, MsgCancelled, MsgDrained, FlushBegin, FlushExec,
     vars, channelVars, messageVars, rowVars
<1> QED
  BY <1>1, <1>2, <1>3, <1>4, <1>5, <1>6 DEF Next, MessageWriter

\* The parts of the pipeline being faithful, the pipeline is.
LEMMA PipelineIsFaithful ==
    ASSUME TypeOK, PipelineFaithful
    PROVE  MessageFaithful
<1>1. msgRows \o batch \in Seq(MessageRecord) /\ AllFaithful(msgRows \o batch)
  BY FaithfulConcat DEF TypeOK, PipelineFaithful
<1> QED
  BY <1>1, FaithfulConcat DEF TypeOK, PipelineFaithful, MessageFaithful, Pipeline

\* Unless two requests draw the same identifier, every message, queued or
\* stored, is the whole stream of its own conversation and of no other.
THEOREM NoCrossTalk == NoCollision /\ Spec => []MessageFaithful
<1> SUFFICES ASSUME NoCollision PROVE Spec => []MessageFaithful
  OBVIOUS
<1> DEFINE Inv == TypeOK /\ HandlerInv /\ PipelineFaithful
<1>1. Init => Inv
  BY InitType, HandlerInvInit DEF Init, PipelineFaithful, AllFaithful
<1>2. Inv /\ [Next]_vars => Inv'
  BY NextType, HandlerInvNext, PipelineFaithfulNext
<1>3. Inv => MessageFaithful
  BY PipelineIsFaithful
<1> QED
  BY <1>1, <1>2, <1>3, PTL DEF Spec

-----------------------------------------------------------------------------
(* One message per conversation.  What a step does to the pipeline:        *)
(* nothing, append the record of a conversation that has none, or remove   *)
(* a batch from the middle.                                                *)

\* The pipeline is a sequence of messages.
LEMMA PipelineType ==
    ASSUME TypeOK
    PROVE  /\ msgRows \in Seq(MessageRecord) /\ batch \in Seq(MessageRecord)
           /\ msgCh \in Seq(MessageRecord)
           /\ msgRows \o batch \in Seq(MessageRecord)
           /\ Pipeline \in Seq(MessageRecord)
           /\ \A i \in DOMAIN Pipeline : Pipeline[i].conv \in Requests
<1>1. /\ msgRows \in Seq(MessageRecord) /\ batch \in Seq(MessageRecord)
      /\ msgCh \in Seq(MessageRecord)
  BY DEF TypeOK
<1>2. msgRows \o batch \in Seq(MessageRecord)
  BY <1>1, ConcatProperties
<1>3. Pipeline \in Seq(MessageRecord)
  BY <1>1, <1>2, ConcatProperties DEF Pipeline
<1>4. \A i \in DOMAIN Pipeline : Pipeline[i] \in MessageRecord
  BY <1>3
<1> QED
  BY <1>1, <1>2, <1>3, <1>4 DEF MessageRecord

\* Receiving a message moves it from one end of the queue to the next.
LEMMA MoveHead ==
    ASSUME NEW S, NEW s \in Seq(S), NEW t \in Seq(S), t # <<>>
    PROVE  Append(s, Head(t)) \o Tail(t) = s \o t
<1>1. Head(t) \in S /\ Tail(t) \in Seq(S) /\ <<Head(t)>> \in Seq(S)
  BY HeadTailProperties
<1>2. t = <<Head(t)>> \o Tail(t)
  BY <1>1
<1>3. Append(s, Head(t)) = s \o <<Head(t)>>
  BY <1>1, AppendIsConcat
<1>4. (s \o <<Head(t)>>) \o Tail(t) = s \o (<<Head(t)>> \o Tail(t))
  BY <1>1, ConcatAssociative
<1> QED
  BY <1>2, <1>3, <1>4

\* messageWriter receives a message: the pipeline is the same.
LEMMA ReceiveKeepsPipeline ==
    ASSUME TypeOK, MsgReceive \/ MsgDrain
    PROVE  Pipeline' = Pipeline
<1>1. /\ msgCh # <<>> /\ msgCh' = Tail(msgCh)
      /\ batch' = Append(batch, Head(msgCh)) /\ msgRows' = msgRows
  BY DEF MsgReceive, MsgDrain
<1>2. /\ Head(msgCh) \in MessageRecord /\ Tail(msgCh) \in Seq(MessageRecord)
      /\ Append(batch, Head(msgCh)) \in Seq(MessageRecord)
  BY <1>1, PipelineType, HeadTailProperties, AppendProperties
<1>3. (msgRows \o batch') \o msgCh' = msgRows \o (batch' \o msgCh')
  <2>1. batch' \in Seq(MessageRecord) /\ msgCh' \in Seq(MessageRecord)
    BY <1>1, <1>2
  <2>2. msgRows \in Seq(MessageRecord)
    BY PipelineType
  <2> QED
    BY <2>1, <2>2, ConcatAssociative
<1>4. batch' \o msgCh' = batch \o msgCh
  BY <1>1, MoveHead, PipelineType
<1>5. msgRows \o (batch \o msgCh) = Pipeline
  BY PipelineType, ConcatAssociative DEF Pipeline
<1> QED
  BY <1>1, <1>3, <1>4, <1>5 DEF Pipeline

\* A batch is committed: the pipeline is the same.
LEMMA StoreKeepsPipeline ==
    ASSUME TypeOK, msgRows' = msgRows \o batch, batch' = <<>>, msgCh' = msgCh
    PROVE  Pipeline' = Pipeline
<1>1. (msgRows \o batch) \o <<>> = msgRows \o batch
  BY PipelineType, ConcatEmptySeq
<1> QED
  BY <1>1 DEF Pipeline

\* A message is sent: it goes to the end of the pipeline.
LEMMA EnqueueAppends ==
    ASSUME TypeOK, NEW m \in MessageRecord, msgCh' = Append(msgCh, m),
           UNCHANGED <<msgRows, batch>>
    PROVE  Pipeline' = Append(Pipeline, m)
<1>1. /\ <<m>> \in Seq(MessageRecord)
      /\ Append(msgCh, m) = msgCh \o <<m>>
      /\ Append(Pipeline, m) = Pipeline \o <<m>>
  BY PipelineType, AppendIsConcat
<1>2. ((msgRows \o batch) \o msgCh) \o <<m>> = (msgRows \o batch) \o (msgCh \o <<m>>)
  BY <1>1, PipelineType, ConcatAssociative
<1> QED
  BY <1>1, <1>2 DEF Pipeline

\* Losing a batch leaves distinct messages at distinct, earlier positions.
LEMMA LossShrinksPipeline ==
    ASSUME TypeOK, batch' = <<>>, UNCHANGED <<msgRows, msgCh>>
    PROVE  \A i, j \in DOMAIN Pipeline' : \E k, l \in DOMAIN Pipeline :
              /\ Pipeline'[i] = Pipeline[k] /\ Pipeline'[j] = Pipeline[l]
              /\ k = l => i = j
<1> DEFINE a == Len(msgRows)
<1> DEFINE b == Len(batch)
<1> DEFINE c == Len(msgCh)
<1> DEFINE from(i) == IF i <= a THEN i ELSE i + b
<1>1. a \in Nat /\ b \in Nat /\ c \in Nat
  BY PipelineType, LenProperties
<1>2. /\ Pipeline' = msgRows \o msgCh
      /\ Len(Pipeline') = a + c /\ Pipeline' \in Seq(MessageRecord)
      /\ \A i \in 1 .. a + c :
            Pipeline'[i] = IF i <= a THEN msgRows[i] ELSE msgCh[i - a]
  <2>1. msgRows \o <<>> = msgRows
    BY PipelineType, ConcatEmptySeq
  <2>2. Pipeline' = msgRows \o msgCh
    BY <2>1 DEF Pipeline
  <2> QED
    BY <2>2, PipelineType, ConcatProperties
<1>3. /\ Len(Pipeline) = a + b + c
      /\ \A i \in 1 .. a + b + c :
            Pipeline[i] = IF i <= a THEN msgRows[i]
                          ELSE IF i <= a + b THEN batch[i - a] ELSE msgCh[i - (a + b)]
  <2>1. /\ Len(msgRows \o batch) = a + b
        /\ \A i \in 1 .. a + b :
              (msgRows \o batch)[i] = IF i <= a THEN msgRows[i] ELSE batch[i - a]
    BY PipelineType, ConcatProperties
  <2>2. /\ Len(Pipeline) = (a + b) + c
        /\ \A i \in 1 .. (a + b) + c :
              Pipeline[i] = IF i <= a + b THEN (msgRows \o batch)[i]
                            ELSE msgCh[i - (a + b)]
    BY <2>1, PipelineType, ConcatProperties DEF Pipeline
  <2> QED
    BY <1>1, <2>1, <2>2
<1>4. DOMAIN Pipeline' = 1 .. a + c /\ DOMAIN Pipeline = 1 .. a + b + c
  BY <1>2, <1>3, PipelineType, LenProperties
<1>5. ASSUME NEW i \in DOMAIN Pipeline'
      PROVE  from(i) \in DOMAIN Pipeline /\ Pipeline'[i] = Pipeline[from(i)]
  <2>1. CASE i <= a
    BY <1>1, <1>2, <1>3, <1>4, <2>1
  <2>2. CASE ~(i <= a)
    <3>1. i \in 1 .. a + c /\ i + b \in 1 .. a + b + c /\ (i + b) - (a + b) = i - a
      BY <1>1, <1>4, <2>2
    <3>2. Pipeline[i + b] = msgCh[i - a]
      <4>1. ~(i + b <= a) /\ ~(i + b <= a + b)
        BY <1>1, <2>2, <3>1
      <4>2. Pipeline[i + b] = msgCh[(i + b) - (a + b)]
        BY <1>3, <3>1, <4>1
      <4> QED
        BY <3>1, <4>2
    <3> QED
      BY <1>2, <1>4, <2>2, <3>1, <3>2
  <2> QED
    BY <2>1, <2>2
<1>6. \A i, j \in DOMAIN Pipeline' : from(i) = from(j) => i = j
  BY <1>1, <1>4
<1> QED
  BY <1>5, <1>6

\* A request keeps what PipelineInv asks of it, once it has started.
Settled(r) == stage[r] # "new" /\ call[r] # "message" /\ conversations[ReqID[r]] = {}

AllSettled == \A i \in DOMAIN Pipeline : Settled(Pipeline[i].conv)

\* A handler whose conversation has left the map never puts one there again.
LEMMA StepKeepsEmpty ==
    ASSUME NoCollision, TypeOK, HandlerInv, NEW r \in Requests, Handler(r)
    PROVE  /\ \A q \in Requests : Settled(q) => Settled(q)'
           /\ \A q \in Requests : (call[q] = "message" => conversations[ReqID[q]] = {})
                  => (call[q] = "message" => conversations[ReqID[q]] = {})'
<1>1. CASE OnRequestStart(r)
  <2>1. /\ stage[r] = "new" /\ call' = [call EXCEPT ![r] = "conversation"]
        /\ stage' = [stage EXCEPT ![r] = "open"]
        /\ \A q \in Requests \ {r} :
              conversations'[ReqID[q]] = conversations[ReqID[q]]
    BY <1>1, OtherEntries DEF OnRequestStart, Start, MoveTo, Continue
  <2> QED
    BY <2>1 DEF Settled, TypeOK, LifecycleTypeOK
<1>2. CASE OnToken(r) \/ OnThinking(r) \/ OnToolCalls(r)
  <2>1. stage' = stage /\ call' = call
    BY <1>2 DEF OnToken, OnThinking, OnToolCalls, Token, lifecycleVars
  <2>2. \A q \in Requests :
            conversations[ReqID[q]] = {} => conversations'[ReqID[q]] = {}
    <3> DEFINE K == {AddToken(e, [of |-> r, n |-> sent[r] + 1]) :
                        e \in conversations[ReqID[r]]}
    <3> DEFINE T == {AddThinking(e, r) : e \in conversations[ReqID[r]]}
    <3> DEFINE C == {SetToolCalls(e, r) : e \in conversations[ReqID[r]]}
    <3>1. \/ conversations' = [conversations EXCEPT ![ReqID[r]] = K]
          \/ conversations' = [conversations EXCEPT ![ReqID[r]] = T]
          \/ conversations' = [conversations EXCEPT ![ReqID[r]] = C]
      BY <1>2 DEF OnToken, OnThinking, OnToolCalls
    <3>2. conversations[ReqID[r]] = {} => K = {} /\ T = {} /\ C = {}
      OBVIOUS
    <3> HIDE DEF K, T, C
    <3> QED
      BY <3>1, <3>2, OtherEntries
  <2> QED
    BY <2>1, <2>2 DEF Settled
<1>3. CASE OnRequestComplete(r)
  <2>1. /\ stage' = [stage EXCEPT ![r] = "completed"]
        /\ call' = [call EXCEPT ![r] =
              IF conversations[ReqID[r]] = {} THEN "none" ELSE "message"]
        /\ conversations'[ReqID[r]] = {}
        /\ \A q \in Requests \ {r} :
              conversations'[ReqID[q]] = conversations[ReqID[q]]
    BY <1>3, OtherEntries DEF OnRequestComplete, Removed, Complete, MoveTo, Continue
  <2> QED
    BY <2>1 DEF Settled, TypeOK, LifecycleTypeOK
<1>4. CASE OnError(r) \/ HandlerReturn(r)
  <2>1. call' = call /\ \A q \in Requests : stage[q] # "new" => stage'[q] # "new"
    BY <1>4 DEF OnError, HandlerReturn, Fail, Return, MoveTo, handlerVars, TypeOK,
       LifecycleTypeOK
  <2>2. \A q \in Requests :
            conversations[ReqID[q]] = {} => conversations'[ReqID[q]] = {}
    BY <1>4, OtherEntries DEF OnError, Removed, HandlerReturn, handlerVars
  <2> QED
    BY <2>1, <2>2 DEF Settled
<1>5. CASE Enqueue(r)
  <2>1. UNCHANGED <<stage, conversations>>
    BY <1>5 DEF Enqueue, EnqueueConversation, EnqueueMessage, EnqueueUpdate,
       lifecycleVars
  <2>2. \A q \in Requests : call'[q] = "message" => call[q] = "message"
    BY <1>5 DEF Enqueue, EnqueueConversation, EnqueueMessage, EnqueueUpdate,
       Continue, TypeOK
  <2> QED
    BY <2>1, <2>2 DEF Settled
<1> QED
  BY <1>1, <1>2, <1>3, <1>4, <1>5 DEF Handler

\* Every step keeps PipelineInv.
LEMMA PipelineInvNext ==
    ASSUME NoCollision, TypeOK, HandlerInv, PipelineInv, [Next]_vars
    PROVE  PipelineInv'
<1> DEFINE Calm == /\ \A q \in Requests : Settled(q) => Settled(q)'
                   /\ \A q \in Requests : (call[q] = "message" => conversations[ReqID[q]] = {})
                        => (call[q] = "message" => conversations[ReqID[q]] = {})'
<1>1. ASSUME Calm, Pipeline' = Pipeline PROVE PipelineInv'
  <2>1. \A i \in DOMAIN Pipeline : Pipeline[i].conv \in Requests
    BY PipelineType
  <2> QED
    BY <1>1, <2>1 DEF PipelineInv, OneMessagePerConversation, Settled
<1>2. ASSUME UNCHANGED <<lifecycleVars, handlerVars>> PROVE Calm
  BY <1>2 DEF lifecycleVars, handlerVars, Settled
<1>3. ASSUME NEW r \in Requests, EnqueueMessage(r), UNCHANGED msgCh PROVE PipelineInv'
  <2>1. Pipeline' = Pipeline
    BY <1>3 DEF EnqueueMessage, backVars, messageVars, rowVars, Pipeline
  <2> QED
    BY <1>1, <1>3, <2>1, StepKeepsEmpty DEF Handler, Enqueue
<1>4. ASSUME NEW r \in Requests, EnqueueMessage(r), msgCh' # msgCh PROVE PipelineInv'
  <2>1. PICK e \in taken[r] : msgCh' = Append(msgCh, MessageOf(e, sent[r]))
    BY <1>4 DEF EnqueueMessage
  <2> DEFINE m == MessageOf(e, sent[r])
  <2>2. m \in MessageRecord /\ m.conv = r
    <3>1. e \in Conversation /\ sent[r] \in 0 .. MaxTokens /\ e.id = r
      BY DEF TypeOK, LifecycleTypeOK, HandlerInv, EntryFaithful
    <3> QED
      BY <3>1, ConversationTypes DEF MessageOf
  <2>3. Pipeline' = Append(Pipeline, m)
    BY <1>4, <2>1, <2>2, EnqueueAppends DEF EnqueueMessage, backVars, messageVars, rowVars
  <2>4. /\ call[r] = "message" /\ call'[r] = "update" /\ stage'[r] # "new"
        /\ conversations'[ReqID[r]] = {}
    BY <1>4 DEF EnqueueMessage, About, Continue, lifecycleVars, HandlerInv,
       PipelineInv, TypeOK, LifecycleTypeOK
  <2> HIDE DEF m
  <2>5. Calm
    BY <1>4, StepKeepsEmpty DEF Handler, Enqueue
  <2>6. /\ DOMAIN Pipeline = 1 .. Len(Pipeline) /\ Len(Pipeline) \in Nat
        /\ DOMAIN Pipeline' = 1 .. Len(Pipeline) + 1
        /\ \A i \in DOMAIN Pipeline : Pipeline'[i] = Pipeline[i]
        /\ Pipeline'[Len(Pipeline) + 1] = m
    BY <2>2, <2>3, PipelineType, AppendProperties, LenProperties
  <2>7. \A i \in DOMAIN Pipeline : Pipeline[i].conv \in Requests /\ Pipeline[i].conv # r
    BY <2>4, PipelineType DEF PipelineInv
  <2>8. OneMessagePerConversation'
    BY <2>2, <2>6, <2>7 DEF PipelineInv, OneMessagePerConversation
  <2>9. AllSettled'
    <3>1. \A i \in DOMAIN Pipeline : Settled(Pipeline[i].conv)
      BY DEF PipelineInv, Settled
    <3>2. \A i \in DOMAIN Pipeline : Settled(Pipeline[i].conv) =>
              (/\ stage'[Pipeline[i].conv] # "new"
               /\ call'[Pipeline[i].conv] # "message"
               /\ conversations'[ReqID[Pipeline[i].conv]] = {})
      BY <2>5, <2>7 DEF Settled
    <3>3. stage'[m.conv] # "new" /\ call'[m.conv] # "message"
          /\ conversations'[ReqID[m.conv]] = {}
      BY <2>2, <2>4
    <3>4. \A i \in DOMAIN Pipeline' :
              \/ i \in DOMAIN Pipeline /\ Pipeline'[i] = Pipeline[i]
              \/ Pipeline'[i] = m
      BY <2>6
    <3>5. \A i \in DOMAIN Pipeline' :
              /\ stage'[Pipeline'[i].conv] # "new"
              /\ call'[Pipeline'[i].conv] # "message"
              /\ conversations'[ReqID[Pipeline'[i].conv]] = {}
      BY <3>1, <3>2, <3>3, <3>4
    <3> QED
      BY <3>5 DEF AllSettled, Settled
  <2> QED
    BY <2>5, <2>8, <2>9 DEF PipelineInv, Settled, AllSettled
<1>5. CASE FlushCommit \/ FlushBeginFails
  <2>1. Calm
    BY <1>2, <1>5 DEF FlushCommit, FlushBeginFails, frontVars
  <2>2. CASE msgRows' = msgRows \o batch
    BY <1>1, <1>5, <2>1, <2>2, StoreKeepsPipeline
       DEF FlushCommit, FlushBeginFails, FlushOver
  <2>3. CASE msgRows' = msgRows
    <3>1. \A i, j \in DOMAIN Pipeline' : \E k, l \in DOMAIN Pipeline :
              /\ Pipeline'[i] = Pipeline[k] /\ Pipeline'[j] = Pipeline[l]
              /\ k = l => i = j
      BY <1>5, <2>3, LossShrinksPipeline DEF FlushCommit, FlushBeginFails, FlushOver
    <3>2. OneMessagePerConversation'
      BY <3>1 DEF PipelineInv, OneMessagePerConversation
    <3>3. AllSettled'
      <4>1. \A k \in DOMAIN Pipeline : /\ Settled(Pipeline[k].conv)
                                       /\ Pipeline[k].conv \in Requests
        BY PipelineType DEF PipelineInv, Settled
      <4>2. \A k \in DOMAIN Pipeline :
              /\ stage'[Pipeline[k].conv] # "new"
              /\ call'[Pipeline[k].conv] # "message"
              /\ conversations'[ReqID[Pipeline[k].conv]] = {}
        BY <2>1, <4>1 DEF Settled
      <4>3. \A i \in DOMAIN Pipeline' : \E k \in DOMAIN Pipeline :
              Pipeline'[i] = Pipeline[k]
        BY <3>1
      <4> QED
        BY <4>2, <4>3 DEF AllSettled, Settled
    <3> QED
      BY <2>1, <3>2, <3>3 DEF PipelineInv, Settled, AllSettled
  <2> QED
    BY <1>5, <2>2, <2>3 DEF FlushCommit, FlushBeginFails
<1>6. CASE MsgReceive \/ MsgDrain
  BY <1>1, <1>2, <1>6, ReceiveKeepsPipeline DEF MsgReceive, MsgDrain, frontVars
<1>7. ASSUME NEW r \in Requests, Handler(r), ~EnqueueMessage(r) PROVE PipelineInv'
  <2>1. UNCHANGED <<msgCh, batch, msgRows>>
    BY <1>7 DEF Handler, OnRequestStart, OnToken, OnThinking, OnToolCalls,
       OnRequestComplete, OnError, HandlerReturn, Enqueue, EnqueueConversation,
       EnqueueUpdate, channelVars, backVars, messageVars, rowVars
  <2> QED
    BY <1>1, <1>7, <2>1, StepKeepsEmpty DEF Pipeline
<1>8. ASSUME ConversationWriter \/ UpdateWriter \/ Close \/ UNCHANGED vars
             \/ MsgTick \/ MsgCancelled \/ MsgDrained \/ FlushBegin \/ FlushExec
      PROVE  PipelineInv'
  <2>1. UNCHANGED <<lifecycleVars, handlerVars>> /\ UNCHANGED <<msgCh, batch, msgRows>>
    BY <1>8 DEF ConversationWriter, ConvReceive, ConvWrite, ConvExit,
       UpdateWriter, UpdReceive, UpdWrite, UpdExit, Close, Cancel, CloseReturns,
       ProcessExit, MsgTick, MsgCancelled, MsgDrained, FlushBegin, FlushExec,
       frontVars, vars, channelVars, messageVars, rowVars
  <2> QED
    BY <1>1, <1>2, <2>1 DEF Pipeline
<1> QED
  BY <1>3, <1>4, <1>5, <1>6, <1>7, <1>8 DEF Next, MessageWriter

\* The pipeline is empty at first.
LEMMA PipelineInvInit == Init => PipelineInv
<1> SUFFICES ASSUME Init PROVE PipelineInv
  OBVIOUS
<1>1. Pipeline = <<>>
  <2>1. <<>> \o <<>> = <<>>
    BY ConcatEmptySeq, EmptySeqType
  <2> QED
    BY <2>1 DEF Init, Pipeline
<1> QED
  BY <1>1 DEF Init, PipelineInv, OneMessagePerConversation

\* A conversation with a message in the pipeline is off the map and will not be
\* enqueued again (database_hook.go:155-202).
THEOREM OffTheMap == NoCollision /\ Spec => []PipelineInv
<1> SUFFICES ASSUME NoCollision PROVE Spec => []PipelineInv
  OBVIOUS
<1> DEFINE Inv == TypeOK /\ HandlerInv /\ PipelineInv
<1>1. Init => Inv
  BY InitType, HandlerInvInit, PipelineInvInit
<1>2. Inv /\ [Next]_vars => Inv'
  BY NextType, HandlerInvNext, PipelineInvNext
<1> QED
  BY <1>1, <1>2, PTL DEF Spec

-----------------------------------------------------------------------------
(* Leaks.                                                                  *)

\* A step of a handler keeps OnlyAbandonedLeak: only OnRequestStart makes an
\* entry, and a handler that has completed or failed has none to change.
LEMMA LeakHandler ==
    ASSUME NoCollision, TypeOK, OnlyAbandonedLeak, NEW r \in Requests, Handler(r)
    PROVE  OnlyAbandonedLeak'
<1> SUFFICES ASSUME NEW q \in Requests, conversations'[ReqID[q]] # {}
             PROVE  stage'[q] \in {"open", "abandoned"}
  BY DEF OnlyAbandonedLeak
<1>1. CASE OnRequestStart(r)
  <2>1. stage' = [stage EXCEPT ![r] = "open"]
    BY <1>1 DEF OnRequestStart, Start, MoveTo
  <2>2. q # r => conversations'[ReqID[q]] = conversations[ReqID[q]]
    BY <1>1, OtherEntries DEF OnRequestStart
  <2> QED
    BY <2>1, <2>2 DEF OnlyAbandonedLeak, TypeOK, LifecycleTypeOK
<1>2. CASE OnToken(r) \/ OnThinking(r) \/ OnToolCalls(r)
  <2>1. stage' = stage
    BY <1>2 DEF OnToken, Token, OnThinking, OnToolCalls, lifecycleVars
  <2>2. conversations[ReqID[q]] # {}
    <3>1. CASE q = r
      BY <3>1, <1>2, ReqIDAssumption
         DEF OnToken, OnThinking, OnToolCalls, TypeOK
    <3>2. CASE q # r
      <4>1. PICK S : conversations' = [conversations EXCEPT ![ReqID[r]] = S]
        BY <1>2 DEF OnToken, OnThinking, OnToolCalls
      <4> QED
        BY <3>2, <4>1, OtherEntries
    <3> QED
      BY <3>1, <3>2
  <2> QED
    BY <2>1, <2>2 DEF OnlyAbandonedLeak
<1>3. CASE OnRequestComplete(r) \/ OnError(r)
  <2>1. /\ conversations'[ReqID[r]] = {}
        /\ q # r => conversations'[ReqID[q]] = conversations[ReqID[q]]
    BY <1>3, OtherEntries DEF OnRequestComplete, OnError, Removed
  <2>2. q # r /\ stage'[q] = stage[q]
    BY <2>1, <1>3 DEF OnRequestComplete, OnError, Complete, Fail, MoveTo, TypeOK,
       LifecycleTypeOK
  <2> QED
    BY <2>1, <2>2 DEF OnlyAbandonedLeak
<1>4. CASE HandlerReturn(r)
  <2>1. conversations' = conversations
    BY <1>4 DEF HandlerReturn, handlerVars
  <2>2. stage' = [stage EXCEPT ![r] =
                     IF stage[r] = "open" THEN "abandoned" ELSE "returned"]
        /\ stage[r] # "abandoned"
    BY <1>4 DEF HandlerReturn, Return, MoveTo, Finished
  <2>3. stage[q] \in {"open", "abandoned"}
    BY <2>1 DEF OnlyAbandonedLeak
  <2> QED
    BY <2>2, <2>3 DEF TypeOK, LifecycleTypeOK
<1>5. CASE Enqueue(r)
  BY <1>5 DEF Enqueue, EnqueueConversation, EnqueueMessage, EnqueueUpdate,
     lifecycleVars, OnlyAbandonedLeak
<1> QED
  BY <1>1, <1>2, <1>3, <1>4, <1>5 DEF Handler

\* Unless two requests draw the same identifier, only a request whose handler
\* returned without OnRequestComplete and OnError leaves an entry in the map
\* (database_hook.go:155-160, 207-210).
THEOREM NothingElseLeaks == NoCollision /\ Spec => []OnlyAbandonedLeak
<1> SUFFICES ASSUME NoCollision PROVE Spec => []OnlyAbandonedLeak
  OBVIOUS
<1>1. Init => TypeOK /\ OnlyAbandonedLeak
  BY InitType, ReqIDAssumption DEF Init, OnlyAbandonedLeak
<1>2. (TypeOK /\ OnlyAbandonedLeak) /\ [Next]_vars => (TypeOK /\ OnlyAbandonedLeak)'
  <2> SUFFICES ASSUME TypeOK, OnlyAbandonedLeak, [Next]_vars
               PROVE  OnlyAbandonedLeak'
    BY NextType
  <2>1. CASE \E r \in Requests : Handler(r)
    BY <2>1, LeakHandler
  <2>2. CASE UNCHANGED <<lifecycleVars, handlerVars>>
    BY <2>2 DEF lifecycleVars, handlerVars, OnlyAbandonedLeak
  <2> QED
    BY <2>1, <2>2, BackgroundKeepsHandlers DEF Next
<1> QED
  BY <1>1, <1>2, PTL DEF Spec

=============================================================================
