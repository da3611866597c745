----------------------- MODULE DatabaseRecordsProofs -----------------------
(***************************************************************************)
(* What becomes of the records of the database plugin: what Close leaves   *)
(* behind, that a conversation has one message and its two rows agree, and *)
(* that the plugin implements ConversationLog.  Then what follows: fates   *)
(* are for good, rows are final, records are lost only if one writer       *)
(* overtakes another, and the writers come to an end.                      *)
(***************************************************************************)
EXTENDS DatabaseHookProofs, FiniteSetTheorems

-----------------------------------------------------------------------------
(* The drain.  These say whose records the channels may still hold.        *)

ConvLate == \A i \in DOMAIN convCh : convCh[i] \in late
MsgLate == \A i \in DOMAIN msgCh : msgCh[i].conv \in late
UpdLate == \A i \in DOMAIN updateCh : updateCh[i].conv \in late

\* A handler that has not returned when the plugin is being closed had not when
\* Close was called, and one that has returned sends nothing more.
HandlersInv ==
    /\ \A r \in Requests : Finished(r) => call[r] = "none"
    /\ proc # "running" => \A r \in Requests : ~Finished(r) => r \in late

\* Where a writer is in its drain: it has exited only after the cancellation,
\* and what its channel holds since it was seen empty is late.
WritersInv ==
    /\ proc = "running" => exited = {} /\ ~draining
    /\ proc \in {"closed", "exited"} => exited = Writers
    /\ "conversation" \in exited => convHeld = {} /\ ConvLate
    /\ "update" \in exited => updHeld = {} /\ UpdLate
    /\ "message" \in exited => draining /\ msgPc = "exited" /\ batch = <<>>
    /\ msgPc = "drain" => draining
    /\ msgPc = "select" => ~draining
    /\ (draining /\ msgPc # "drain") => MsgLate

DrainInv == HandlersInv /\ WritersInv


\* Nothing is cancelled and no writer has returned at first.
LEMMA DrainInvInit == Init => DrainInv
BY DEF Init, LifecycleInit, DrainInv, HandlersInv, WritersInv, Finished, Writers

\* A handler that returns is outside its hook calls, and Close writes down those
\* that have not.
LEMMA HandlersInvNext ==
    ASSUME TypeOK, HandlersInv, [Next]_vars
    PROVE  HandlersInv'
<1>1. ASSUME NEW r \in Requests, Handler(r) PROVE HandlersInv'
  <2>1. UNCHANGED <<proc, late>>
    BY <1>1 DEF Handler, OnRequestStart, OnToken, OnThinking, OnToolCalls,
       OnRequestComplete, OnError, HandlerReturn, Enqueue, EnqueueConversation,
       EnqueueMessage, EnqueueUpdate, backVars
  <2>2. \A q \in Requests : Finished(q) => Finished(q)'
    BY <1>1 DEF Handler, OnRequestStart, OnToken, OnThinking, OnToolCalls,
       OnRequestComplete, OnError, HandlerReturn, Enqueue, EnqueueConversation,
       EnqueueMessage, EnqueueUpdate, Start, Token, Complete, Fail, Return, MoveTo,
       MayCall, Finished, TypeOK, LifecycleTypeOK, lifecycleVars
  <2>3. ASSUME NEW q \in Requests, Finished(q)' PROVE call'[q] = "none"
    <3>1. CASE HandlerReturn(r)
      BY <2>3, <3>1 DEF HandlerReturn, Free, Return, MoveTo, handlerVars,
         HandlersInv, Finished, TypeOK, LifecycleTypeOK
    <3>2. CASE OnRequestStart(r) \/ OnRequestComplete(r) \/ OnError(r)
      BY <2>3, <3>2 DEF OnRequestStart, OnRequestComplete, OnError, Start, Complete,
         Fail, MoveTo, MayCall, Continue, HandlersInv, Finished, TypeOK,
         LifecycleTypeOK
    <3>3. CASE OnToken(r) \/ OnThinking(r) \/ OnToolCalls(r) \/ Enqueue(r)
      BY <2>3, <3>3 DEF OnToken, Token, OnThinking, OnToolCalls, Enqueue,
         EnqueueConversation, EnqueueMessage, EnqueueUpdate, Continue, About,
         lifecycleVars, HandlersInv, Finished, TypeOK, LifecycleTypeOK
    <3> QED
      BY <1>1, <3>1, <3>2, <3>3 DEF Handler
  <2> QED
    BY <2>1, <2>2, <2>3 DEF HandlersInv
<1>2. CASE Cancel
  BY <1>2 DEF Cancel, HandlersInv, lifecycleVars, handlerVars, Finished
<1>3. CASE ConversationWriter \/ UpdateWriter \/ MessageWriter \/ UNCHANGED vars
           \/ CloseReturns \/ ProcessExit
  <2>1. UNCHANGED <<lifecycleVars, handlerVars, late>> /\ (proc' = proc \/ proc # "running")
    BY <1>3 DEF ConversationWriter, ConvReceive, ConvWrite, ConvExit, UpdateWriter,
       UpdReceive, UpdWrite, UpdExit, MessageWriter, MsgReceive, MsgTick,
       MsgCancelled, MsgDrain, MsgDrained, FlushBegin, FlushBeginFails, FlushExec,
       FlushCommit, CloseReturns, ProcessExit, frontVars, vars
  <2> QED
    BY <2>1 DEF HandlersInv, lifecycleVars, handlerVars, Finished
<1> QED
  BY <1>1, <1>2, <1>3 DEF Next, Close

\* Appending keeps what holds of all elements.
LEMMA AppendAll ==
    ASSUME NEW S, NEW s \in Seq(S), NEW x \in S
    PROVE  \A i \in DOMAIN Append(s, x) :
              (i \in DOMAIN s /\ Append(s, x)[i] = s[i]) \/ Append(s, x)[i] = x
BY AppendProperties

\* A hook call that puts a record on a channel while the plugin is being closed
\* is made by a handler that is late.
LEMMA SenderIsLate ==
    ASSUME NoCollision, TypeOK, HandlerInv, HandlersInv, proc # "running",
           NEW r \in Requests, Handler(r)
    PROVE  /\ ConvLate => ConvLate'
           /\ MsgLate => MsgLate'
           /\ UpdLate => UpdLate'
<1>1. UNCHANGED late
  BY DEF Handler, OnRequestStart, OnToken, OnThinking, OnToolCalls,
     OnRequestComplete, OnError, HandlerReturn, Enqueue, EnqueueConversation,
     EnqueueMessage, EnqueueUpdate, backVars
<1>2. CASE UNCHANGED channelVars
  BY <1>1, <1>2 DEF channelVars, ConvLate, MsgLate, UpdLate
<1>3. CASE EnqueueConversation(r)
  <2>1. r \in late /\ convCh \in Seq(Requests) /\ UNCHANGED <<msgCh, updateCh>>
        /\ (convCh' = Append(convCh, r) \/ convCh' = convCh)
    BY <1>3 DEF EnqueueConversation, About, HandlersInv, TypeOK
  <2> QED
    BY <1>1, <2>1, AppendAll DEF ConvLate, MsgLate, UpdLate
<1>4. CASE EnqueueMessage(r)
  <2>1. PICK e \in taken[r] : msgCh' = Append(msgCh, MessageOf(e, sent[r]))
                              \/ msgCh' = msgCh
    BY <1>4 DEF EnqueueMessage
  <2>2. /\ r \in late /\ msgCh \in Seq(MessageRecord) /\ UNCHANGED <<convCh, updateCh>>
    BY <1>4 DEF EnqueueMessage, About, HandlersInv, TypeOK
  <2>3. MessageOf(e, sent[r]) \in MessageRecord /\ MessageOf(e, sent[r]).conv = r
    <3>1. e \in Conversation /\ sent[r] \in 0 .. MaxTokens /\ e.id = r
      BY DEF TypeOK, LifecycleTypeOK, HandlerInv, EntryFaithful
    <3> QED
      BY <3>1, ConversationTypes DEF MessageOf
  <2> HIDE DEF MessageOf
  <2> QED
    BY <1>1, <2>1, <2>2, <2>3, AppendAll DEF ConvLate, MsgLate, UpdLate
<1>5. CASE EnqueueUpdate(r)
  <2>1. PICK e \in taken[r] : updateCh' = Append(updateCh, UpdateOf(e, sent[r]))
                              \/ updateCh' = updateCh
    BY <1>5 DEF EnqueueUpdate
  <2>2. /\ r \in late /\ updateCh \in Seq(ConversationUpdate)
        /\ UNCHANGED <<convCh, msgCh>>
    BY <1>5 DEF EnqueueUpdate, About, HandlersInv, TypeOK
  <2>3. /\ UpdateOf(e, sent[r]) \in ConversationUpdate
        /\ UpdateOf(e, sent[r]).conv = r
    BY DEF TypeOK, LifecycleTypeOK, HandlerInv, EntryFaithful, UpdateOf,
       ConversationUpdate
  <2> HIDE DEF UpdateOf
  <2> QED
    BY <1>1, <2>1, <2>2, <2>3, AppendAll DEF ConvLate, MsgLate, UpdLate
<1> QED
  BY <1>2, <1>3, <1>4, <1>5 DEF Handler, OnRequestStart, OnToken, OnThinking,
     OnToolCalls, OnRequestComplete, OnError, HandlerReturn, Enqueue

\* A handler changes nothing of a writer but what its channel holds.
LEMMA WritersInvHandler ==
    ASSUME NoCollision, TypeOK, HandlerInv, DrainInv,
           NEW r \in Requests, Handler(r)
    PROVE  WritersInv'
<1>1. UNCHANGED <<convHeld, updHeld, msgPc, draining, batch, exited, proc>>
  BY DEF Handler, OnRequestStart, OnToken, OnThinking, OnToolCalls,
     OnRequestComplete, OnError, HandlerReturn, Enqueue, EnqueueConversation,
     EnqueueMessage, EnqueueUpdate, backVars, messageVars
<1> QED
  BY <1>1, SenderIsLate DEF DrainInv, WritersInv

\* A writer that exits has seen its channel empty, and takes nothing after.
LEMMA WritersInvQuick ==
    ASSUME TypeOK, WritersInv, ConversationWriter \/ UpdateWriter
    PROVE  WritersInv'
<1>1. UNCHANGED <<msgPc, draining, batch, proc, late, msgCh>>
  BY DEF ConversationWriter, ConvReceive, ConvWrite, ConvExit, UpdateWriter,
     UpdReceive, UpdWrite, UpdExit, messageVars, channelVars
<1>2. CASE ConvReceive \/ ConvWrite
  BY <1>1, <1>2 DEF ConvReceive, ConvWrite, channelVars, WritersInv, MsgLate,
     UpdLate
<1>3. CASE UpdReceive \/ UpdWrite
  BY <1>1, <1>3 DEF UpdReceive, UpdWrite, channelVars, WritersInv, MsgLate,
     ConvLate
<1>4. CASE ConvExit
  BY <1>1, <1>4 DEF ConvExit, Drained, channelVars, WritersInv, MsgLate, UpdLate,
     ConvLate, Writers
<1>5. CASE UpdExit
  BY <1>1, <1>5 DEF UpdExit, Drained, channelVars, WritersInv, MsgLate, UpdLate,
     ConvLate, Writers
<1> QED
  BY <1>2, <1>3, <1>4, <1>5 DEF ConversationWriter, UpdateWriter

\* messageWriter flushes for the last time what it collected until it found the
\* channel empty, and returns.
LEMMA WritersInvMessage ==
    ASSUME TypeOK, WritersInv, MessageWriter
    PROVE  WritersInv'
<1>1. UNCHANGED <<convHeld, updHeld, convCh, updateCh, proc, late>>
  BY DEF MessageWriter, MsgReceive, MsgTick, MsgCancelled, MsgDrain, MsgDrained,
     FlushBegin, FlushBeginFails, FlushExec, FlushCommit, frontVars
<1>2. CASE MsgReceive \/ MsgTick \/ MsgCancelled
  BY <1>1, <1>2 DEF MsgReceive, MsgTick, MsgCancelled, WritersInv, ConvLate,
     UpdLate, MsgLate
<1>3. CASE MsgDrain
  BY <1>1, <1>3 DEF MsgDrain, WritersInv, ConvLate, UpdLate, MsgLate
<1>4. CASE MsgDrained
  BY <1>1, <1>4 DEF MsgDrained, WritersInv, ConvLate, UpdLate, MsgLate, TypeOK,
     Writers
<1>5. CASE FlushBegin \/ FlushExec
  BY <1>1, <1>5 DEF FlushBegin, FlushExec, WritersInv, ConvLate, UpdLate, MsgLate
<1>6. CASE FlushBeginFails \/ FlushCommit
  <2>1. /\ FlushOver /\ UNCHANGED <<draining, msgCh>>
        /\ msgPc \in {"flush", "exec"}
    BY <1>6 DEF FlushBeginFails, FlushCommit
  <2> QED
    BY <1>1, <2>1 DEF FlushOver, WritersInv, ConvLate, UpdLate, MsgLate, TypeOK,
       Writers
<1> QED
  BY <1>2, <1>3, <1>4, <1>5, <1>6 DEF MessageWriter

\* Every step keeps DrainInv.
LEMMA DrainInvNext ==
    ASSUME NoCollision, TypeOK, HandlerInv, DrainInv, [Next]_vars
    PROVE  DrainInv'
<1>1. HandlersInv'
  BY HandlersInvNext DEF DrainInv
<1>2. CASE \E r \in Requests : Handler(r)
  BY <1>1, <1>2, WritersInvHandler DEF DrainInv
<1>3. CASE ConversationWriter \/ UpdateWriter
  BY <1>1, <1>3, WritersInvQuick DEF DrainInv
<1>4. CASE MessageWriter
  BY <1>1, <1>4, WritersInvMessage DEF DrainInv
<1>5. CASE Close
  <2>1. WritersInv'
    BY <1>5 DEF Close, Cancel, CloseReturns, ProcessExit, channelVars, messageVars,
       DrainInv, WritersInv, ConvLate, UpdLate, MsgLate, Writers
  <2> QED
    BY <1>1, <2>1 DEF DrainInv
<1>6. CASE UNCHANGED vars
  BY <1>1, <1>6 DEF vars, channelVars, messageVars, DrainInv, WritersInv, ConvLate,
     UpdLate, MsgLate
<1> QED
  BY <1>2, <1>3, <1>4, <1>5, <1>6 DEF Next

\* Unless two requests draw the same identifier, what Close leaves queued was
\* sent by handlers that were running when it was called, for any number of
\* handlers and any capacities (database_hook.go:222-229, 259-267, 280-286).
THEOREM NothingEarlierIsLeft == NoCollision /\ Spec => []LeftBehindIsLate
<1> SUFFICES ASSUME NoCollision PROVE Spec => []LeftBehindIsLate
  OBVIOUS
<1> DEFINE Inv == TypeOK /\ HandlerInv /\ DrainInv
<1>1. Init => Inv
  BY InitType, HandlerInvInit, DrainInvInit
<1>2. Inv /\ [Next]_vars => Inv'
  BY NextType, HandlerInvNext, DrainInvNext
<1>3. Inv => LeftBehindIsLate
  BY DEF DrainInv, WritersInv, LeftBehindIsLate, ConvLate, UpdLate, MsgLate,
     Writers
<1> QED
  BY <1>1, <1>2, <1>3, PTL DEF Spec

-----------------------------------------------------------------------------
(* A record is in one place at a time: with its handler, on its channel,   *)
(* with its writer, in the database or lost.                               *)

Dropped(r, kind) == [kind |-> kind, conv |-> r] \in lost

\* No two records of a channel are of one conversation.
Distinct(s) == \A i, j \in DOMAIN s : s[i].conv = s[j].conv => i = j

\* The path of the conversation record, and that it has begun if the
\* conversation is in the map (database_hook.go:108-129).
ConvPath ==
    /\ \A i, j \in DOMAIN convCh : convCh[i] = convCh[j] => i = j
    /\ \A x, y \in convHeld : x = y
    /\ \A r \in Requests :
          /\ call[r] = "conversation" =>
                ~(InSeq(r, convCh) \/ r \in convHeld \/ r \in convRows
                    \/ Dropped(r, "conversation"))
          /\ InSeq(r, convCh) =>
                ~(r \in convHeld \/ r \in convRows \/ Dropped(r, "conversation"))
          /\ r \in convHeld => ~(r \in convRows \/ Dropped(r, "conversation"))
          /\ r \in convRows => ~Dropped(r, "conversation")
          /\ stage[r] = "new" =>
                ~(call[r] = "conversation" \/ InSeq(r, convCh) \/ r \in convHeld
                    \/ r \in convRows \/ Dropped(r, "conversation"))
          /\ conversations[ReqID[r]] # {} =>
                (call[r] = "conversation" \/ InSeq(r, convCh) \/ r \in convHeld
                    \/ r \in convRows \/ Dropped(r, "conversation"))

\* A request that has yet to start, or whose conversation is in the map, has not
\* been completed (database_hook.go:155-166).
Uncompleted(r) == stage[r] = "new" \/ conversations[ReqID[r]] # {}

\* The path of the message record (database_hook.go:168-191).
MsgPath ==
    /\ Distinct(msgCh)
    /\ \A r \in Requests :
          /\ call[r] = "message" =>
                ~(r \in Convs(msgCh) \/ r \in Convs(batch) \/ r \in Convs(msgRows)
                    \/ Dropped(r, "message"))
          /\ r \in Convs(msgCh) =>
                ~(r \in Convs(batch) \/ r \in Convs(msgRows) \/ Dropped(r, "message"))
          /\ r \in Convs(batch) => ~(r \in Convs(msgRows) \/ Dropped(r, "message"))
          /\ r \in Convs(msgRows) => ~Dropped(r, "message")
          /\ Uncompleted(r) =>
                ~(call[r] = "message" \/ r \in Convs(msgCh) \/ r \in Convs(batch)
                    \/ r \in Convs(msgRows) \/ Dropped(r, "message"))

OneOf(r, updates) == \E u \in updates : u.conv = r

\* The path of the update record (database_hook.go:193-202).
UpdPath ==
    /\ Distinct(updateCh)
    /\ \A x, y \in updHeld : x = y
    /\ \A r \in Requests :
          /\ call[r] \in {"message", "update"} =>
                ~(r \in Convs(updateCh) \/ OneOf(r, updHeld) \/ OneOf(r, endedRows)
                    \/ Dropped(r, "update"))
          /\ r \in Convs(updateCh) =>
                ~(OneOf(r, updHeld) \/ OneOf(r, endedRows) \/ Dropped(r, "update"))
          /\ OneOf(r, updHeld) => ~(OneOf(r, endedRows) \/ Dropped(r, "update"))
          /\ OneOf(r, endedRows) => ~Dropped(r, "update")
          /\ Uncompleted(r) =>
                ~(call[r] \in {"message", "update"} \/ r \in Convs(updateCh)
                    \/ OneOf(r, updHeld) \/ OneOf(r, endedRows) \/ Dropped(r, "update"))

PathInv == ConvPath /\ MsgPath /\ UpdPath

\* The conversations of the messages or updates of a channel, when one is added,
\* when the oldest is taken, and when a batch is stored.
LEMMA ConvsAppend ==
    ASSUME NEW S, NEW s \in Seq(S), NEW x \in S
    PROVE  /\ Convs(Append(s, x)) = Convs(s) \cup {x.conv}
           /\ Distinct(s) /\ x.conv \notin Convs(s) => Distinct(Append(s, x))
BY AppendProperties DEF Convs, Distinct

LEMMA ConvsTail ==
    ASSUME NEW S, NEW s \in Seq(S), s # <<>>
    PROVE  /\ Head(s) \in S /\ Convs(s) = Convs(Tail(s)) \cup {Head(s).conv}
           /\ Distinct(s) => Distinct(Tail(s)) /\ Head(s).conv \notin Convs(Tail(s))
<1>1. /\ Len(s) \in Nat \ {0} /\ DOMAIN s = 1 .. Len(s)
      /\ DOMAIN Tail(s) = 1 .. Len(s) - 1
      /\ \A i \in 1 .. Len(s) - 1 : Tail(s)[i] = s[i + 1]
      /\ Head(s) = s[1] /\ Head(s) \in S
  BY HeadTailProperties, LenProperties, EmptySeq
<1>2. \A i \in DOMAIN s : i = 1 \/ (i - 1 \in DOMAIN Tail(s) /\ Tail(s)[i - 1] = s[i])
  BY <1>1
<1>3. \A i \in DOMAIN Tail(s) : i + 1 \in DOMAIN s /\ Tail(s)[i] = s[i + 1] /\ i + 1 # 1
  BY <1>1
<1>4. Convs(s) = Convs(Tail(s)) \cup {Head(s).conv}
  <2>1. Convs(s) \subseteq Convs(Tail(s)) \cup {Head(s).conv}
    <3> SUFFICES ASSUME NEW i \in DOMAIN s
                 PROVE  s[i].conv \in Convs(Tail(s)) \cup {Head(s).conv}
      BY DEF Convs
    <3> QED
      BY <1>1, <1>2 DEF Convs
  <2>2. Convs(Tail(s)) \subseteq Convs(s) /\ Head(s).conv \in Convs(s)
    BY <1>1, <1>3 DEF Convs
  <2> QED
    BY <2>1, <2>2
<1>5. ASSUME Distinct(s) PROVE Distinct(Tail(s))
  BY <1>1, <1>3, <1>5 DEF Distinct
<1>6. ASSUME Distinct(s) PROVE Head(s).conv \notin Convs(Tail(s))
  BY <1>1, <1>3, <1>6 DEF Distinct, Convs
<1> QED
  BY <1>1, <1>4, <1>5, <1>6

LEMMA ConvsConcat ==
    ASSUME NEW S, NEW s \in Seq(S), NEW t \in Seq(S)
    PROVE  Convs(s \o t) = Convs(s) \cup Convs(t)
<1>1. /\ Len(s) \in Nat /\ Len(t) \in Nat
      /\ DOMAIN s = 1 .. Len(s) /\ DOMAIN t = 1 .. Len(t)
      /\ DOMAIN (s \o t) = 1 .. Len(s) + Len(t)
      /\ \A i \in 1 .. Len(s) + Len(t) :
            (s \o t)[i] = IF i <= Len(s) THEN s[i] ELSE t[i - Len(s)]
  BY ConcatProperties, LenProperties
<1>2. \A i \in DOMAIN (s \o t) :
          \/ i \in DOMAIN s /\ (s \o t)[i] = s[i]
          \/ i - Len(s) \in DOMAIN t /\ (s \o t)[i] = t[i - Len(s)]
  BY <1>1
<1>3. \A i \in DOMAIN s : i \in DOMAIN (s \o t) /\ (s \o t)[i] = s[i]
  BY <1>1
<1>4. \A i \in DOMAIN t : i + Len(s) \in DOMAIN (s \o t) /\ (s \o t)[i + Len(s)] = t[i]
  BY <1>1
<1>5. Convs(s \o t) \subseteq Convs(s) \cup Convs(t)
  BY <1>2 DEF Convs
<1>6. Convs(s) \subseteq Convs(s \o t)
  BY <1>3 DEF Convs
<1>7. Convs(t) \subseteq Convs(s \o t)
  BY <1>4 DEF Convs
<1> QED
  BY <1>5, <1>6, <1>7

LEMMA ConvsEmpty == Convs(<<>>) = {}
BY DEF Convs

\* The same for a channel of conversations.
LEMMA QueueAppend ==
    ASSUME NEW S, NEW s \in Seq(S), NEW x \in S
    PROVE  /\ \A q : InSeq(q, Append(s, x)) <=> InSeq(q, s) \/ q = x
           /\ ~InSeq(x, s) /\ (\A i, j \in DOMAIN s : s[i] = s[j] => i = j) =>
                \A i, j \in DOMAIN Append(s, x) :
                    Append(s, x)[i] = Append(s, x)[j] => i = j
BY AppendProperties DEF InSeq

LEMMA QueueTail ==
    ASSUME NEW S, NEW s \in Seq(S), s # <<>>
    PROVE  /\ Head(s) \in S /\ InSeq(Head(s), s)
           /\ \A q : InSeq(q, s) <=> InSeq(q, Tail(s)) \/ q = Head(s)
           /\ (\A i, j \in DOMAIN s : s[i] = s[j] => i = j) =>
                /\ \A i, j \in DOMAIN Tail(s) : Tail(s)[i] = Tail(s)[j] => i = j
                /\ ~InSeq(Head(s), Tail(s))
<1>1. /\ Len(s) \in Nat \ {0} /\ DOMAIN s = 1 .. Len(s)
      /\ DOMAIN Tail(s) = 1 .. Len(s) - 1
      /\ \A i \in 1 .. Len(s) - 1 : Tail(s)[i] = s[i + 1]
      /\ Head(s) = s[1] /\ Head(s) \in S
  BY HeadTailProperties, LenProperties, EmptySeq
<1>2. \A i \in DOMAIN s : i = 1 \/ (i - 1 \in DOMAIN Tail(s) /\ Tail(s)[i - 1] = s[i])
  BY <1>1
<1>3. \A i \in DOMAIN Tail(s) : i + 1 \in DOMAIN s /\ Tail(s)[i] = s[i + 1] /\ i + 1 # 1
  BY <1>1
<1>4. \A q : InSeq(q, s) <=> InSeq(q, Tail(s)) \/ q = Head(s)
  BY <1>1, <1>2, <1>3 DEF InSeq
<1>5. ASSUME \A i, j \in DOMAIN s : s[i] = s[j] => i = j
      PROVE  /\ \A i, j \in DOMAIN Tail(s) : Tail(s)[i] = Tail(s)[j] => i = j
             /\ ~InSeq(Head(s), Tail(s))
  <2>1. \A i, j \in DOMAIN Tail(s) : i \in Nat /\ j \in Nat /\ (i + 1 = j + 1 => i = j)
    BY <1>1
  <2>2. \A i, j \in DOMAIN Tail(s) : Tail(s)[i] = Tail(s)[j] => i = j
    BY <1>3, <1>5, <2>1
  <2>3. ~InSeq(Head(s), Tail(s))
    BY <1>1, <1>3, <1>5 DEF InSeq
  <2> QED
    BY <2>2, <2>3
<1> QED
  BY <1>1, <1>4, <1>5

\* A loss is of the records that are named, and of no others.
LEMMA LoseDrops ==
    ASSUME NEW kind, NEW S, Lose(kind, S)
    PROVE  \A q, k : Dropped(q, k)' <=> Dropped(q, k) \/ (k = kind /\ q \in S)
BY DEF Lose, Dropped

LEMMA NothingDrops ==
    ASSUME UNCHANGED lost
    PROVE  \A q, k : Dropped(q, k)' <=> Dropped(q, k)
BY DEF Dropped

\* A step of a handler concerns its own request, and only OnRequestStart makes
\* an entry.
LEMMA HandlerFrame ==
    ASSUME NoCollision, TypeOK, NEW r \in Requests, Handler(r)
    PROVE  /\ \A q \in Requests \ {r} :
                /\ call'[q] = call[q] /\ stage'[q] = stage[q]
                /\ conversations'[ReqID[q]] = conversations[ReqID[q]]
           /\ stage'[r] = "new" => stage[r] = "new"
           /\ ~OnRequestStart(r) =>
                (conversations'[ReqID[r]] # {} => conversations[ReqID[r]] # {})
<1>1. stage'[r] = "new" => stage[r] = "new"
  BY DEF Handler, OnRequestStart, OnToken, OnThinking, OnToolCalls,
     OnRequestComplete, OnError, HandlerReturn, Enqueue, EnqueueConversation,
     EnqueueMessage, EnqueueUpdate, Start, Token, Complete, Fail, Return, MoveTo,
     TypeOK, LifecycleTypeOK, lifecycleVars
<1>2. \A q \in Requests \ {r} : call'[q] = call[q] /\ stage'[q] = stage[q]
  BY DEF Handler, OnRequestStart, OnToken, OnThinking, OnToolCalls,
     OnRequestComplete, OnError, HandlerReturn, Enqueue, EnqueueConversation,
     EnqueueMessage, EnqueueUpdate, Start, Token, Complete, Fail, Return, MoveTo,
     Continue, TypeOK, LifecycleTypeOK, lifecycleVars, handlerVars
<1>3. CASE UNCHANGED conversations
  BY <1>1, <1>2, <1>3
<1>4. CASE OnRequestStart(r) \/ OnRequestComplete(r) \/ OnError(r)
  <2>1. PICK S : conversations' = [conversations EXCEPT ![ReqID[r]] = S]
    BY <1>4 DEF OnRequestStart, OnRequestComplete, OnError, Removed
  <2>2. ~OnRequestStart(r) => conversations' = [conversations EXCEPT ![ReqID[r]] = {}]
    BY <1>4 DEF OnRequestComplete, OnError, Removed
  <2> QED
    BY <1>1, <1>2, <2>1, <2>2, OtherEntries
<1>5. CASE OnToken(r) \/ OnThinking(r) \/ OnToolCalls(r)
  <2> DEFINE K == {AddToken(e, [of |-> r, n |-> sent[r] + 1]) :
                      e \in conversations[ReqID[r]]}
  <2> DEFINE T == {AddThinking(e, r) : e \in conversations[ReqID[r]]}
  <2> DEFINE C == {SetToolCalls(e, r) : e \in conversations[ReqID[r]]}
  <2>1. \/ conversations' = [conversations EXCEPT ![ReqID[r]] = K]
        \/ conversations' = [conversations EXCEPT ![ReqID[r]] = T]
        \/ conversations' = [conversations EXCEPT ![ReqID[r]] = C]
    BY <1>5 DEF OnToken, OnThinking, OnToolCalls
  <2>2. conversations[ReqID[r]] = {} => K = {} /\ T = {} /\ C = {}
    OBVIOUS
  <2> HIDE DEF K, T, C
  <2> QED
    BY <1>1, <1>2, <2>1, <2>2, OtherEntries
<1> QED
  BY <1>3, <1>4, <1>5 DEF Handler, HandlerReturn, handlerVars, Enqueue,
     EnqueueConversation, EnqueueMessage, EnqueueUpdate

\* A step of the writers, of Close or of nobody leaves the handlers' side.
LEMMA BackgroundFrame ==
    ASSUME ConversationWriter \/ UpdateWriter \/ MessageWriter \/ Close
           \/ UNCHANGED vars
    PROVE  UNCHANGED <<stage, sent, call, taken, conversations>>
BY BackgroundKeepsHandlers DEF lifecycleVars, handlerVars, vars

-----------------------------------------------------------------------------
(* The path of the conversation record.                                    *)

\* The steps that concern the conversation record.
ConvStep ==
    \/ \E r \in Requests : OnRequestStart(r) \/ EnqueueConversation(r)
    \/ ConvReceive \/ ConvWrite

\* No other step moves one.
LEMMA ConvQuiet ==
    ASSUME NoCollision, TypeOK, [Next]_vars, ~ConvStep
    PROVE  /\ UNCHANGED <<convCh, convHeld, convRows>>
           /\ \A q \in Requests :
                /\ Dropped(q, "conversation")' <=> Dropped(q, "conversation")
                /\ call'[q] = "conversation" <=> call[q] = "conversation"
                /\ stage'[q] = "new" => stage[q] = "new"
                /\ conversations'[ReqID[q]] # {} => conversations[ReqID[q]] # {}
<1>1. UNCHANGED <<convCh, convHeld, convRows>>
  BY DEF Next, ConvStep, Handler, OnToken, OnThinking, OnToolCalls,
     OnRequestComplete, OnError, HandlerReturn, Enqueue, EnqueueMessage,
     EnqueueUpdate, ConversationWriter, ConvExit, UpdateWriter, UpdReceive,
     UpdWrite, UpdExit, MessageWriter, MsgReceive, MsgTick, MsgCancelled, MsgDrain,
     MsgDrained, FlushBegin, FlushBeginFails, FlushExec, FlushCommit, Close, Cancel,
     CloseReturns, ProcessExit, frontVars, backVars, channelVars, rowVars, vars
<1>2. \/ UNCHANGED lost
      \/ \E S : Lose("message", S) \/ Lose("update", S)
  BY DEF Next, ConvStep, Handler, OnToken, OnThinking, OnToolCalls,
     OnRequestComplete, OnError, HandlerReturn, Enqueue, EnqueueMessage,
     EnqueueUpdate, ConversationWriter, ConvExit, UpdateWriter, UpdReceive,
     UpdWrite, UpdExit, MessageWriter, MsgReceive, MsgTick, MsgCancelled, MsgDrain,
     MsgDrained, FlushBegin, FlushBeginFails, FlushExec, FlushCommit, Close, Cancel,
     CloseReturns, ProcessExit, frontVars, backVars, vars
<1>3. \A q : Dropped(q, "conversation")' <=> Dropped(q, "conversation")
  BY <1>2, LoseDrops, NothingDrops
<1>4. ASSUME NEW r \in Requests, Handler(r), NEW q \in Requests
      PROVE  /\ call'[q] = "conversation" <=> call[q] = "conversation"
             /\ stage'[q] = "new" => stage[q] = "new"
             /\ conversations'[ReqID[q]] # {} => conversations[ReqID[q]] # {}
  <2>1. call'[r] = "conversation" <=> call[r] = "conversation"
    BY <1>4 DEF ConvStep, Handler, OnToken, OnThinking, OnToolCalls,
       OnRequestComplete, OnError, HandlerReturn, Enqueue, EnqueueMessage,
       EnqueueUpdate, Continue, Free, About, handlerVars, TypeOK
  <2> QED
    BY <1>4, <2>1, HandlerFrame DEF ConvStep
<1> QED
  BY <1>1, <1>3, <1>4, BackgroundFrame DEF Next

\* Every step keeps the conversation records on their path.
LEMMA ConvPathNext ==
    ASSUME NoCollision, TypeOK, ConvPath, [Next]_vars
    PROVE  ConvPath'
<1>1. CASE ~ConvStep
  BY <1>1, ConvQuiet DEF ConvPath
<1>2. ASSUME NEW r \in Requests, OnRequestStart(r) PROVE ConvPath'
  <2>1. /\ UNCHANGED <<convCh, convHeld, convRows, lost>>
        /\ stage[r] = "new" /\ stage'[r] = "open" /\ call'[r] = "conversation"
    BY <1>2 DEF OnRequestStart, Start, MoveTo, Continue, channelVars, backVars,
       rowVars, TypeOK, LifecycleTypeOK
  <2>2. \A q \in Requests \ {r} :
          /\ call'[q] = call[q] /\ stage'[q] = stage[q]
          /\ conversations'[ReqID[q]] = conversations[ReqID[q]]
    BY <1>2, HandlerFrame DEF Handler
  <2>3. \A q : Dropped(q, "conversation")' <=> Dropped(q, "conversation")
    BY <2>1, NothingDrops
  <2> QED
    BY <2>1, <2>2, <2>3 DEF ConvPath
<1>3. ASSUME NEW r \in Requests, EnqueueConversation(r) PROVE ConvPath'
  <2>1. /\ UNCHANGED <<convHeld, convRows, conversations, stage>>
        /\ call[r] = "conversation" /\ call'[r] = "none"
        /\ convCh \in Seq(Requests)
    BY <1>3 DEF EnqueueConversation, About, Continue, backVars, rowVars,
       lifecycleVars, TypeOK
  <2>2. \A q \in Requests \ {r} : call'[q] = call[q]
    BY <1>3, HandlerFrame DEF Handler, Enqueue
  <2>3. CASE convCh' = Append(convCh, r) /\ UNCHANGED lost
    <3>1. /\ \A q : InSeq(q, convCh)' <=> InSeq(q, convCh) \/ q = r
          /\ \A i, j \in DOMAIN convCh' : convCh'[i] = convCh'[j] => i = j
      BY <2>1, <2>3, QueueAppend DEF ConvPath
    <3>2. \A q : Dropped(q, "conversation")' <=> Dropped(q, "conversation")
      BY <2>3, NothingDrops
    <3> QED
      BY <2>1, <2>2, <3>1, <3>2 DEF ConvPath
  <2>4. CASE Lose("conversation", {r}) /\ UNCHANGED convCh
    <3>1. \A q : Dropped(q, "conversation")' <=> Dropped(q, "conversation") \/ q = r
      BY <2>4, LoseDrops
    <3> QED
      BY <2>1, <2>2, <2>4, <3>1 DEF ConvPath
  <2> QED
    BY <1>3, <2>3, <2>4 DEF EnqueueConversation
<1>4. CASE ConvReceive
  <2>1. /\ UNCHANGED <<call, stage, conversations, convRows, lost>>
        /\ convHeld = {} /\ convHeld' = {Head(convCh)}
        /\ convCh # <<>> /\ convCh' = Tail(convCh) /\ convCh \in Seq(Requests)
    BY <1>4 DEF ConvReceive, lifecycleVars, handlerVars, rowVars, TypeOK
  <2>2. /\ Head(convCh) \in Requests /\ InSeq(Head(convCh), convCh)
        /\ \A q : InSeq(q, convCh) <=> InSeq(q, convCh') \/ q = Head(convCh)
        /\ \A i, j \in DOMAIN convCh' : convCh'[i] = convCh'[j] => i = j
        /\ ~InSeq(Head(convCh), convCh')
    BY <2>1, QueueTail DEF ConvPath
  <2>3. \A q : Dropped(q, "conversation")' <=> Dropped(q, "conversation")
    BY <2>1, NothingDrops
  <2>4. \A q : InSeq(q, convCh)' <=> InSeq(q, convCh')
    BY DEF InSeq
  <2> QED
    BY <2>1, <2>2, <2>3, <2>4 DEF ConvPath
<1>5. CASE ConvWrite
  <2>1. /\ UNCHANGED <<call, stage, conversations, convCh>>
        /\ convHeld # {} /\ convHeld' = {}
    BY <1>5 DEF ConvWrite, lifecycleVars, handlerVars, channelVars
  <2>2. CASE convRows' = convRows \cup convHeld /\ UNCHANGED lost
    <3>1. \A q : Dropped(q, "conversation")' <=> Dropped(q, "conversation")
      BY <2>2, NothingDrops
    <3> QED
      BY <2>1, <2>2, <3>1 DEF ConvPath
  <2>3. CASE Lose("conversation", convHeld) /\ UNCHANGED convRows
    <3>1. \A q : Dropped(q, "conversation")'
                   <=> Dropped(q, "conversation") \/ q \in convHeld
      BY <2>3, LoseDrops
    <3> QED
      BY <2>1, <2>3, <3>1 DEF ConvPath
  <2> QED
    BY <1>5, <2>2, <2>3 DEF ConvWrite
<1> QED
  BY <1>1, <1>2, <1>3, <1>4, <1>5 DEF ConvStep

-----------------------------------------------------------------------------
(* The path of the message record.                                         *)

\* A step undoes no completion.
LEMMA CompletedStays ==
    ASSUME NoCollision, TypeOK, [Next]_vars
    PROVE  \A q \in Requests : Uncompleted(q)' => Uncompleted(q)
<1>1. ASSUME NEW r \in Requests, Handler(r), NEW q \in Requests, Uncompleted(q)'
      PROVE  Uncompleted(q)
  <2>1. OnRequestStart(r) => stage[r] = "new"
    BY DEF OnRequestStart, Start
  <2> QED
    BY <1>1, <2>1, HandlerFrame DEF Uncompleted
<1> QED
  BY <1>1, BackgroundFrame DEF Next, Uncompleted

\* OnRequestComplete takes the conversation off the map, if there is one.
LEMMA CompletionOf ==
    ASSUME NoCollision, TypeOK, NEW r \in Requests, OnRequestComplete(r)
    PROVE  /\ stage'[r] = "completed" /\ conversations'[ReqID[r]] = {}
           /\ ~Uncompleted(r)'
           /\ call[r] = "none" /\ call'[r] \in {"none", "message"}
           /\ call'[r] = "message" <=> conversations[ReqID[r]] # {}
           /\ \A q \in Requests \ {r} : call'[q] = call[q]
           /\ UNCHANGED <<channelVars, backVars, lost>>
<1>1. /\ stage'[r] = "completed" /\ conversations'[ReqID[r]] = {}
      /\ call[r] = "none"
      /\ call' = [call EXCEPT ![r] =
            IF conversations[ReqID[r]] = {} THEN "none" ELSE "message"]
      /\ UNCHANGED <<channelVars, backVars, lost>>
  BY OtherEntries DEF OnRequestComplete, Removed, Complete, MoveTo, Continue, Free,
     TypeOK, LifecycleTypeOK
<1> QED
  BY <1>1 DEF TypeOK, Uncompleted

\* The steps that concern the message record.
MsgStep ==
    \/ \E r \in Requests : OnRequestComplete(r) \/ EnqueueMessage(r)
    \/ MsgReceive \/ MsgDrain \/ FlushBeginFails \/ FlushCommit

\* No other step moves one.
LEMMA MsgQuiet ==
    ASSUME NoCollision, TypeOK, [Next]_vars, ~MsgStep
    PROVE  /\ UNCHANGED <<msgCh, batch, msgRows>>
           /\ \A q \in Requests :
                /\ Dropped(q, "message")' <=> Dropped(q, "message")
                /\ call'[q] = "message" <=> call[q] = "message"
<1>1. UNCHANGED <<msgCh, batch, msgRows>>
  BY DEF Next, MsgStep, Handler, OnRequestStart, OnToken, OnThinking, OnToolCalls,
     OnError, HandlerReturn, Enqueue, EnqueueConversation, EnqueueUpdate,
     ConversationWriter, ConvReceive, ConvWrite, ConvExit, UpdateWriter, UpdReceive,
     UpdWrite, UpdExit, MessageWriter, MsgTick, MsgCancelled, MsgDrained,
     FlushBegin, FlushExec, Close, Cancel, CloseReturns, ProcessExit, backVars,
     channelVars, rowVars, messageVars, vars
<1>2. \/ UNCHANGED lost
      \/ \E S : Lose("conversation", S) \/ Lose("update", S)
  BY DEF Next, MsgStep, Handler, OnRequestStart, OnToken, OnThinking, OnToolCalls,
     OnError, HandlerReturn, Enqueue, EnqueueConversation, EnqueueUpdate,
     ConversationWriter, ConvReceive, ConvWrite, ConvExit, UpdateWriter, UpdReceive,
     UpdWrite, UpdExit, MessageWriter, MsgTick, MsgCancelled, MsgDrained,
     FlushBegin, FlushExec, Close, Cancel, CloseReturns, ProcessExit, vars
<1>3. \A q : Dropped(q, "message")' <=> Dropped(q, "message")
  BY <1>2, LoseDrops, NothingDrops
<1>4. ASSUME NEW r \in Requests, Handler(r), NEW q \in Requests
      PROVE  call'[q] = "message" <=> call[q] = "message"
  <2>1. call'[r] = "message" <=> call[r] = "message"
    BY <1>4 DEF MsgStep, Handler, OnRequestStart, OnToken, OnThinking, OnToolCalls,
       OnError, HandlerReturn, Enqueue, EnqueueConversation, EnqueueUpdate,
       Continue, Free, About, handlerVars, TypeOK
  <2> QED
    BY <1>4, <2>1, HandlerFrame
<1> QED
  BY <1>1, <1>3, <1>4, BackgroundFrame DEF Next

\* The record that EnqueueMessage makes is its own.
LEMMA OwnMessage ==
    ASSUME TypeOK, HandlerInv, NEW r \in Requests, EnqueueMessage(r)
    PROVE  /\ call[r] = "message" /\ call'[r] = "update"
           /\ \A q \in Requests \ {r} : call'[q] = call[q]
           /\ UNCHANGED <<stage, sent, conversations, batch, msgRows>>
           /\ \/ /\ UNCHANGED lost
                 /\ \E m \in MessageRecord :
                      /\ m.conv = r /\ m.tokenCount = sent[r]
                      /\ msgCh' = Append(msgCh, m)
              \/ Lose("message", {r}) /\ UNCHANGED msgCh
<1>1. PICK e \in taken[r] :
          \/ msgCh' = Append(msgCh, MessageOf(e, sent[r])) /\ UNCHANGED lost
          \/ Lose("message", {e.id}) /\ UNCHANGED msgCh
  BY DEF EnqueueMessage
<1>2. e \in Conversation /\ sent[r] \in 0 .. MaxTokens /\ e.id = r
  BY DEF TypeOK, LifecycleTypeOK, HandlerInv, EntryFaithful
<1>3. /\ MessageOf(e, sent[r]) \in MessageRecord /\ MessageOf(e, sent[r]).conv = r
      /\ MessageOf(e, sent[r]).tokenCount = sent[r]
  BY <1>2, ConversationTypes DEF MessageOf
<1>4. /\ call[r] = "message" /\ call'[r] = "update"
      /\ \A q \in Requests \ {r} : call'[q] = call[q]
      /\ UNCHANGED <<stage, sent, conversations, batch, msgRows>>
  BY DEF EnqueueMessage, About, Continue, lifecycleVars, backVars, messageVars,
     rowVars, TypeOK
<1> HIDE DEF MessageOf
<1> QED
  BY <1>1, <1>2, <1>3, <1>4

\* What is read of a batch in the step that ends its transaction.
LEMMA FlushEnds ==
    ASSUME TypeOK, FlushCommit \/ FlushBeginFails
    PROVE  /\ UNCHANGED <<stage, sent, call, conversations, msgCh>> /\ Convs(batch') = {}
           /\ \/ /\ UNCHANGED lost /\ Convs(msgRows') = Convs(msgRows) \cup Convs(batch)
                 /\ FlushCommit /\ tx.ok /\ msgRows' = msgRows \o batch
              \/ Lose("message", Convs(batch)) /\ UNCHANGED msgRows
<1>1. UNCHANGED <<stage, sent, call, conversations, msgCh>> /\ batch' = <<>>
  BY DEF FlushCommit, FlushBeginFails, FlushOver, frontVars, lifecycleVars,
     handlerVars
<1>2. Convs(msgRows \o batch) = Convs(msgRows) \cup Convs(batch)
  BY PipelineType, ConvsConcat
<1> QED
  BY <1>1, <1>2, ConvsEmpty DEF FlushCommit, FlushBeginFails

\* Every step keeps the message records on their path.
LEMMA MsgPathNext ==
    ASSUME NoCollision, TypeOK, HandlerInv, MsgPath, [Next]_vars
    PROVE  MsgPath'
<1> USE CompletedStays
<1>1. CASE ~MsgStep
  BY <1>1, MsgQuiet DEF MsgPath, Convs, Distinct
<1>2. ASSUME NEW r \in Requests, OnRequestComplete(r) PROVE MsgPath'
  <2>1. UNCHANGED <<msgCh, batch, msgRows, lost>>
    BY <1>2, CompletionOf DEF channelVars, backVars, messageVars, rowVars
  <2>2. \A q : Dropped(q, "message")' <=> Dropped(q, "message")
    BY <2>1, NothingDrops
  <2>3. Convs(msgCh)' = Convs(msgCh) /\ Convs(batch)' = Convs(batch)
        /\ Convs(msgRows)' = Convs(msgRows) /\ Distinct(msgCh)' = Distinct(msgCh)
    BY <2>1 DEF Convs, Distinct
  <2>4. conversations[ReqID[r]] # {} => Uncompleted(r)
    BY DEF Uncompleted
  <2> QED
    BY <1>2, <2>2, <2>3, <2>4, CompletionOf DEF MsgPath
<1>3. ASSUME NEW r \in Requests, EnqueueMessage(r) PROVE MsgPath'
  <2>1. /\ call[r] = "message" /\ call'[r] = "update"
        /\ \A q \in Requests \ {r} : call'[q] = call[q]
        /\ UNCHANGED <<batch, msgRows>>
        /\ msgCh \in Seq(MessageRecord)
    BY <1>3, OwnMessage DEF TypeOK
  <2>2. Convs(batch)' = Convs(batch) /\ Convs(msgRows)' = Convs(msgRows)
    BY <2>1 DEF Convs
  <2>3. CASE UNCHANGED lost /\ \E m \in MessageRecord :
                m.conv = r /\ msgCh' = Append(msgCh, m)
    <3>1. Convs(msgCh)' = Convs(msgCh) \cup {r} /\ Distinct(msgCh)'
      BY <2>1, <2>3, ConvsAppend DEF MsgPath
    <3>2. \A q : Dropped(q, "message")' <=> Dropped(q, "message")
      BY <2>3, NothingDrops
    <3> QED
      BY <2>1, <2>2, <3>1, <3>2 DEF MsgPath
  <2>4. CASE Lose("message", {r}) /\ UNCHANGED msgCh
    <3>1. \A q : Dropped(q, "message")' <=> Dropped(q, "message") \/ q = r
      BY <2>4, LoseDrops
    <3>2. Convs(msgCh)' = Convs(msgCh) /\ Distinct(msgCh)' = Distinct(msgCh)
      BY <2>4 DEF Convs, Distinct
    <3> QED
      BY <2>1, <2>2, <3>1, <3>2 DEF MsgPath
  <2> QED
    BY <1>3, <2>3, <2>4, OwnMessage
<1>4. CASE MsgReceive \/ MsgDrain
  <2>1. /\ UNCHANGED <<call, msgRows, lost>>
        /\ batch' = Append(batch, Head(msgCh)) /\ msgCh # <<>> /\ msgCh' = Tail(msgCh)
        /\ msgCh \in Seq(MessageRecord) /\ batch \in Seq(MessageRecord)
    BY <1>4 DEF MsgReceive, MsgDrain, frontVars, handlerVars, TypeOK
  <2>2. /\ Head(msgCh) \in MessageRecord
        /\ Convs(msgCh) = Convs(msgCh)' \cup {Head(msgCh).conv}
        /\ Distinct(msgCh)' /\ Head(msgCh).conv \notin Convs(msgCh)'
    BY <2>1, ConvsTail DEF MsgPath
  <2>3. Convs(batch)' = Convs(batch) \cup {Head(msgCh).conv}
    BY <2>1, <2>2, ConvsAppend
  <2>4. /\ Convs(msgRows)' = Convs(msgRows)
        /\ \A q : Dropped(q, "message")' <=> Dropped(q, "message")
    BY <2>1, NothingDrops DEF Convs
  <2> QED
    BY <2>1, <2>2, <2>3, <2>4 DEF MsgPath
<1>5. CASE FlushCommit \/ FlushBeginFails
  <2>1. /\ UNCHANGED call /\ Convs(batch)' = {}
        /\ Convs(msgCh)' = Convs(msgCh) /\ Distinct(msgCh)' = Distinct(msgCh)
    BY <1>5, FlushEnds DEF Convs, Distinct
  <2>2. CASE UNCHANGED lost /\ Convs(msgRows)' = Convs(msgRows) \cup Convs(batch)
    <3>1. \A q : Dropped(q, "message")' <=> Dropped(q, "message")
      BY <2>2, NothingDrops
    <3> QED
      BY <2>1, <2>2, <3>1 DEF MsgPath
  <2>3. CASE Lose("message", Convs(batch)) /\ UNCHANGED msgRows
    <3>1. \A q : Dropped(q, "message")' <=> Dropped(q, "message") \/ q \in Convs(batch)
      BY <2>3, LoseDrops
    <3>2. Convs(msgRows)' = Convs(msgRows)
      BY <2>3 DEF Convs
    <3> QED
      BY <2>1, <3>1, <3>2 DEF MsgPath
  <2> QED
    BY <1>5, <2>2, <2>3, FlushEnds
<1> QED
  BY <1>1, <1>2, <1>3, <1>4, <1>5 DEF MsgStep

-----------------------------------------------------------------------------
(* The path of the update record.                                          *)

\* The steps that concern the update record.
UpdStep ==
    \/ \E r \in Requests : OnRequestComplete(r) \/ EnqueueUpdate(r)
    \/ UpdReceive \/ UpdWrite

\* A handler that has yet to send its update.
Completing(r) == call[r] \in {"message", "update"}

\* No other step moves one.
LEMMA UpdQuiet ==
    ASSUME NoCollision, TypeOK, [Next]_vars, ~UpdStep
    PROVE  /\ UNCHANGED <<updateCh, updHeld, endedRows>>
           /\ \A q \in Requests :
                /\ Dropped(q, "update")' <=> Dropped(q, "update")
                /\ Completing(q)' <=> Completing(q)
<1>1. UNCHANGED <<updateCh, updHeld, endedRows>>
  BY DEF Next, UpdStep, Handler, OnRequestStart, OnToken, OnThinking, OnToolCalls,
     OnError, HandlerReturn, Enqueue, EnqueueConversation, EnqueueMessage,
     ConversationWriter, ConvReceive, ConvWrite, ConvExit, UpdateWriter, UpdExit,
     MessageWriter, MsgReceive, MsgTick, MsgCancelled, MsgDrain, MsgDrained,
     FlushBegin, FlushBeginFails, FlushExec, FlushCommit, Close, Cancel,
     CloseReturns, ProcessExit, frontVars, backVars, channelVars, rowVars, vars
<1>2. \/ UNCHANGED lost
      \/ \E S : Lose("conversation", S) \/ Lose("message", S)
  BY DEF Next, UpdStep, Handler, OnRequestStart, OnToken, OnThinking, OnToolCalls,
     OnError, HandlerReturn, Enqueue, EnqueueConversation, EnqueueMessage,
     ConversationWriter, ConvReceive, ConvWrite, ConvExit, UpdateWriter, UpdExit,
     MessageWriter, MsgReceive, MsgTick, MsgCancelled, MsgDrain, MsgDrained,
     FlushBegin, FlushBeginFails, FlushExec, FlushCommit, Close, Cancel,
     CloseReturns, ProcessExit, vars
<1>3. \A q : Dropped(q, "update")' <=> Dropped(q, "update")
  BY <1>2, LoseDrops, NothingDrops
<1>4. ASSUME NEW r \in Requests, Handler(r), NEW q \in Requests
      PROVE  Completing(q)' <=> Completing(q)
  <2>1. Completing(r)' <=> Completing(r)
    BY <1>4 DEF UpdStep, Handler, OnRequestStart, OnToken, OnThinking, OnToolCalls,
       OnError, HandlerReturn, Enqueue, EnqueueConversation, EnqueueMessage,
       Continue, Free, About, handlerVars, TypeOK, Completing
  <2> QED
    BY <1>4, <2>1, HandlerFrame DEF Completing
<1> QED
  BY <1>1, <1>3, <1>4, BackgroundFrame DEF Next, Completing

\* The record that EnqueueUpdate makes is its own.
LEMMA OwnUpdate ==
    ASSUME TypeOK, HandlerInv, NEW r \in Requests, EnqueueUpdate(r)
    PROVE  /\ call[r] = "update" /\ call'[r] = "none"
           /\ \A q \in Requests \ {r} : call'[q] = call[q]
           /\ UNCHANGED <<stage, sent, conversations, updHeld, endedRows>>
           /\ \/ /\ UNCHANGED lost
                 /\ \E u \in ConversationUpdate :
                      /\ u.conv = r /\ u.totalTokens = sent[r]
                      /\ updateCh' = Append(updateCh, u)
              \/ Lose("update", {r}) /\ UNCHANGED updateCh
<1>1. PICK e \in taken[r] :
          \/ updateCh' = Append(updateCh, UpdateOf(e, sent[r])) /\ UNCHANGED lost
          \/ Lose("update", {e.id}) /\ UNCHANGED updateCh
  BY DEF EnqueueUpdate
<1>2. e \in Conversation /\ sent[r] \in 0 .. MaxTokens /\ e.id = r
  BY DEF TypeOK, LifecycleTypeOK, HandlerInv, EntryFaithful
<1>3. /\ UpdateOf(e, sent[r]) \in ConversationUpdate
      /\ UpdateOf(e, sent[r]).conv = r /\ UpdateOf(e, sent[r]).totalTokens = sent[r]
  BY <1>2 DEF UpdateOf, ConversationUpdate
<1>4. /\ call[r] = "update" /\ call'[r] = "none"
      /\ \A q \in Requests \ {r} : call'[q] = call[q]
      /\ UNCHANGED <<stage, sent, conversations, updHeld, endedRows>>
  BY DEF EnqueueUpdate, About, Continue, lifecycleVars, backVars, rowVars, TypeOK
<1> HIDE DEF UpdateOf
<1> QED
  BY <1>1, <1>2, <1>3, <1>4

\* What becomes of the update that is being written.
LEMMA UpdateEnds ==
    ASSUME TypeOK, UpdPath, UpdWrite
    PROVE  \E u \in ConversationUpdate :
              /\ updHeld = {u} /\ updHeld' = {}
              /\ UNCHANGED <<stage, sent, call, conversations, updateCh>>
              /\ \/ /\ UNCHANGED lost /\ u.conv \in convRows
                    /\ endedRows' = {x \in endedRows : x.conv # u.conv} \cup {u}
                    /\ \A q : OneOf(q, endedRows)'
                                <=> OneOf(q, endedRows) \/ q = u.conv
                 \/ Lose("update", {u.conv}) /\ UNCHANGED endedRows
<1>1. PICK u \in updHeld :
          \/ /\ u.conv \in convRows
             /\ endedRows' = {x \in endedRows : x.conv # u.conv} \cup {u}
             /\ UNCHANGED lost
          \/ Lose("update", {u.conv}) /\ UNCHANGED endedRows
  BY DEF UpdWrite
<1>2. u \in ConversationUpdate /\ updHeld = {u}
  BY DEF TypeOK, UpdPath
<1>3. /\ UNCHANGED <<stage, sent, call, conversations, updateCh>> /\ updHeld' = {}
  BY DEF UpdWrite, lifecycleVars, handlerVars, channelVars
<1>4. endedRows' = {x \in endedRows : x.conv # u.conv} \cup {u} =>
          \A q : OneOf(q, endedRows)' <=> OneOf(q, endedRows) \/ q = u.conv
  BY DEF OneOf
<1> QED
  BY <1>1, <1>2, <1>3, <1>4

\* updateWriter takes the oldest update.
LEMMA UpdateTaken ==
    ASSUME TypeOK, UpdPath, UpdReceive
    PROVE  \E u \in ConversationUpdate :
              /\ updHeld = {} /\ updHeld' = {u}
              /\ UNCHANGED <<stage, sent, call, conversations, endedRows, lost>>
              /\ u = Head(updateCh) /\ updateCh # <<>> /\ updateCh' = Tail(updateCh)
              /\ Convs(updateCh) = Convs(updateCh)' \cup {u.conv}
              /\ Distinct(updateCh)' /\ u.conv \notin Convs(updateCh)'
<1>1. /\ updHeld = {} /\ updHeld' = {Head(updateCh)}
      /\ updateCh # <<>> /\ updateCh' = Tail(updateCh)
      /\ UNCHANGED <<stage, sent, call, conversations, endedRows, lost>>
      /\ updateCh \in Seq(ConversationUpdate)
  BY DEF UpdReceive, lifecycleVars, handlerVars, rowVars, TypeOK
<1> QED
  BY <1>1, ConvsTail DEF UpdPath

\* Every step keeps the update records on their path.
LEMMA UpdPathNext ==
    ASSUME NoCollision, TypeOK, HandlerInv, UpdPath, [Next]_vars
    PROVE  UpdPath'
<1> USE CompletedStays DEF Completing
<1>1. CASE ~UpdStep
  <2>1. /\ UNCHANGED <<updateCh, updHeld, endedRows>>
        /\ \A q \in Requests : /\ Dropped(q, "update")' <=> Dropped(q, "update")
                               /\ Completing(q)' <=> Completing(q)
    BY <1>1, UpdQuiet
  <2> QED
    BY <2>1 DEF UpdPath, Convs, Distinct, OneOf
<1>2. ASSUME NEW r \in Requests, OnRequestComplete(r) PROVE UpdPath'
  <2>1. UNCHANGED <<updateCh, updHeld, endedRows, lost>>
    BY <1>2, CompletionOf DEF channelVars, backVars, rowVars
  <2>2. \A q : Dropped(q, "update")' <=> Dropped(q, "update")
    BY <2>1, NothingDrops
  <2>3. /\ Convs(updateCh)' = Convs(updateCh) /\ Distinct(updateCh)' = Distinct(updateCh)
        /\ \A q : /\ OneOf(q, updHeld)' <=> OneOf(q, updHeld)
                  /\ OneOf(q, endedRows)' <=> OneOf(q, endedRows)
    BY <2>1 DEF Convs, Distinct, OneOf
  <2>4. conversations[ReqID[r]] # {} => Uncompleted(r)
    BY DEF Uncompleted
  <2> QED
    BY <1>2, <2>1, <2>2, <2>3, <2>4, CompletionOf DEF UpdPath
<1>3. ASSUME NEW r \in Requests, EnqueueUpdate(r) PROVE UpdPath'
  <2>1. /\ call[r] = "update" /\ call'[r] = "none"
        /\ \A q \in Requests \ {r} : call'[q] = call[q]
        /\ UNCHANGED <<updHeld, endedRows>> /\ updateCh \in Seq(ConversationUpdate)
    BY <1>3, OwnUpdate DEF TypeOK
  <2>2. \A q : /\ OneOf(q, updHeld)' <=> OneOf(q, updHeld)
               /\ OneOf(q, endedRows)' <=> OneOf(q, endedRows)
    BY <2>1 DEF OneOf
  <2>3. CASE UNCHANGED lost /\ \E u \in ConversationUpdate :
                u.conv = r /\ updateCh' = Append(updateCh, u)
    <3>1. Convs(updateCh)' = Convs(updateCh) \cup {r} /\ Distinct(updateCh)'
      BY <2>1, <2>3, ConvsAppend DEF UpdPath
    <3>2. \A q : Dropped(q, "update")' <=> Dropped(q, "update")
      BY <2>3, NothingDrops
    <3> QED
      BY <2>1, <2>2, <3>1, <3>2 DEF UpdPath
  <2>4. CASE Lose("update", {r}) /\ UNCHANGED updateCh
    <3>1. \A q : Dropped(q, "update")' <=> Dropped(q, "update") \/ q = r
      BY <2>4, LoseDrops
    <3>2. Convs(updateCh)' = Convs(updateCh) /\ Distinct(updateCh)' = Distinct(updateCh)
      BY <2>4 DEF Convs, Distinct
    <3> QED
      BY <2>1, <2>2, <3>1, <3>2 DEF UpdPath
  <2> QED
    BY <1>3, <2>3, <2>4, OwnUpdate
<1>4. CASE UpdReceive
  <2>1. PICK u \in ConversationUpdate :
          /\ updHeld = {} /\ updHeld' = {u}
          /\ UNCHANGED <<call, endedRows, lost>>
          /\ Convs(updateCh) = Convs(updateCh)' \cup {u.conv}
          /\ Distinct(updateCh)' /\ u.conv \notin Convs(updateCh)'
    BY <1>4, UpdateTaken
  <2>2. \A q : /\ OneOf(q, updHeld)' <=> q = u.conv
               /\ OneOf(q, endedRows)' <=> OneOf(q, endedRows)
               /\ Dropped(q, "update")' <=> Dropped(q, "update")
    BY <2>1, NothingDrops DEF OneOf
  <2> QED
    BY <2>1, <2>2 DEF UpdPath
<1>5. CASE UpdWrite
  <2>1. PICK u \in ConversationUpdate :
          /\ updHeld = {u} /\ updHeld' = {} /\ UNCHANGED <<call, updateCh>>
          /\ \/ /\ UNCHANGED lost
                /\ \A q : OneOf(q, endedRows)' <=> OneOf(q, endedRows) \/ q = u.conv
             \/ Lose("update", {u.conv}) /\ UNCHANGED endedRows
    BY <1>5, UpdateEnds
  <2>2. /\ Convs(updateCh)' = Convs(updateCh) /\ Distinct(updateCh)' = Distinct(updateCh)
        /\ \A q : /\ OneOf(q, updHeld) <=> q = u.conv
                  /\ ~OneOf(q, updHeld)'
    BY <2>1 DEF Convs, Distinct, OneOf
  <2>3. CASE UNCHANGED lost /\ \A q : OneOf(q, endedRows)'
                                        <=> OneOf(q, endedRows) \/ q = u.conv
    <3>1. \A q : Dropped(q, "update")' <=> Dropped(q, "update")
      BY <2>3, NothingDrops
    <3> QED
      BY <2>1, <2>2, <2>3, <3>1 DEF UpdPath
  <2>4. CASE Lose("update", {u.conv}) /\ UNCHANGED endedRows
    <3>1. \A q : /\ Dropped(q, "update")' <=> Dropped(q, "update") \/ q = u.conv
                 /\ OneOf(q, endedRows)' <=> OneOf(q, endedRows)
      BY <2>4, LoseDrops DEF OneOf
    <3> QED
      BY <2>1, <2>2, <3>1 DEF UpdPath
  <2> QED
    BY <2>1, <2>3, <2>4
<1> QED
  BY <1>1, <1>2, <1>3, <1>4, <1>5 DEF UpdStep

\* At first there is no record.
LEMMA PathInvInit == Init => PathInv
<1> SUFFICES ASSUME Init PROVE PathInv
  OBVIOUS
<1>1. /\ convCh = <<>> /\ msgCh = <<>> /\ updateCh = <<>> /\ batch = <<>>
      /\ msgRows = <<>> /\ convHeld = {} /\ updHeld = {} /\ convRows = {}
      /\ endedRows = {} /\ lost = {}
      /\ \A r \in Requests : call[r] = "none" /\ conversations[ReqID[r]] = {}
  BY ReqIDAssumption DEF Init
<1> QED
  BY <1>1, ConvsEmpty DEF PathInv, ConvPath, MsgPath, UpdPath, Distinct, InSeq,
     OneOf, Dropped

\* Every step keeps the records on their paths.
LEMMA PathInvNext ==
    ASSUME NoCollision, TypeOK, HandlerInv, PathInv, [Next]_vars
    PROVE  PathInv'
BY ConvPathNext, MsgPathNext, UpdPathNext DEF PathInv

-----------------------------------------------------------------------------
(* Who has a conversation.  What follows holds whatever identifiers the    *)
(* requests draw: if two draw the same one, the conversation of one may be *)
(* completed by the handler of the other, but a conversation is still in   *)
(* one place at a time, and its records are still made together.           *)

\* The updates on their way or stored.
Updates == {updateCh[i] : i \in DOMAIN updateCh} \cup updHeld \cup endedRows

\* The requests whose conversation has been taken off the map.
OffMap ==
    {q \in Requests : stage[q] # "new" /\ \A e \in conversations[ReqID[q]] : e.id # q}

\* A conversation in the map is under its identifier, of a request that started.
MapInv ==
    \A i \in Ids : \A e \in conversations[i] :
        /\ ReqID[e.id] = i /\ stage[e.id] # "new"
        /\ \A f \in conversations[i] : f = e

\* A conversation taken off the map is with one handler, has no update yet, and
\* a message only of the handler's count.
TakenInv ==
    \A r \in Requests : \A e \in taken[r] :
        /\ call[r] \in {"message", "update"}
        /\ e.id \in OffMap
        /\ \A q \in Requests : \A f \in taken[q] : f.id = e.id => q = r /\ f = e
        /\ \A f \in taken[r] : f = e
        /\ \A u \in Updates : u.conv # e.id
        /\ \A i \in DOMAIN Pipeline :
              Pipeline[i].conv = e.id =>
                  call[r] = "update" /\ Pipeline[i].tokenCount = sent[r]

\* What has been sent is off the map; the records of one conversation agree.
SentInv ==
    /\ OneMessagePerConversation
    /\ \A u \in Updates : u.conv \in OffMap
    /\ \A i \in DOMAIN Pipeline : Pipeline[i].conv \in OffMap
    /\ \A u \in Updates : \A i \in DOMAIN Pipeline :
          Pipeline[i].conv = u.conv => Pipeline[i].tokenCount = u.totalTokens

CustodyInv == MapInv /\ TakenInv /\ SentInv

\* The messages stay where they are or come closer to the rows, or some go.
MessagesMove ==
    \A i, j \in DOMAIN Pipeline' : \E k, l \in DOMAIN Pipeline :
        /\ Pipeline'[i] = Pipeline[k] /\ Pipeline'[j] = Pipeline[l]
        /\ k = l => i = j

\* Only EnqueueMessage adds a message.
LEMMA MessagesStep ==
    ASSUME TypeOK, [Next]_vars
    PROVE  \/ MessagesMove
           \/ \E r \in Requests : /\ EnqueueMessage(r)
                                  /\ \E e \in taken[r] :
                                        Pipeline' = Append(Pipeline, MessageOf(e, sent[r]))
<1>1. CASE Pipeline' = Pipeline
  BY <1>1 DEF MessagesMove
<1>2. ASSUME NEW r \in Requests, EnqueueMessage(r), msgCh' # msgCh
      PROVE  \E e \in taken[r] : Pipeline' = Append(Pipeline, MessageOf(e, sent[r]))
  <2>1. PICK e \in taken[r] : msgCh' = Append(msgCh, MessageOf(e, sent[r]))
    BY <1>2 DEF EnqueueMessage
  <2>2. MessageOf(e, sent[r]) \in MessageRecord
    BY ConversationTypes DEF TypeOK, LifecycleTypeOK
  <2> QED
    BY <1>2, <2>1, <2>2, EnqueueAppends DEF EnqueueMessage, backVars, messageVars, rowVars
<1>3. CASE MsgReceive \/ MsgDrain
  BY <1>1, <1>3, ReceiveKeepsPipeline
<1>4. CASE FlushCommit \/ FlushBeginFails
  <2>1. /\ UNCHANGED msgCh /\ batch' = <<>>
        /\ msgRows' = msgRows \o batch \/ UNCHANGED msgRows
    BY <1>4 DEF FlushCommit, FlushBeginFails, FlushOver
  <2> QED
    BY <1>1, <2>1, StoreKeepsPipeline, LossShrinksPipeline DEF MessagesMove
<1>5. CASE UNCHANGED <<msgCh, batch, msgRows>>
  BY <1>1, <1>5 DEF Pipeline
<1>6. ASSUME NEW r \in Requests, Handler(r), ~(EnqueueMessage(r) /\ msgCh' # msgCh)
      PROVE  UNCHANGED <<msgCh, batch, msgRows>>
  BY <1>6 DEF Handler, OnRequestStart, OnToken, OnThinking, OnToolCalls,
     OnRequestComplete, OnError, HandlerReturn, Enqueue, EnqueueConversation,
     EnqueueMessage, EnqueueUpdate, channelVars, backVars, messageVars, rowVars
<1>7. CASE ConversationWriter \/ UpdateWriter \/ Close \/ UNCHANGED vars
           \/ MsgTick \/ MsgCancelled \/ MsgDrained \/ FlushBegin \/ FlushExec
  <2>1. UNCHANGED <<msgCh, batch, msgRows>>
    BY <1>7 DEF ConversationWriter, ConvReceive, ConvWrite, ConvExit,
       UpdateWriter, UpdReceive, UpdWrite, UpdExit, Close, Cancel, CloseReturns,
       ProcessExit, MsgTick, MsgCancelled, MsgDrained, FlushBegin, FlushExec,
       frontVars, vars, channelVars, messageVars, rowVars
  <2> QED
    BY <1>5, <2>1
<1> QED
  BY <1>2, <1>3, <1>4, <1>5, <1>6, <1>7 DEF Next, MessageWriter

\* Only EnqueueUpdate adds an update.
LEMMA UpdatesStep ==
    ASSUME TypeOK, [Next]_vars
    PROVE  \/ Updates' \subseteq Updates
           \/ \E r \in Requests : /\ EnqueueUpdate(r)
                                  /\ \E e \in taken[r] :
                                        Updates' \subseteq Updates \cup {UpdateOf(e, sent[r])}
<1>1. CASE UNCHANGED <<updateCh, updHeld, endedRows>>
  BY <1>1 DEF Updates
<1>2. ASSUME NEW r \in Requests, EnqueueUpdate(r), updateCh' # updateCh
      PROVE  \E e \in taken[r] : Updates' \subseteq Updates \cup {UpdateOf(e, sent[r])}
  <2>1. PICK e \in taken[r] : updateCh' = Append(updateCh, UpdateOf(e, sent[r]))
    BY <1>2 DEF EnqueueUpdate
  <2>2. UpdateOf(e, sent[r]) \in ConversationUpdate
    BY DEF TypeOK, LifecycleTypeOK, Conversation, UpdateOf, ConversationUpdate
  <2>3. updateCh \in Seq(ConversationUpdate) /\ UNCHANGED <<updHeld, endedRows>>
    BY <1>2 DEF EnqueueUpdate, backVars, rowVars, TypeOK
  <2> HIDE DEF UpdateOf
  <2>4. \A i \in DOMAIN updateCh' : \/ i \in DOMAIN updateCh /\ updateCh'[i] = updateCh[i]
                                    \/ updateCh'[i] = UpdateOf(e, sent[r])
    BY <2>1, <2>2, <2>3, AppendProperties
  <2> QED
    BY <2>3, <2>4 DEF Updates
<1>3. CASE UpdReceive
  <2>1. /\ UNCHANGED endedRows /\ updHeld' = {Head(updateCh)}
        /\ updateCh # <<>> /\ updateCh' = Tail(updateCh)
        /\ updateCh \in Seq(ConversationUpdate)
    BY <1>3 DEF UpdReceive, rowVars, TypeOK
  <2>2. /\ 1 \in DOMAIN updateCh /\ Head(updateCh) = updateCh[1]
        /\ \A i \in DOMAIN updateCh' : i + 1 \in DOMAIN updateCh
                                       /\ updateCh'[i] = updateCh[i + 1]
    BY <2>1, HeadTailProperties, LenProperties, EmptySeq
  <2> QED
    BY <2>1, <2>2 DEF Updates
<1>4. CASE UpdWrite
  <2>1. UNCHANGED updateCh /\ updHeld' = {} /\ endedRows' \subseteq endedRows \cup updHeld
    BY <1>4 DEF UpdWrite, channelVars
  <2> QED
    BY <2>1 DEF Updates
<1>5. ASSUME NEW r \in Requests, Handler(r), ~(EnqueueUpdate(r) /\ updateCh' # updateCh)
      PROVE  UNCHANGED <<updateCh, updHeld, endedRows>>
  BY <1>5 DEF Handler, OnRequestStart, OnToken, OnThinking, OnToolCalls,
     OnRequestComplete, OnError, HandlerReturn, Enqueue, EnqueueConversation,
     EnqueueMessage, EnqueueUpdate, channelVars, backVars, rowVars
<1>6. CASE ConversationWriter \/ UpdExit \/ MessageWriter \/ Close \/ UNCHANGED vars
  <2>1. UNCHANGED <<updateCh, updHeld, endedRows>>
    BY <1>6 DEF ConversationWriter, ConvReceive, ConvWrite, ConvExit, UpdExit,
       MessageWriter, MsgReceive, MsgTick, MsgCancelled, MsgDrain, MsgDrained,
       FlushBegin, FlushBeginFails, FlushExec, FlushCommit, Close, Cancel,
       CloseReturns, ProcessExit, frontVars, channelVars, rowVars, vars
  <2> QED
    BY <1>1, <2>1
<1> QED
  BY <1>1, <1>2, <1>3, <1>4, <1>5, <1>6 DEF Next, UpdateWriter

\* But for OnRequestStart, a step adds no conversation to the map.
MapKept ==
    \A i \in Ids :
        /\ \A e \in conversations'[i] : \E f \in conversations[i] : f.id = e.id
        /\ (\A e, f \in conversations[i] : e = f) =>
               \A e, f \in conversations'[i] : e = f

LEMMA MapStep ==
    ASSUME TypeOK, [Next]_vars
    PROVE  MapKept \/ \E r \in Requests : OnRequestStart(r)
<1>1. ASSUME UNCHANGED conversations PROVE MapKept
  BY <1>1 DEF MapKept
<1>2. ASSUME NEW r \in Requests, OnRequestComplete(r) \/ OnError(r) PROVE MapKept
  <2>1. conversations' = [conversations EXCEPT ![ReqID[r]] = {}]
    BY <1>2 DEF OnRequestComplete, OnError, Removed
  <2> QED
    BY <2>1 DEF MapKept, TypeOK
<1>3. ASSUME NEW r \in Requests, OnToken(r) \/ OnThinking(r) \/ OnToolCalls(r)
      PROVE  MapKept
  <2> DEFINE chunk == [of |-> r, n |-> sent[r] + 1]
  <2> DEFINE amended(e) == IF OnToken(r) THEN AddToken(e, chunk)
                           ELSE IF OnThinking(r) THEN AddThinking(e, r)
                           ELSE SetToolCalls(e, r)
  <2>1. conversations' = [conversations EXCEPT ![ReqID[r]] =
                              {amended(e) : e \in conversations[ReqID[r]]}]
    <3>1. CASE OnToken(r)
      BY <3>1 DEF OnToken
    <3>2. CASE ~OnToken(r) /\ OnThinking(r)
      BY <3>2 DEF OnThinking
    <3>3. CASE ~OnToken(r) /\ ~OnThinking(r)
      BY <1>3, <3>3 DEF OnToolCalls
    <3> QED
      BY <3>1, <3>2, <3>3
  <2>2. \A e \in Conversation : amended(e).id = e.id
    BY DEF AddToken, AddThinking, SetToolCalls, Conversation
  <2> HIDE DEF amended
  <2>3. \A i \in Ids :
          conversations'[i] = IF i = ReqID[r] THEN {amended(e) : e \in conversations[i]}
                              ELSE conversations[i]
    BY <2>1 DEF TypeOK
  <2>4. \A i \in Ids : conversations[i] \subseteq Conversation
    BY DEF TypeOK
  <2> SUFFICES ASSUME NEW i \in Ids
               PROVE  /\ \A e \in conversations'[i] :
                            \E f \in conversations[i] : f.id = e.id
                      /\ (\A e, f \in conversations[i] : e = f) =>
                            \A e, f \in conversations'[i] : e = f
    BY DEF MapKept
  <2>5. \/ conversations'[i] = {amended(e) : e \in conversations[i]}
        \/ conversations'[i] = conversations[i]
    BY <2>3
  <2> QED
    BY <2>2, <2>4, <2>5
<1>4. ASSUME NEW r \in Requests, Handler(r), ~OnRequestStart(r) PROVE MapKept
  <2>1. CASE HandlerReturn(r) \/ Enqueue(r)
    <3>1. UNCHANGED conversations
      BY <2>1 DEF HandlerReturn, Enqueue, EnqueueConversation, EnqueueMessage,
         EnqueueUpdate, handlerVars
    <3> QED
      BY <1>1, <3>1
  <2> QED
    BY <1>2, <1>3, <1>4, <2>1 DEF Handler
<1>5. CASE ConversationWriter \/ UpdateWriter \/ MessageWriter \/ Close
           \/ UNCHANGED vars
  BY <1>1, <1>5, BackgroundKeepsHandlers DEF handlerVars
<1> QED
  BY <1>4, <1>5 DEF Next

\* What OnRequestStart does to the map.
LEMMA StartsNew ==
    ASSUME TypeOK, NEW r \in Requests, OnRequestStart(r)
    PROVE  /\ stage[r] = "new" /\ stage'[r] = "open"
           /\ conversations'[ReqID[r]] = {NewConversation(r)}
           /\ NewConversation(r).id = r
           /\ \A i \in Ids \ {ReqID[r]} : conversations'[i] = conversations[i]
BY ReqIDAssumption
   DEF OnRequestStart, Start, MoveTo, NewConversation, TypeOK, LifecycleTypeOK

\* A request that has started has started for good.
LEMMA StartedStays ==
    ASSUME TypeOK, [Next]_vars, NEW q \in Requests, stage[q] # "new"
    PROVE  stage'[q] # "new"
<1>1. ASSUME NEW r \in Requests, Handler(r) PROVE stage'[q] # "new"
  BY <1>1 DEF Handler, OnRequestStart, OnToken, OnThinking, OnToolCalls,
     OnRequestComplete, OnError, HandlerReturn, Enqueue, EnqueueConversation,
     EnqueueMessage, EnqueueUpdate, Start, Token, Complete, Fail, Return, MoveTo,
     lifecycleVars, TypeOK, LifecycleTypeOK
<1> QED
  BY <1>1, BackgroundKeepsHandlers DEF Next, lifecycleVars, vars

\* A conversation that is off the map never comes back: each is made once.
LEMMA OffMapStays ==
    ASSUME TypeOK, [Next]_vars
    PROVE  OffMap \subseteq OffMap'
<1> SUFFICES ASSUME NEW q \in OffMap PROVE q \in OffMap'
  OBVIOUS
<1>1. q \in Requests /\ stage[q] # "new" /\ \A e \in conversations[ReqID[q]] : e.id # q
  BY DEF OffMap
<1>2. stage'[q] # "new" /\ ReqID[q] \in Ids
  BY <1>1, StartedStays, ReqIDAssumption
<1>3. CASE MapKept
  BY <1>1, <1>2, <1>3 DEF MapKept, OffMap
<1>4. ASSUME NEW r \in Requests, OnRequestStart(r) PROVE q \in OffMap'
  <2>1. r # q
    BY <1>1, <1>4, StartsNew
  <2> QED
    BY <1>1, <1>2, <1>4, <2>1, StartsNew DEF OffMap
<1> QED
  BY <1>3, <1>4, MapStep

\* A map entry is under the identifier of the request it was made for, alone.
LEMMA MapInvNext ==
    ASSUME TypeOK, MapInv, [Next]_vars
    PROVE  MapInv'
<1>1. \A i \in Ids : \A e \in conversations[i] : e.id \in Requests
  BY DEF TypeOK, Conversation
<1>2. CASE MapKept
  <2> SUFFICES ASSUME NEW i \in Ids, NEW e \in conversations'[i]
               PROVE  /\ ReqID[e.id] = i /\ stage'[e.id] # "new"
                      /\ \A f \in conversations'[i] : f = e
    BY DEF MapInv
  <2>1. PICK f \in conversations[i] : f.id = e.id
    BY <1>2 DEF MapKept
  <2>2. ReqID[e.id] = i /\ stage'[e.id] # "new"
    BY <1>1, <2>1, StartedStays DEF MapInv
  <2> QED
    BY <1>2, <2>2 DEF MapKept, MapInv
<1>3. ASSUME NEW r \in Requests, OnRequestStart(r) PROVE MapInv'
  <2> SUFFICES ASSUME NEW i \in Ids, NEW e \in conversations'[i]
               PROVE  /\ ReqID[e.id] = i /\ stage'[e.id] # "new"
                      /\ \A f \in conversations'[i] : f = e
    BY DEF MapInv
  <2>1. CASE i = ReqID[r]
    BY <1>3, <2>1, StartsNew
  <2>2. CASE i # ReqID[r]
    <3>1. conversations'[i] = conversations[i]
      BY <1>3, <2>2, StartsNew
    <3> QED
      BY <1>1, <3>1, StartedStays DEF MapInv
  <2> QED
    BY <2>1, <2>2
<1> QED
  BY <1>2, <1>3, MapStep

\* Records and conversations are of requests.
LEMMA OfRequests ==
    ASSUME TypeOK
    PROVE  /\ \A r \in Requests : \A e \in taken[r] : e.id \in Requests
           /\ \A i \in Ids : \A e \in conversations[i] : e.id \in Requests
           /\ \A u \in Updates : u.conv \in Requests
           /\ \A i \in DOMAIN Pipeline : Pipeline[i].conv \in Requests
<1>1. \A u \in Updates : u \in ConversationUpdate
  BY DEF TypeOK, Updates
<1> QED
  BY <1>1, PipelineType DEF TypeOK, Conversation, ConversationUpdate

\* The steps that neither take a conversation off the map nor send a record of
\* one leave the handlers that have one alone.
LEMMA HandsStep ==
    ASSUME TypeOK, TakenInv, [Next]_vars
    PROVE  \/ /\ taken' = taken /\ MessagesMove /\ Updates' \subseteq Updates
              /\ \A q \in Requests :
                    taken[q] # {} => call'[q] = call[q] /\ sent'[q] = sent[q]
           \/ \E r \in Requests :
                 OnRequestComplete(r) \/ EnqueueMessage(r) \/ EnqueueUpdate(r)
<1> SUFFICES ASSUME \A r \in Requests :
                        ~OnRequestComplete(r) /\ ~EnqueueMessage(r) /\ ~EnqueueUpdate(r)
             PROVE  /\ taken' = taken
                    /\ \A q \in Requests :
                          taken[q] # {} => call'[q] = call[q] /\ sent'[q] = sent[q]
  BY MessagesStep, UpdatesStep
<1>1. ASSUME NEW r \in Requests, Handler(r)
      PROVE  /\ taken' = taken /\ call[r] \in {"none", "conversation"}
             /\ \A q \in Requests \ {r} : call'[q] = call[q] /\ sent'[q] = sent[q]
  BY <1>1 DEF Handler, OnRequestStart, OnToken, OnThinking, OnToolCalls, OnError,
     HandlerReturn, Enqueue, EnqueueConversation, Start, Token, Fail, Return,
     MoveTo, Continue, Free, About, handlerVars, lifecycleVars, TypeOK,
     LifecycleTypeOK
<1>2. ASSUME NEW r \in Requests, call[r] \in {"none", "conversation"}
      PROVE  taken[r] = {}
  BY <1>2 DEF TakenInv
<1> QED
  BY <1>1, <1>2, BackgroundKeepsHandlers DEF Next, handlerVars, lifecycleVars, vars

\* A completion takes a conversation off the map that nobody else has and that
\* has no record of its end yet.
LEMMA CompletionTakes ==
    ASSUME TypeOK, CustodyInv, NEW r \in Requests, OnRequestComplete(r)
    PROVE  /\ taken[r] = {} /\ taken'[r] = conversations[ReqID[r]]
           /\ \A q \in Requests \ {r} : taken'[q] = taken[q] /\ call'[q] = call[q]
           /\ sent' = sent /\ Pipeline' = Pipeline /\ Updates' = Updates
           /\ taken'[r] # {} => call'[r] = "message"
           /\ \A e \in taken'[r] :
                /\ e.id \in Requests /\ e.id \in OffMap' /\ e.id \notin OffMap
                /\ \A f \in taken'[r] : f = e
<1>1. /\ taken' = [taken EXCEPT ![r] = conversations[ReqID[r]]]
      /\ conversations' = [conversations EXCEPT ![ReqID[r]] = {}]
      /\ call[r] = "none" /\ sent' = sent
      /\ call' = [call EXCEPT ![r] =
                     IF conversations[ReqID[r]] = {} THEN "none" ELSE "message"]
      /\ stage' = [stage EXCEPT ![r] = "completed"]
  BY DEF OnRequestComplete, Removed, Continue, Free, Complete, MoveTo
<1>2. UNCHANGED <<msgRows, batch, msgCh, updateCh, updHeld, endedRows>>
  BY DEF OnRequestComplete, channelVars, backVars, messageVars, rowVars
<1>3. taken[r] = {}
  BY <1>1 DEF CustodyInv, TakenInv
<1>4. ASSUME NEW e \in conversations[ReqID[r]]
      PROVE  /\ e.id \in Requests /\ e.id \in OffMap' /\ e.id \notin OffMap
             /\ \A f \in conversations[ReqID[r]] : f = e
  <2>1. ReqID[r] \in Ids /\ e.id \in Requests
    BY ReqIDAssumption, OfRequests
  <2>2. /\ ReqID[e.id] = ReqID[r] /\ stage[e.id] # "new"
        /\ \A f \in conversations[ReqID[r]] : f = e
    BY <2>1 DEF CustodyInv, MapInv
  <2>3. conversations'[ReqID[e.id]] = {} /\ stage'[e.id] # "new"
    BY <1>1, <2>1, <2>2 DEF TypeOK, LifecycleTypeOK
  <2> QED
    BY <2>1, <2>2, <2>3 DEF OffMap
<1>5. taken'[r] = conversations[ReqID[r]]
  BY <1>1 DEF TypeOK
<1>6. \A q \in Requests \ {r} : taken'[q] = taken[q] /\ call'[q] = call[q]
  BY <1>1 DEF TypeOK
<1>7. taken'[r] # {} => call'[r] = "message"
  BY <1>1, <1>5 DEF TypeOK
<1> QED
  BY <1>1, <1>2, <1>3, <1>4, <1>5, <1>6, <1>7 DEF Pipeline, Updates

\* EnqueueMessage sends a message of the conversation in hand, with the count of
\* the handler, and no update.
LEMMA MessageSends ==
    ASSUME TypeOK, CustodyInv, NEW r \in Requests, EnqueueMessage(r)
    PROVE  /\ taken' = taken /\ sent' = sent
           /\ call[r] = "message" /\ call'[r] = "update"
           /\ \A q \in Requests \ {r} : call'[q] = call[q]
           /\ Updates' = Updates
           /\ \/ MessagesMove
              \/ \E e \in taken[r] : \E m \in MessageRecord :
                    /\ m.conv = e.id /\ m.tokenCount = sent[r]
                    /\ Pipeline' = Append(Pipeline, m)
<1>1. /\ taken' = taken /\ sent' = sent
      /\ call[r] = "message" /\ call' = [call EXCEPT ![r] = "update"]
      /\ UNCHANGED <<updateCh, updHeld, endedRows>>
  BY DEF EnqueueMessage, About, Continue, backVars, rowVars, lifecycleVars
<1>2. Updates' = Updates
  BY <1>1 DEF Updates
<1>3. ASSUME NEW q \in Requests, EnqueueMessage(q) PROVE q = r
  <2>1. call'[q] = "update" /\ call[q] = "message"
    BY <1>3 DEF EnqueueMessage, About, Continue, TypeOK
  <2> QED
    BY <1>1, <2>1 DEF TypeOK
<1>4. \A e \in taken[r] :
         /\ MessageOf(e, sent[r]) \in MessageRecord
         /\ MessageOf(e, sent[r]).conv = e.id
         /\ MessageOf(e, sent[r]).tokenCount = sent[r]
  BY ConversationTypes DEF TypeOK, LifecycleTypeOK, MessageOf
<1>5. \/ MessagesMove
      \/ \E e \in taken[r] : Pipeline' = Append(Pipeline, MessageOf(e, sent[r]))
  <2>1. [Next]_vars
    BY DEF Next, Handler, Enqueue
  <2> QED
    BY <1>3, <2>1, MessagesStep
<1>6. call'[r] = "update" /\ \A q \in Requests \ {r} : call'[q] = call[q]
  BY <1>1 DEF TypeOK
<1> QED
  BY <1>1, <1>2, <1>4, <1>5, <1>6

\* EnqueueUpdate sends an update of it, with the same count, and the conversation
\* is no longer in hand.
LEMMA UpdateSends ==
    ASSUME TypeOK, CustodyInv, NEW r \in Requests, EnqueueUpdate(r)
    PROVE  /\ taken'[r] = {} /\ sent' = sent /\ call[r] = "update"
           /\ \A q \in Requests \ {r} : taken'[q] = taken[q] /\ call'[q] = call[q]
           /\ Pipeline' = Pipeline
           /\ \/ Updates' \subseteq Updates
              \/ \E e \in taken[r] : \E u \in ConversationUpdate :
                    /\ u.conv = e.id /\ u.totalTokens = sent[r]
                    /\ Updates' \subseteq Updates \cup {u}
<1>1. /\ taken' = [taken EXCEPT ![r] = {}] /\ sent' = sent
      /\ call[r] = "update" /\ call' = [call EXCEPT ![r] = "none"]
      /\ UNCHANGED <<msgRows, batch, msgCh>>
  BY DEF EnqueueUpdate, About, Continue, backVars, messageVars, rowVars, lifecycleVars
<1>2. Pipeline' = Pipeline
  BY <1>1 DEF Pipeline
<1>3. ASSUME NEW q \in Requests, EnqueueUpdate(q) PROVE q = r
  <2>1. call'[q] = "none" /\ call[q] = "update"
    BY <1>3 DEF EnqueueUpdate, About, Continue, TypeOK
  <2> QED
    BY <1>1, <2>1 DEF TypeOK
<1>4. \A e \in taken[r] :
         /\ UpdateOf(e, sent[r]) \in ConversationUpdate
         /\ UpdateOf(e, sent[r]).conv = e.id
         /\ UpdateOf(e, sent[r]).totalTokens = sent[r]
  BY DEF TypeOK, LifecycleTypeOK, Conversation, UpdateOf, ConversationUpdate
<1>5. \/ Updates' \subseteq Updates
      \/ \E e \in taken[r] : Updates' \subseteq Updates \cup {UpdateOf(e, sent[r])}
  <2>1. [Next]_vars
    BY DEF Next, Handler, Enqueue
  <2> QED
    BY <1>3, <2>1, UpdatesStep
<1>6. taken'[r] = {} /\ \A q \in Requests \ {r} : taken'[q] = taken[q] /\ call'[q] = call[q]
  BY <1>1 DEF TypeOK
<1> QED
  BY <1>1, <1>2, <1>4, <1>5, <1>6

\* A longer pipeline has one more message.
LEMMA OneMore ==
    ASSUME TypeOK, NEW m \in MessageRecord, Pipeline' = Append(Pipeline, m)
    PROVE  \A i \in DOMAIN Pipeline' :
              \/ i \in DOMAIN Pipeline /\ Pipeline'[i] = Pipeline[i]
              \/ i = Len(Pipeline) + 1 /\ Pipeline'[i] = m
BY PipelineType, AppendProperties, LenProperties

\* A message of the next state that is not just being sent was there before.
LEMMA MessageWas ==
    ASSUME TypeOK, MessagesMove, NEW i \in DOMAIN Pipeline'
    PROVE  \E k \in DOMAIN Pipeline : Pipeline'[i] = Pipeline[k]
BY DEF MessagesMove

\* Every step keeps apart what the handlers have in hand.
LEMMA TakenInvNext ==
    ASSUME TypeOK, CustodyInv, [Next]_vars
    PROVE  TakenInv'
<1> DEFINE Hand(r, e) ==
              /\ call'[r] \in {"message", "update"}
              /\ e.id \in OffMap'
              /\ \A q \in Requests : \A f \in taken'[q] : f.id = e.id => q = r /\ f = e
              /\ \A f \in taken'[r] : f = e
              /\ \A u \in Updates' : u.conv # e.id
              /\ \A i \in DOMAIN Pipeline' :
                    Pipeline'[i].conv = e.id =>
                        call'[r] = "update" /\ Pipeline'[i].tokenCount = sent'[r]
<1>1. (\A r \in Requests : \A e \in taken'[r] : Hand(r, e)) => TakenInv'
  BY DEF TakenInv
<1>2. \A r \in Requests : \A e \in taken[r] : e.id \in Requests /\ e.id \in OffMap'
  BY OfRequests, OffMapStays DEF CustodyInv, TakenInv
<1>3. CASE /\ taken' = taken /\ MessagesMove /\ Updates' \subseteq Updates
           /\ \A q \in Requests :
                 taken[q] # {} => call'[q] = call[q] /\ sent'[q] = sent[q]
  <2> SUFFICES ASSUME NEW r \in Requests, NEW e \in taken'[r] PROVE Hand(r, e)
    BY <1>1
  <2>1. e \in taken[r] /\ call'[r] = call[r] /\ sent'[r] = sent[r]
    BY <1>3
  <2>2. \A i \in DOMAIN Pipeline' :
            Pipeline'[i].conv = e.id =>
                call'[r] = "update" /\ Pipeline'[i].tokenCount = sent'[r]
    BY <1>3, <2>1, MessageWas DEF CustodyInv, TakenInv
  <2> QED
    BY <1>2, <1>3, <2>1, <2>2 DEF CustodyInv, TakenInv
<1>4. ASSUME NEW r \in Requests, OnRequestComplete(r) PROVE TakenInv'
  <2> SUFFICES ASSUME NEW q \in Requests, NEW e \in taken'[q] PROVE Hand(q, e)
    BY <1>1
  <2>1. CASE q = r
    <3>1. /\ call'[r] = "message" /\ e.id \in OffMap' /\ e.id \notin OffMap
          /\ \A f \in taken'[r] : f = e
      BY <1>4, <2>1, CompletionTakes
    <3>2. /\ \A p \in Requests \ {r} : \A f \in taken[p] : f.id # e.id
          /\ \A u \in Updates : u.conv # e.id
          /\ \A i \in DOMAIN Pipeline : Pipeline[i].conv # e.id
      BY <3>1 DEF CustodyInv, TakenInv, SentInv
    <3> QED
      BY <1>4, <2>1, <3>1, <3>2, CompletionTakes
  <2>2. CASE q # r
    <3>1. e \in taken[q] /\ call'[q] = call[q] /\ sent'[q] = sent[q]
      BY <1>4, <2>2, CompletionTakes
    <3>2. \A f \in taken'[r] : f.id # e.id
      BY <1>4, <3>1, CompletionTakes DEF CustodyInv, TakenInv
    <3> QED
      BY <1>2, <1>4, <2>2, <3>1, <3>2, CompletionTakes DEF CustodyInv, TakenInv
  <2> QED
    BY <2>1, <2>2
<1>5. ASSUME NEW r \in Requests, EnqueueMessage(r) PROVE TakenInv'
  <2> SUFFICES ASSUME NEW q \in Requests, NEW e \in taken'[q] PROVE Hand(q, e)
    BY <1>1
  <2>1. /\ taken' = taken /\ sent' = sent /\ Updates' = Updates
        /\ e \in taken[q] /\ call'[q] \in {"message", "update"}
        /\ q # r => call'[q] = call[q]
    BY <1>5, MessageSends DEF CustodyInv, TakenInv
  <2>2. ASSUME NEW k \in DOMAIN Pipeline, Pipeline[k].conv = e.id
        PROVE  call'[q] = "update" /\ Pipeline[k].tokenCount = sent'[q]
    BY <1>5, <2>1, <2>2, MessageSends DEF CustodyInv, TakenInv
  <2>3. \A i \in DOMAIN Pipeline' :
            Pipeline'[i].conv = e.id =>
                call'[q] = "update" /\ Pipeline'[i].tokenCount = sent'[q]
    <3>1. CASE MessagesMove
      BY <2>2, <3>1, MessageWas
    <3>2. ASSUME NEW f \in taken[r], NEW m \in MessageRecord,
                 m.conv = f.id, m.tokenCount = sent[r],
                 Pipeline' = Append(Pipeline, m)
          PROVE  \A i \in DOMAIN Pipeline' :
                    Pipeline'[i].conv = e.id =>
                        call'[q] = "update" /\ Pipeline'[i].tokenCount = sent'[q]
      <4>1. m.conv = e.id => q = r
        <5>1. \A p \in Requests : \A g \in taken[p] : g.id = f.id => p = r
          BY <1>5, <3>2 DEF CustodyInv, TakenInv
        <5> QED
          BY <2>1, <3>2, <5>1
      <4>2. \A i \in DOMAIN Pipeline' :
                \/ i \in DOMAIN Pipeline /\ Pipeline'[i] = Pipeline[i]
                \/ Pipeline'[i] = m
        BY <3>2, OneMore
      <4> QED
        BY <1>5, <2>1, <2>2, <3>2, <4>1, <4>2, MessageSends
    <3> QED
      BY <1>5, <3>1, <3>2, MessageSends
  <2> QED
    BY <1>2, <2>1, <2>3 DEF CustodyInv, TakenInv
<1>6. ASSUME NEW r \in Requests, EnqueueUpdate(r) PROVE TakenInv'
  <2> SUFFICES ASSUME NEW q \in Requests, NEW e \in taken'[q] PROVE Hand(q, e)
    BY <1>1
  <2>1. /\ q # r /\ e \in taken[q] /\ call'[q] = call[q] /\ sent'[q] = sent[q]
        /\ \A p \in Requests : taken'[p] \subseteq taken[p]
        /\ Pipeline' = Pipeline
    BY <1>6, UpdateSends
  <2>2. \A f \in taken[r] : f.id # e.id
    BY <2>1 DEF CustodyInv, TakenInv
  <2>3. \A u \in Updates' : u.conv # e.id
    BY <1>6, <2>1, <2>2, UpdateSends DEF CustodyInv, TakenInv
  <2> QED
    BY <1>2, <2>1, <2>3 DEF CustodyInv, TakenInv
<1> QED
  BY <1>3, <1>4, <1>5, <1>6, HandsStep DEF CustodyInv

\* Every step keeps the records in agreement, and one message of each.
LEMMA SentInvNext ==
    ASSUME TypeOK, CustodyInv, [Next]_vars
    PROVE  SentInv'
<1>1. /\ \A u \in Updates : u.conv \in OffMap'
      /\ \A k \in DOMAIN Pipeline : Pipeline[k].conv \in OffMap'
  BY OffMapStays DEF CustodyInv, SentInv
<1>2. ASSUME MessagesMove, Updates' \subseteq Updates PROVE SentInv'
  <2>1. OneMessagePerConversation'
    <3> SUFFICES ASSUME NEW i \in DOMAIN Pipeline', NEW j \in DOMAIN Pipeline',
                        Pipeline'[i].conv = Pipeline'[j].conv
                 PROVE  i = j
      BY DEF OneMessagePerConversation
    <3> QED
      BY <1>2 DEF MessagesMove, CustodyInv, SentInv, OneMessagePerConversation
  <2>2. \A i \in DOMAIN Pipeline' : \E k \in DOMAIN Pipeline : Pipeline'[i] = Pipeline[k]
    BY <1>2, MessageWas
  <2>3. \A i \in DOMAIN Pipeline' : Pipeline'[i].conv \in OffMap'
    BY <1>1, <2>2
  <2>4. \A u \in Updates' : \A i \in DOMAIN Pipeline' :
            Pipeline'[i].conv = u.conv => Pipeline'[i].tokenCount = u.totalTokens
    BY <1>2, <2>2 DEF CustodyInv, SentInv
  <2> QED
    BY <1>1, <1>2, <2>1, <2>3, <2>4 DEF SentInv
<1>3. ASSUME NEW r \in Requests, EnqueueMessage(r), NEW e \in taken[r],
             NEW m \in MessageRecord, m.conv = e.id, m.tokenCount = sent[r],
             Pipeline' = Append(Pipeline, m)
      PROVE  SentInv'
  <2>1. call[r] = "message" /\ Updates' = Updates
    BY <1>3, MessageSends
  <2>2. /\ m.conv \in OffMap'
        /\ \A u \in Updates : u.conv # m.conv
        /\ \A k \in DOMAIN Pipeline : Pipeline[k].conv # m.conv
    BY <1>3, <2>1, OffMapStays DEF CustodyInv, TakenInv
  <2>3. \A i \in DOMAIN Pipeline' :
            \/ i \in DOMAIN Pipeline /\ Pipeline'[i] = Pipeline[i]
            \/ i = Len(Pipeline) + 1 /\ Pipeline'[i] = m
    BY <1>3, OneMore
  <2>4. OneMessagePerConversation'
    BY <2>2, <2>3 DEF CustodyInv, SentInv, OneMessagePerConversation
  <2>5. \A i \in DOMAIN Pipeline' : Pipeline'[i].conv \in OffMap'
    BY <1>1, <2>2, <2>3
  <2>6. \A u \in Updates' : \A i \in DOMAIN Pipeline' :
            Pipeline'[i].conv = u.conv => Pipeline'[i].tokenCount = u.totalTokens
    BY <2>1, <2>2, <2>3 DEF CustodyInv, SentInv
  <2> QED
    BY <1>1, <2>1, <2>4, <2>5, <2>6 DEF SentInv
<1>4. ASSUME NEW r \in Requests, EnqueueUpdate(r), NEW e \in taken[r],
             NEW v \in ConversationUpdate, v.conv = e.id, v.totalTokens = sent[r],
             Updates' \subseteq Updates \cup {v}
      PROVE  SentInv'
  <2>1. Pipeline' = Pipeline
    BY <1>4, UpdateSends
  <2>2. v.conv \in OffMap'
    BY <1>4, OffMapStays DEF CustodyInv, TakenInv
  <2>3. \A i \in DOMAIN Pipeline :
            Pipeline[i].conv = v.conv => Pipeline[i].tokenCount = v.totalTokens
    BY <1>4 DEF CustodyInv, TakenInv
  <2> QED
    BY <1>1, <1>4, <2>1, <2>2, <2>3
       DEF CustodyInv, SentInv, OneMessagePerConversation
<1>5. ASSUME Pipeline' = Pipeline PROVE MessagesMove
  BY <1>5 DEF MessagesMove
<1>6. ASSUME NEW r \in Requests, OnRequestComplete(r) PROVE SentInv'
  BY <1>2, <1>5, <1>6, CompletionTakes
<1>7. ASSUME NEW r \in Requests, EnqueueMessage(r) PROVE SentInv'
  BY <1>2, <1>3, <1>7, MessageSends
<1>8. ASSUME NEW r \in Requests, EnqueueUpdate(r) PROVE SentInv'
  BY <1>2, <1>4, <1>5, <1>8, UpdateSends
<1> QED
  BY <1>2, <1>6, <1>7, <1>8, HandsStep DEF CustodyInv

\* The invariant holds of every behaviour, whatever the identifiers.
LEMMA CustodyHolds == Spec => [](TypeOK /\ CustodyInv)
<1>1. Init => TypeOK /\ CustodyInv
  <2> SUFFICES ASSUME Init PROVE CustodyInv
    BY InitType
  <2>1. Pipeline = <<>>
    <3>1. <<>> \o <<>> = <<>>
      BY ConcatEmptySeq, EmptySeqType
    <3> QED
      BY <3>1 DEF Init, Pipeline
  <2>2. Updates = {}
    BY DEF Init, Updates
  <2> QED
    BY <2>1, <2>2
       DEF Init, CustodyInv, MapInv, TakenInv, SentInv, OneMessagePerConversation
<1>2. (TypeOK /\ CustodyInv) /\ [Next]_vars => (TypeOK /\ CustodyInv)'
  BY NextType, MapInvNext, TakenInvNext, SentInvNext DEF CustodyInv
<1> QED
  BY <1>1, <1>2, PTL DEF Spec

\* A second done line, a late one or an error after it never makes a second
\* message of a conversation, whatever the writers have done with the first and
\* whatever identifiers the requests drew (database_hook.go:155-202).
THEOREM NoDuplicateMessage == Spec => []OneMessagePerConversation
<1>1. CustodyInv => OneMessagePerConversation
  BY DEF CustodyInv, SentInv
<1> QED
  BY <1>1, CustodyHolds, PTL

\* The two rows a conversation leaves have the same number of tokens, for any
\* number of requests, tokens and records on their way, and though two requests
\* may have drawn the same identifier (database_hook.go:182, 196).
THEOREM TotalsAgree == Spec => []RowsAgree
<1>1. TypeOK /\ CustodyInv => RowsAgree
  <2> SUFFICES ASSUME TypeOK, CustodyInv, NEW u \in endedRows, NEW i \in DOMAIN msgRows,
                      msgRows[i].conv = u.conv
               PROVE  msgRows[i].tokenCount = u.totalTokens
    BY DEF RowsAgree
  <2>1. u \in Updates
    BY DEF Updates
  <2>2. i \in DOMAIN Pipeline /\ Pipeline[i] = msgRows[i]
    <3>1. i \in DOMAIN (msgRows \o batch) /\ (msgRows \o batch)[i] = msgRows[i]
      BY PipelineType, ConcatProperties, LenProperties
    <3> QED
      BY <3>1, PipelineType, ConcatProperties, LenProperties DEF Pipeline
  <2> QED
    BY <2>1, <2>2 DEF CustodyInv, SentInv
<1> QED
  BY <1>1, CustodyHolds, PTL

\* What EnqueueMessage and EnqueueUpdate find in the hand of their handler: one
\* conversation, so that neither is ever without a step to take.
HandInv ==
    \A r \in Requests :
        call[r] \in {"message", "update"} => \E e : taken[r] = {e}

LEMMA HandInvNext ==
    ASSUME TypeOK, CustodyInv, HandInv, [Next]_vars
    PROVE  HandInv'
<1> SUFFICES ASSUME NEW q \in Requests, call'[q] \in {"message", "update"}
             PROVE  \E e : taken'[q] = {e}
  BY DEF HandInv
<1>1. ASSUME taken'[q] = taken[q], call[q] \in {"message", "update"}
      PROVE  \E e : taken'[q] = {e}
  BY <1>1 DEF HandInv
<1>2. ASSUME NEW r \in Requests, OnRequestComplete(r) PROVE \E e : taken'[q] = {e}
  <2>1. CASE q # r
    BY <1>1, <1>2, <2>1, CompletionTakes
  <2>2. CASE q = r
    <3>1. taken'[q] # {}
      BY <1>2, <2>2 DEF OnRequestComplete, Continue, TypeOK
    <3>2. PICK e \in taken'[q] : \A f \in taken'[q] : f = e
      BY <1>2, <2>2, <3>1, CompletionTakes
    <3>3. taken'[q] = {e}
      BY <3>2
    <3> QED
      BY <3>3
  <2> QED
    BY <2>1, <2>2
<1>3. ASSUME NEW r \in Requests, EnqueueMessage(r) PROVE \E e : taken'[q] = {e}
  <2>1. taken'[q] = taken[q] /\ call[q] \in {"message", "update"}
    BY <1>3, MessageSends
  <2> QED
    BY <1>1, <2>1
<1>4. ASSUME NEW r \in Requests, EnqueueUpdate(r) PROVE \E e : taken'[q] = {e}
  <2>1. call'[r] = "none"
    BY <1>4 DEF EnqueueUpdate, Continue, TypeOK
  <2>2. taken'[q] = taken[q] /\ call[q] \in {"message", "update"}
    BY <1>4, <2>1, UpdateSends
  <2> QED
    BY <1>1, <2>2
<1>5. ASSUME NEW r \in Requests, Handler(r), ~OnRequestComplete(r),
             ~EnqueueMessage(r), ~EnqueueUpdate(r)
      PROVE  taken'[q] = taken[q] /\ call[q] \in {"message", "update"}
  BY <1>5 DEF Handler, OnRequestStart, OnToken, OnThinking, OnToolCalls, OnError,
     HandlerReturn, Enqueue, EnqueueConversation, Continue, handlerVars, TypeOK
<1>6. ASSUME UNCHANGED handlerVars
      PROVE  taken'[q] = taken[q] /\ call[q] \in {"message", "update"}
  BY <1>6 DEF handlerVars
<1> QED
  BY <1>1, <1>2, <1>3, <1>4, <1>5, <1>6, BackgroundKeepsHandlers DEF Next

\* A handler between the two sends of OnRequestComplete holds one conversation,
\* whatever other requests with its identifier have done to the map: a send
\* always has its record, and the two sends have the same one
\* (database_hook.go:155-202).
THEOREM OneInHand == Spec => []HandInv
<1>1. Init => HandInv
  BY DEF Init, HandInv
<1>2. (TypeOK /\ CustodyInv) /\ HandInv /\ [Next]_vars => HandInv'
  BY HandInvNext
<1> QED
  BY <1>1, <1>2, CustodyHolds, PTL DEF Spec

-----------------------------------------------------------------------------
(* ConversationLog.  What fateOf makes of a record depends on three things *)
(* only: whether it is on its way, in the database or dropped.             *)

Fates == {"none", "due", "stored", "lost"}

FateRight ==
    /\ fateOf \in [Requests -> [Writers -> Fates]]
    /\ \A q \in Requests, k \in Writers :
          fateOf[q][k] = IF InDatabase(q, k) THEN "stored"
                         ELSE IF Dropped(q, k) THEN "lost"
                         ELSE IF OnItsWay(q, k) THEN "due" ELSE "none"

LEMMA FateIs == FateRight /\ FateRight'
<1> DEFINE F == [q \in Requests |-> [k \in Writers |->
                    IF InDatabase(q, k) THEN "stored"
                    ELSE IF Dropped(q, k) THEN "lost"
                    ELSE IF OnItsWay(q, k) THEN "due" ELSE "none"]]
<1>1. fateOf = F
  BY DEF fateOf, Dropped
<1>2. fateOf' = F'
  BY DEF fateOf, Dropped
<1>3. FateRight
  BY <1>1, Zenon DEF FateRight, Fates
<1>4. FateRight'
  BY <1>2, Zenon DEF FateRight, Fates
<1> QED
  BY <1>3, <1>4

\* Where each kind of record is on its way, and where it is stored.
Ways(q) ==
    /\ OnItsWay(q, "conversation") <=>
          (call[q] = "conversation" \/ q \in convHeld \/ InSeq(q, convCh))
    /\ OnItsWay(q, "message") <=>
          (call[q] = "message" \/ q \in Convs(batch) \cup Convs(msgCh))
    /\ OnItsWay(q, "update") <=>
          (Completing(q) \/ OneOf(q, updHeld) \/ q \in Convs(updateCh))
    /\ InDatabase(q, "conversation") <=> q \in convRows
    /\ InDatabase(q, "message") <=> q \in Convs(msgRows)
    /\ InDatabase(q, "update") <=> OneOf(q, endedRows)

LEMMA WayIs == \A q : Ways(q) /\ Ways(q)'
<1>1. \A q : Ways(q)
  BY DEF Ways, OnItsWay, InDatabase, Completing, OneOf
<1>2. \A q : Ways(q)'
  BY DEF Ways, OnItsWay, InDatabase, Completing, OneOf
<1> QED
  BY <1>1, <1>2

\* A batch of messages in its transaction, none of whose statements has failed, has
\* the conversations of the messages inserted so far in the database
\* (database_hook.go:318-333).
TxInv ==
    (msgPc = "exec" /\ tx.ok) =>
        \A i \in 1 .. tx.executed : i \in DOMAIN batch => batch[i].conv \in convRows

LEMMA TxInvNext ==
    ASSUME TypeOK, TxInv, [Next]_vars
    PROVE  TxInv'
<1>1. \A q \in convRows : q \in convRows'
  BY DEF Next, Handler, OnRequestStart, OnToken, OnThinking, OnToolCalls,
     OnRequestComplete, OnError, HandlerReturn, Enqueue, EnqueueConversation,
     EnqueueMessage, EnqueueUpdate, ConversationWriter, ConvReceive, ConvWrite,
     ConvExit, UpdateWriter, UpdReceive, UpdWrite, UpdExit, MessageWriter,
     MsgReceive, MsgTick, MsgCancelled, MsgDrain, MsgDrained, FlushBegin,
     FlushBeginFails, FlushExec, FlushCommit, Close, Cancel, CloseReturns,
     ProcessExit, frontVars, backVars, rowVars, vars
<1>2. CASE UNCHANGED <<msgPc, batch, tx>>
  BY <1>1, <1>2 DEF TxInv
<1>3. CASE MessageWriter /\ ~FlushBegin /\ ~FlushExec
  <2>1. msgPc' # "exec"
    BY <1>3 DEF MessageWriter, MsgReceive, MsgTick, MsgCancelled, MsgDrain,
       MsgDrained, FlushBeginFails, FlushCommit, FlushOver
  <2> QED
    BY <2>1 DEF TxInv
<1>4. CASE FlushBegin
  BY <1>4 DEF FlushBegin, TxInv
<1>5. CASE FlushExec
  <2>1. /\ UNCHANGED <<msgPc, batch, convRows>> /\ msgPc = "exec"
        /\ tx.executed \in Nat /\ tx'.executed = tx.executed + 1
        /\ tx'.ok => tx.ok /\ batch[tx.executed + 1].conv \in convRows
    <3> DEFINE inserted == tx.ok /\ batch[tx.executed + 1].conv \in convRows
    <3>1. PICK ok \in {inserted, inserted /\ ~DbFails} :
              tx' = [executed |-> tx.executed + 1, ok |-> ok]
      BY <1>5 DEF FlushExec, Referenced
    <3>2. ok => inserted
      BY Zenon
    <3>3. tx'.executed = tx.executed + 1 /\ tx'.ok = ok
      BY <3>1
    <3>4. UNCHANGED <<msgPc, batch, convRows>> /\ msgPc = "exec" /\ tx.executed \in Nat
      BY <1>5 DEF FlushExec, frontVars, TypeOK
    <3> QED
      BY <3>2, <3>3, <3>4, Zenon
  <2>2. \A i \in 1 .. tx'.executed : i \in 1 .. tx.executed \/ i = tx.executed + 1
    BY <2>1
  <2> QED
    BY <2>1, <2>2 DEF TxInv
<1>6. ASSUME NEW r \in Requests, Handler(r) PROVE UNCHANGED <<msgPc, batch, tx>>
  BY <1>6 DEF Handler, OnRequestStart, OnToken, OnThinking, OnToolCalls,
     OnRequestComplete, OnError, HandlerReturn, Enqueue, EnqueueConversation,
     EnqueueMessage, EnqueueUpdate, backVars, messageVars
<1>7. CASE ConversationWriter \/ UpdateWriter \/ Close \/ UNCHANGED vars
  BY <1>2, <1>7 DEF ConversationWriter, ConvReceive, ConvWrite, ConvExit,
     UpdateWriter, UpdReceive, UpdWrite, UpdExit, Close, Cancel, CloseReturns,
     ProcessExit, messageVars, vars
<1> QED
  BY <1>2, <1>3, <1>4, <1>5, <1>6, <1>7 DEF Next

\* A kind of record that a step does not move, or only from one place on its way
\* to the next, keeps its fates.
Still(k) ==
    \A q \in Requests : /\ OnItsWay(q, k)' <=> OnItsWay(q, k)
                        /\ InDatabase(q, k)' <=> InDatabase(q, k)
                        /\ Dropped(q, k)' <=> Dropped(q, k)

LEMMA StillFate ==
    ASSUME NEW k \in Writers, Still(k)
    PROVE  \A q \in Requests : fateOf'[q][k] = fateOf[q][k]
<1>1. ASSUME NEW q \in Requests
      PROVE  /\ fateOf[q][k] = IF InDatabase(q, k) THEN "stored"
                               ELSE IF Dropped(q, k) THEN "lost"
                               ELSE IF OnItsWay(q, k) THEN "due" ELSE "none"
             /\ fateOf'[q][k] = IF InDatabase(q, k)' THEN "stored"
                                ELSE IF Dropped(q, k)' THEN "lost"
                                ELSE IF OnItsWay(q, k)' THEN "due" ELSE "none"
  BY FateIs DEF FateRight
<1> QED
  BY <1>1 DEF Still

LEMMA ConvStill ==
    ASSUME UNCHANGED <<convCh, convHeld, convRows>>,
           \A q \in Requests : /\ Dropped(q, "conversation")' <=> Dropped(q, "conversation")
                               /\ call'[q] = "conversation" <=> call[q] = "conversation"
    PROVE  \A q \in Requests : fateOf'[q]["conversation"] = fateOf[q]["conversation"]
<1>1. Still("conversation")
  BY WayIs DEF Ways, Still, InSeq
<1> QED
  BY <1>1, StillFate DEF Writers

LEMMA MsgStill ==
    ASSUME UNCHANGED <<msgCh, batch, msgRows>>,
           \A q \in Requests : /\ Dropped(q, "message")' <=> Dropped(q, "message")
                               /\ call'[q] = "message" <=> call[q] = "message"
    PROVE  \A q \in Requests : fateOf'[q]["message"] = fateOf[q]["message"]
<1>1. Still("message")
  BY WayIs DEF Ways, Still, Convs
<1> QED
  BY <1>1, StillFate DEF Writers

LEMMA UpdStill ==
    ASSUME UNCHANGED <<updateCh, updHeld, endedRows>>,
           \A q \in Requests : /\ Dropped(q, "update")' <=> Dropped(q, "update")
                               /\ Completing(q)' <=> Completing(q)
    PROVE  \A q \in Requests : fateOf'[q]["update"] = fateOf[q]["update"]
<1>1. Still("update")
  BY WayIs DEF Ways, Still, Convs, OneOf
<1> QED
  BY <1>1, StillFate DEF Writers

\* No fate changes.
LEMMA AllStill ==
    ASSUME \A q \in Requests, k \in Writers : fateOf'[q][k] = fateOf[q][k]
    PROVE  fateOf' = fateOf
BY FateIs DEF FateRight

\* The records of one kind that a set of requests had on their way are settled.
LEMMA SettleIs ==
    ASSUME NEW S \in SUBSET Requests, NEW kind \in Writers, NEW fate \in Fates,
           \A q \in S : fateOf[q][kind] = "due" /\ fateOf'[q][kind] = fate,
           \A q \in Requests \ S : fateOf'[q][kind] = fateOf[q][kind],
           \A q \in Requests, k \in Writers \ {kind} : fateOf'[q][k] = fateOf[q][k]
    PROVE  Log!Settle(S, kind, fate)
<1> DEFINE G == [q \in Requests |->
                    IF q \in S THEN [fateOf[q] EXCEPT ![kind] = fate] ELSE fateOf[q]]
<1>1. G \in [Requests -> [Writers -> Fates]]
  BY FateIs DEF FateRight
<1>2. fateOf' \in [Requests -> [Writers -> Fates]]
      /\ fateOf \in [Requests -> [Writers -> Fates]]
  BY FateIs DEF FateRight
<1>3. ASSUME NEW q \in Requests PROVE fateOf'[q] = G[q]
  <2>1. \A k \in Writers : fateOf'[q][k] = G[q][k]
    BY <1>2
  <2>2. fateOf'[q] \in [Writers -> Fates] /\ G[q] \in [Writers -> Fates]
    BY <1>1, <1>2
  <2> QED
    BY <2>1, <2>2
<1>4. fateOf' = G
  BY <1>1, <1>2, <1>3
<1> QED
  BY <1>4 DEF Log!Settle

\* Records that are lost were due.
LEMMA LossMaps ==
    ASSUME NEW S \in SUBSET Requests, NEW kind \in Writers, Lose(kind, S),
           \A q \in S : /\ OnItsWay(q, kind) /\ ~InDatabase(q, kind)
                        /\ ~Dropped(q, kind) /\ ~InDatabase(q, kind)',
           \A q \in Requests \ S : /\ OnItsWay(q, kind)' <=> OnItsWay(q, kind)
                                   /\ InDatabase(q, kind)' <=> InDatabase(q, kind),
           \A q \in Requests, k \in Writers \ {kind} : fateOf'[q][k] = fateOf[q][k]
    PROVE  Log!Settle(S, kind, "lost")
<1>1. \A q : Dropped(q, kind)' <=> Dropped(q, kind) \/ q \in S
  BY LoseDrops
<1>2. \A q \in S : fateOf[q][kind] = "due" /\ fateOf'[q][kind] = "lost"
  BY <1>1, FateIs DEF FateRight
<1>3. \A q \in Requests \ S : fateOf'[q][kind] = fateOf[q][kind]
  BY <1>1, FateIs DEF FateRight
<1> QED
  BY <1>2, <1>3, SettleIs DEF Fates

\* Records that are stored were due.
LEMMA StoreMaps ==
    ASSUME NEW S \in SUBSET Requests, NEW kind \in Writers, UNCHANGED lost,
           \A q \in S : /\ OnItsWay(q, kind) /\ ~InDatabase(q, kind)
                        /\ ~Dropped(q, kind) /\ InDatabase(q, kind)',
           \A q \in Requests \ S : /\ OnItsWay(q, kind)' <=> OnItsWay(q, kind)
                                   /\ InDatabase(q, kind)' <=> InDatabase(q, kind),
           \A q \in Requests, k \in Writers \ {kind} : fateOf'[q][k] = fateOf[q][k]
    PROVE  Log!Settle(S, kind, "stored")
<1>1. \A q : Dropped(q, kind)' <=> Dropped(q, kind)
  BY NothingDrops
<1>2. \A q \in S : fateOf[q][kind] = "due" /\ fateOf'[q][kind] = "stored"
  BY <1>1, FateIs DEF FateRight
<1>3. \A q \in Requests \ S : fateOf'[q][kind] = fateOf[q][kind]
  BY <1>1, FateIs DEF FateRight
<1> QED
  BY <1>2, <1>3, SettleIs DEF Fates

\* One request's loss, or a batch's, is a Discard, and a storing a Store.
LEMMA SettleSteps ==
    ASSUME NEW S \in SUBSET Requests, NEW kind \in Writers,
           kind # "message" => \E q \in Requests : S = {q}
    PROVE  /\ Log!Settle(S, kind, "lost") => Log!LogNext
           /\ (/\ Log!Settle(S, kind, "stored")
               /\ kind # "conversation" =>
                    \A q \in S : fateOf[q]["conversation"] = "stored")
                => Log!LogNext
BY DEF Log!LogNext, Log!Discard, Log!Store, Log!Kinds, Writers

\* OnRequestStart makes the conversation record due.
LEMMA StartMaps ==
    ASSUME NoCollision, TypeOK, HandlerInv, PathInv,
           NEW r \in Requests, OnRequestStart(r)
    PROVE  Log!LogNext
<1>1. /\ UNCHANGED <<convCh, msgCh, updateCh, convHeld, updHeld, batch, convRows,
                     msgRows, endedRows, lost>>
      /\ stage[r] = "new" /\ call[r] = "none" /\ call'[r] = "conversation"
  BY DEF OnRequestStart, Start, Free, Continue, channelVars, backVars, messageVars,
     rowVars, TypeOK
<1>2. \A q \in Requests \ {r} : call'[q] = call[q]
  BY HandlerFrame DEF Handler
<1>3. \A q, k : Dropped(q, k)' <=> Dropped(q, k)
  BY <1>1, NothingDrops
<1>4. \A k \in Writers : fateOf[r][k] = "none"
  <2>1. Uncompleted(r)
    BY <1>1 DEF Uncompleted
  <2>2. /\ ~OnItsWay(r, "conversation") /\ ~InDatabase(r, "conversation")
        /\ ~Dropped(r, "conversation")
    BY <1>1, WayIs DEF Ways, PathInv, ConvPath
  <2>3. /\ ~OnItsWay(r, "message") /\ ~InDatabase(r, "message")
        /\ ~Dropped(r, "message")
    BY <2>1, WayIs DEF Ways, PathInv, MsgPath
  <2>4. /\ ~OnItsWay(r, "update") /\ ~InDatabase(r, "update")
        /\ ~Dropped(r, "update")
    BY <2>1, WayIs DEF Ways, PathInv, UpdPath, Completing
  <2> QED
    BY <2>2, <2>3, <2>4, FateIs DEF FateRight, Writers
<1>5. \A q \in Requests : fateOf'[q]["message"] = fateOf[q]["message"]
  BY <1>1, <1>2, <1>3, MsgStill
<1>6. \A q \in Requests : fateOf'[q]["update"] = fateOf[q]["update"]
  BY <1>1, <1>2, <1>3, UpdStill DEF Completing
<1>7. \A q \in Requests \ {r} : fateOf'[q]["conversation"] = fateOf[q]["conversation"]
  <2>1. \A q \in Requests \ {r} :
          /\ OnItsWay(q, "conversation")' <=> OnItsWay(q, "conversation")
          /\ InDatabase(q, "conversation")' <=> InDatabase(q, "conversation")
    BY <1>1, <1>2, WayIs DEF Ways, InSeq
  <2> QED
    BY <1>3, <2>1, FateIs DEF FateRight, Writers
<1>8. fateOf'[r]["conversation"] = "due"
  <2>1. OnItsWay(r, "conversation")' /\ ~InDatabase(r, "conversation")'
        /\ ~Dropped(r, "conversation")'
    BY <1>1, <1>3, WayIs DEF Ways, PathInv, ConvPath
  <2> QED
    BY <2>1, FateIs DEF FateRight, Writers
<1>9. fateOf[r] = [k \in Log!Kinds |-> "none"]
  BY <1>4, FateIs DEF FateRight, Writers, Log!Kinds
<1>10. fateOf' = [fateOf EXCEPT ![r]["conversation"] = "due"]
  <2> DEFINE G == [fateOf EXCEPT ![r]["conversation"] = "due"]
  <2>1. /\ G \in [Requests -> [Writers -> Fates]]
        /\ fateOf' \in [Requests -> [Writers -> Fates]]
    BY FateIs DEF FateRight, Fates, Writers
  <2>2. \A q \in Requests : \A k \in Writers : fateOf'[q][k] = G[q][k]
    BY <1>5, <1>6, <1>7, <1>8, FateIs DEF FateRight, Writers
  <2>3. \A q \in Requests : fateOf'[q] = G[q]
    BY <2>1, <2>2
  <2> HIDE DEF G
  <2> QED
    BY <2>1, <2>3 DEF G
<1> QED
  BY <1>9, <1>10 DEF Log!LogNext, Log!Begin

\* OnRequestComplete makes the other two due at once, or finds no conversation
\* and does nothing.
LEMMA CompleteMaps ==
    ASSUME NoCollision, TypeOK, HandlerInv, PathInv,
           NEW r \in Requests, OnRequestComplete(r)
    PROVE  Log!LogNext \/ fateOf' = fateOf
<1>1. /\ UNCHANGED <<convCh, msgCh, updateCh, convHeld, updHeld, batch, convRows,
                     msgRows, endedRows, lost>>
      /\ call[r] = "none" /\ call'[r] \in {"none", "message"}
      /\ call'[r] = "message" <=> conversations[ReqID[r]] # {}
      /\ \A q \in Requests \ {r} : call'[q] = call[q]
  BY CompletionOf DEF channelVars, backVars, messageVars, rowVars
<1>2. \A q, k : Dropped(q, k)' <=> Dropped(q, k)
  BY <1>1, NothingDrops
<1>3. \A q \in Requests : fateOf'[q]["conversation"] = fateOf[q]["conversation"]
  BY <1>1, <1>2, ConvStill
<1>4. CASE conversations[ReqID[r]] = {}
  <2>1. \A q \in Requests : call'[q] = call[q]
    BY <1>1, <1>4
  <2>2. \A q \in Requests : /\ fateOf'[q]["message"] = fateOf[q]["message"]
                            /\ fateOf'[q]["update"] = fateOf[q]["update"]
    BY <1>1, <1>2, <2>1, MsgStill, UpdStill DEF Completing
  <2> QED
    BY <1>3, <2>2, AllStill DEF Writers
<1>5. CASE conversations[ReqID[r]] # {}
  <2>1. Uncompleted(r) /\ call'[r] = "message"
    BY <1>1, <1>5 DEF Uncompleted
  <2>2. fateOf[r]["conversation"] # "none"
    BY <1>5, WayIs, FateIs DEF Ways, FateRight, Writers, PathInv, ConvPath
  <2>3. fateOf[r]["message"] = "none" /\ fateOf'[r]["message"] = "due"
    <3>1. /\ ~OnItsWay(r, "message") /\ ~InDatabase(r, "message")
          /\ ~Dropped(r, "message")
          /\ OnItsWay(r, "message")' /\ ~InDatabase(r, "message")'
      BY <1>1, <2>1, WayIs DEF Ways, PathInv, MsgPath, Convs
    <3> QED
      BY <1>2, <3>1, FateIs DEF FateRight, Writers
  <2>4. fateOf[r]["update"] = "none" /\ fateOf'[r]["update"] = "due"
    <3>1. /\ ~OnItsWay(r, "update") /\ ~InDatabase(r, "update")
          /\ ~Dropped(r, "update")
          /\ OnItsWay(r, "update")' /\ ~InDatabase(r, "update")'
      BY <1>1, <2>1, WayIs DEF Ways, PathInv, UpdPath, OneOf, Completing
    <3> QED
      BY <1>2, <3>1, FateIs DEF FateRight, Writers
  <2>5. \A q \in Requests \ {r} : /\ fateOf'[q]["message"] = fateOf[q]["message"]
                                  /\ fateOf'[q]["update"] = fateOf[q]["update"]
    <3>1. \A q \in Requests \ {r} :
            /\ OnItsWay(q, "message")' <=> OnItsWay(q, "message")
            /\ InDatabase(q, "message")' <=> InDatabase(q, "message")
            /\ OnItsWay(q, "update")' <=> OnItsWay(q, "update")
            /\ InDatabase(q, "update")' <=> InDatabase(q, "update")
      BY <1>1, WayIs DEF Ways, Convs, OneOf, Completing
    <3> QED
      BY <1>2, <3>1, FateIs DEF FateRight, Writers
  <2>6. fateOf' = [fateOf EXCEPT ![r]["message"] = "due", ![r]["update"] = "due"]
    <3> DEFINE G == [fateOf EXCEPT ![r]["message"] = "due", ![r]["update"] = "due"]
    <3>1. /\ G \in [Requests -> [Writers -> Fates]]
          /\ fateOf' \in [Requests -> [Writers -> Fates]]
      BY FateIs DEF FateRight, Fates, Writers
    <3>2. \A q \in Requests : \A k \in Writers : fateOf'[q][k] = G[q][k]
      BY <1>3, <2>3, <2>4, <2>5, FateIs DEF FateRight, Writers
    <3>3. \A q \in Requests : fateOf'[q] = G[q]
      BY <3>1, <3>2
    <3> HIDE DEF G
    <3> QED
      BY <3>1, <3>3 DEF G
  <2> QED
    BY <2>2, <2>3, <2>4, <2>6 DEF Log!LogNext, Log!Finish
<1> QED
  BY <1>4, <1>5

\* EnqueueConversation queues the record or loses it.
LEMMA EnqueueConversationMaps ==
    ASSUME NoCollision, TypeOK, HandlerInv, PathInv,
           NEW r \in Requests, EnqueueConversation(r)
    PROVE  Log!LogNext \/ fateOf' = fateOf
<1>1. /\ UNCHANGED <<msgCh, updateCh, convHeld, updHeld, batch, convRows, msgRows,
                     endedRows>>
      /\ call[r] = "conversation" /\ call'[r] = "none" /\ convCh \in Seq(Requests)
      /\ \A q \in Requests \ {r} : call'[q] = call[q]
      /\ \/ convCh' = Append(convCh, r) /\ UNCHANGED lost
         \/ Lose("conversation", {r}) /\ UNCHANGED convCh
  BY DEF EnqueueConversation, About, Continue, backVars, messageVars, rowVars, TypeOK
<1>2. \A q : /\ Dropped(q, "message")' <=> Dropped(q, "message")
             /\ Dropped(q, "update")' <=> Dropped(q, "update")
  BY <1>1, NothingDrops, LoseDrops
<1>3. \A q \in Requests : /\ fateOf'[q]["message"] = fateOf[q]["message"]
                          /\ fateOf'[q]["update"] = fateOf[q]["update"]
  BY <1>1, <1>2, MsgStill, UpdStill DEF Completing
<1>4. CASE convCh' = Append(convCh, r) /\ UNCHANGED lost
  <2>1. \A q : InSeq(q, convCh)' <=> InSeq(q, convCh) \/ q = r
    BY <1>1, <1>4, QueueAppend DEF InSeq
  <2>2. \A q : Dropped(q, "conversation")' <=> Dropped(q, "conversation")
    BY <1>4, NothingDrops
  <2>3. Still("conversation")
    BY <1>1, <2>1, <2>2, WayIs DEF Ways, Still
  <2> QED
    BY <1>3, <2>3, StillFate, AllStill DEF Writers
<1>5. CASE Lose("conversation", {r}) /\ UNCHANGED convCh
  <2>1. /\ OnItsWay(r, "conversation") /\ ~InDatabase(r, "conversation")
        /\ ~Dropped(r, "conversation") /\ ~InDatabase(r, "conversation")'
    BY <1>1, WayIs DEF Ways, PathInv, ConvPath
  <2>2. \A q \in Requests \ {r} :
          /\ OnItsWay(q, "conversation")' <=> OnItsWay(q, "conversation")
          /\ InDatabase(q, "conversation")' <=> InDatabase(q, "conversation")
    BY <1>1, <1>5, WayIs DEF Ways, InSeq
  <2>3. \A q \in Requests, k \in Writers \ {"conversation"} :
            fateOf'[q][k] = fateOf[q][k]
    BY <1>3 DEF Writers
  <2>4. Log!Settle({r}, "conversation", "lost")
    BY <1>5, <2>1, <2>2, <2>3, LossMaps DEF Writers
  <2> QED
    BY <2>4, SettleSteps DEF Writers
<1> QED
  BY <1>1, <1>4, <1>5

\* conversationWriter takes a record, and stores or loses it.
LEMMA ConversationWriterMaps ==
    ASSUME TypeOK, PathInv, ConversationWriter
    PROVE  Log!LogNext \/ fateOf' = fateOf
<1>1. /\ UNCHANGED <<call, msgCh, updateCh, updHeld, batch, msgRows, endedRows>>
      /\ UNCHANGED lost \/ Lose("conversation", convHeld)
  BY DEF ConversationWriter, ConvReceive, ConvWrite, ConvExit, handlerVars,
     channelVars, messageVars, rowVars
<1>2. \A q : /\ Dropped(q, "message")' <=> Dropped(q, "message")
             /\ Dropped(q, "update")' <=> Dropped(q, "update")
  BY <1>1, NothingDrops, LoseDrops
<1>3. \A q \in Requests : /\ fateOf'[q]["message"] = fateOf[q]["message"]
                          /\ fateOf'[q]["update"] = fateOf[q]["update"]
  BY <1>1, <1>2, MsgStill, UpdStill DEF Completing
<1>4. CASE ConvExit
  <2>1. UNCHANGED <<convCh, convHeld, convRows, lost>>
    BY <1>4 DEF ConvExit, channelVars, rowVars
  <2> QED
    BY <1>1, <1>3, <2>1, ConvStill, NothingDrops, AllStill DEF Writers
<1>5. CASE ConvReceive
  <2>1. /\ UNCHANGED <<convRows, lost>> /\ convHeld = {} /\ convHeld' = {Head(convCh)}
        /\ convCh # <<>> /\ convCh' = Tail(convCh) /\ convCh \in Seq(Requests)
    BY <1>5 DEF ConvReceive, rowVars, TypeOK
  <2>2. \A q : InSeq(q, convCh) <=> InSeq(q, convCh)' \/ q = Head(convCh)
    BY <2>1, QueueTail DEF InSeq
  <2>3. \A q : Dropped(q, "conversation")' <=> Dropped(q, "conversation")
    BY <2>1, NothingDrops
  <2>4. Still("conversation")
    BY <1>1, <2>1, <2>2, <2>3, WayIs DEF Ways, Still
  <2> QED
    BY <1>3, <2>4, StillFate, AllStill DEF Writers
<1>6. CASE ConvWrite
  <2>1. /\ UNCHANGED convCh /\ convHeld # {} /\ convHeld' = {}
        /\ \/ convRows' = convRows \cup convHeld /\ UNCHANGED lost
           \/ Lose("conversation", convHeld) /\ UNCHANGED convRows
    BY <1>6 DEF ConvWrite, channelVars
  <2>2. \E q \in Requests : convHeld = {q}
    BY <2>1 DEF TypeOK, PathInv, ConvPath
  <2>3. \A q \in convHeld : /\ OnItsWay(q, "conversation")
                            /\ ~InDatabase(q, "conversation")
                            /\ ~Dropped(q, "conversation")
    BY <2>2, WayIs DEF Ways, PathInv, ConvPath
  <2>4. \A q \in Requests \ convHeld :
          /\ OnItsWay(q, "conversation")' <=> OnItsWay(q, "conversation")
          /\ InDatabase(q, "conversation")' <=> InDatabase(q, "conversation")
    BY <1>1, <2>1, WayIs DEF Ways, InSeq
  <2>5. \A q \in Requests, k \in Writers \ {"conversation"} :
            fateOf'[q][k] = fateOf[q][k]
    BY <1>3 DEF Writers
  <2>6. CASE convRows' = convRows \cup convHeld /\ UNCHANGED lost
    <3>1. \A q \in convHeld : InDatabase(q, "conversation")'
      BY <2>6, WayIs DEF Ways
    <3>2. Log!Settle(convHeld, "conversation", "stored")
      BY <2>2, <2>3, <2>4, <2>5, <2>6, <3>1, StoreMaps DEF Writers
    <3> QED
      BY <2>2, <3>2, SettleSteps DEF Writers
  <2>7. CASE Lose("conversation", convHeld) /\ UNCHANGED convRows
    <3>1. \A q \in convHeld : ~InDatabase(q, "conversation")'
      BY <2>3, <2>7, WayIs DEF Ways
    <3>2. Log!Settle(convHeld, "conversation", "lost")
      BY <2>2, <2>3, <2>4, <2>5, <2>7, <3>1, LossMaps DEF Writers
    <3> QED
      BY <2>2, <3>2, SettleSteps DEF Writers
  <2> QED
    BY <2>1, <2>6, <2>7
<1> QED
  BY <1>4, <1>5, <1>6 DEF ConversationWriter

\* EnqueueMessage queues the record or loses it.
LEMMA EnqueueMessageMaps ==
    ASSUME NoCollision, TypeOK, HandlerInv, PathInv,
           NEW r \in Requests, EnqueueMessage(r)
    PROVE  Log!LogNext \/ fateOf' = fateOf
<1>1. /\ UNCHANGED <<convCh, updateCh, convHeld, updHeld, batch, convRows, msgRows,
                     endedRows>>
      /\ call[r] = "message" /\ call'[r] = "update" /\ msgCh \in Seq(MessageRecord)
      /\ \A q \in Requests \ {r} : call'[q] = call[q]
  BY OwnMessage DEF EnqueueMessage, backVars, rowVars, TypeOK
<1>2. \/ UNCHANGED lost /\ \E m \in MessageRecord :
                m.conv = r /\ msgCh' = Append(msgCh, m)
      \/ Lose("message", {r}) /\ UNCHANGED msgCh
  BY OwnMessage
<1>3. \A q : /\ Dropped(q, "conversation")' <=> Dropped(q, "conversation")
             /\ Dropped(q, "update")' <=> Dropped(q, "update")
  BY <1>2, NothingDrops, LoseDrops
<1>4. \A q \in Requests : /\ fateOf'[q]["conversation"] = fateOf[q]["conversation"]
                          /\ fateOf'[q]["update"] = fateOf[q]["update"]
  BY <1>1, <1>3, ConvStill, UpdStill DEF Completing
<1>5. CASE UNCHANGED lost /\ \E m \in MessageRecord :
              m.conv = r /\ msgCh' = Append(msgCh, m)
  <2>1. Convs(msgCh)' = Convs(msgCh) \cup {r} /\ Convs(batch)' = Convs(batch)
        /\ Convs(msgRows)' = Convs(msgRows)
    BY <1>1, <1>5, ConvsAppend DEF Convs
  <2>2. \A q : Dropped(q, "message")' <=> Dropped(q, "message")
    BY <1>5, NothingDrops
  <2>3. Still("message")
    BY <1>1, <2>1, <2>2, WayIs DEF Ways, Still
  <2> QED
    BY <1>4, <2>3, StillFate, AllStill DEF Writers
<1>6. CASE Lose("message", {r}) /\ UNCHANGED msgCh
  <2>1. Convs(msgCh)' = Convs(msgCh) /\ Convs(batch)' = Convs(batch)
        /\ Convs(msgRows)' = Convs(msgRows)
    BY <1>1, <1>6 DEF Convs
  <2>2. /\ OnItsWay(r, "message") /\ ~InDatabase(r, "message")
        /\ ~Dropped(r, "message") /\ ~InDatabase(r, "message")'
    BY <1>1, <2>1, WayIs DEF Ways, PathInv, MsgPath
  <2>3. \A q \in Requests \ {r} :
          /\ OnItsWay(q, "message")' <=> OnItsWay(q, "message")
          /\ InDatabase(q, "message")' <=> InDatabase(q, "message")
    BY <1>1, <2>1, WayIs DEF Ways
  <2>4. \A q \in Requests, k \in Writers \ {"message"} : fateOf'[q][k] = fateOf[q][k]
    BY <1>4 DEF Writers
  <2>5. Log!Settle({r}, "message", "lost")
    BY <1>6, <2>2, <2>3, <2>4, LossMaps DEF Writers
  <2> QED
    BY <2>5, SettleSteps DEF Writers
<1> QED
  BY <1>2, <1>5, <1>6

\* messageWriter collects messages, and stores or loses them by the batch; it
\* stores only messages whose conversations are stored.
LEMMA MessageWriterMaps ==
    ASSUME TypeOK, PathInv, TxInv, MessageWriter
    PROVE  Log!LogNext \/ fateOf' = fateOf
<1>1. /\ UNCHANGED <<call, convCh, updateCh, convHeld, updHeld, convRows, endedRows>>
      /\ UNCHANGED lost \/ Lose("message", Convs(batch))
  BY DEF MessageWriter, MsgReceive, MsgTick, MsgCancelled, MsgDrain, MsgDrained,
     FlushBegin, FlushBeginFails, FlushExec, FlushCommit, frontVars, handlerVars
<1>2. \A q : /\ Dropped(q, "conversation")' <=> Dropped(q, "conversation")
             /\ Dropped(q, "update")' <=> Dropped(q, "update")
  BY <1>1, NothingDrops, LoseDrops
<1>3. \A q \in Requests : /\ fateOf'[q]["conversation"] = fateOf[q]["conversation"]
                          /\ fateOf'[q]["update"] = fateOf[q]["update"]
  BY <1>1, <1>2, ConvStill, UpdStill DEF Completing
<1>4. CASE MsgTick \/ MsgCancelled \/ MsgDrained \/ FlushBegin \/ FlushExec
  <2>1. UNCHANGED <<msgCh, batch, msgRows, lost>>
    BY <1>4 DEF MsgTick, MsgCancelled, MsgDrained, FlushBegin, FlushExec
  <2> QED
    BY <1>1, <1>3, <2>1, MsgStill, NothingDrops, AllStill DEF Writers
<1>5. CASE MsgReceive \/ MsgDrain
  <2>1. /\ UNCHANGED <<msgRows, lost>> /\ batch' = Append(batch, Head(msgCh))
        /\ msgCh # <<>> /\ msgCh' = Tail(msgCh)
        /\ msgCh \in Seq(MessageRecord) /\ batch \in Seq(MessageRecord)
    BY <1>5 DEF MsgReceive, MsgDrain, TypeOK
  <2>2. /\ Head(msgCh) \in MessageRecord
        /\ Convs(msgCh) = Convs(msgCh)' \cup {Head(msgCh).conv}
    BY <2>1, ConvsTail
  <2>3. /\ Convs(batch)' = Convs(batch) \cup {Head(msgCh).conv}
        /\ Convs(msgRows)' = Convs(msgRows)
    <3>1. Convs(batch)' = Convs(batch) \cup {Head(msgCh).conv}
      BY <2>1, <2>2, ConvsAppend
    <3>2. Convs(msgRows)' = Convs(msgRows)
      BY <2>1 DEF Convs
    <3> QED
      BY <3>1, <3>2
  <2>4. \A q : Dropped(q, "message")' <=> Dropped(q, "message")
    BY <2>1, NothingDrops
  <2>5. Still("message")
    BY <1>1, <2>2, <2>3, <2>4, WayIs DEF Ways, Still
  <2> QED
    BY <1>3, <2>5, StillFate, AllStill DEF Writers
<1>6. CASE FlushCommit \/ FlushBeginFails
  <2> DEFINE S == Convs(batch)
  <2>1. /\ Convs(batch)' = {} /\ Convs(msgCh)' = Convs(msgCh)
        /\ \/ /\ UNCHANGED lost /\ Convs(msgRows)' = Convs(msgRows) \cup S
              /\ FlushCommit /\ tx.ok
           \/ Lose("message", S) /\ UNCHANGED msgRows
    BY <1>6, FlushEnds DEF Convs
  <2>2. S \in SUBSET Requests
    <3>1. batch \in Seq(MessageRecord)
      BY DEF TypeOK
    <3>2. \A i \in DOMAIN batch : batch[i].conv \in Requests
      <4>1. \A i \in DOMAIN batch : batch[i] \in MessageRecord
        BY <3>1
      <4> QED
        BY <4>1 DEF MessageRecord
    <3> QED
      BY <3>2 DEF Convs
  <2>3. \A q \in S : /\ OnItsWay(q, "message") /\ ~InDatabase(q, "message")
                     /\ ~Dropped(q, "message")
    BY <2>2, WayIs DEF Ways, PathInv, MsgPath
  <2>4. \A q \in Requests, k \in Writers \ {"message"} : fateOf'[q][k] = fateOf[q][k]
    BY <1>3 DEF Writers
  <2>5. CASE UNCHANGED lost /\ Convs(msgRows)' = Convs(msgRows) \cup S
             /\ FlushCommit /\ tx.ok
    <3>1. \A q \in S : InDatabase(q, "message")'
      BY <2>5, WayIs DEF Ways
    <3>2. \A q \in Requests \ S :
            /\ OnItsWay(q, "message")' <=> OnItsWay(q, "message")
            /\ InDatabase(q, "message")' <=> InDatabase(q, "message")
      BY <1>1, <2>1, <2>5, WayIs DEF Ways
    <3>3. Log!Settle(S, "message", "stored")
      BY <2>2, <2>3, <2>4, <2>5, <3>1, <3>2, StoreMaps DEF Writers
    <3>4. \A q \in S : q \in convRows
      <4>1. msgPc = "exec" /\ tx.executed = Len(batch) /\ batch \in Seq(MessageRecord)
        BY <2>5 DEF FlushCommit, TypeOK
      <4>2. \A i \in DOMAIN batch : i \in 1 .. tx.executed
        BY <4>1, LenProperties
      <4> QED
        BY <2>5, <4>1, <4>2 DEF TxInv, Convs
    <3>5. \A q \in S : fateOf[q]["conversation"] = "stored"
      BY <2>2, <3>4, WayIs, FateIs DEF Ways, FateRight, Writers
    <3> QED
      BY <2>2, <3>3, <3>5, SettleSteps DEF Writers
  <2>6. CASE Lose("message", S) /\ UNCHANGED msgRows
    <3>1. Convs(msgRows)' = Convs(msgRows)
      BY <2>6 DEF Convs
    <3>2. \A q \in S : ~InDatabase(q, "message")'
      BY <2>3, <3>1, WayIs DEF Ways
    <3>3. \A q \in Requests \ S :
            /\ OnItsWay(q, "message")' <=> OnItsWay(q, "message")
            /\ InDatabase(q, "message")' <=> InDatabase(q, "message")
      BY <1>1, <2>1, <3>1, WayIs DEF Ways
    <3>4. Log!Settle(S, "message", "lost")
      BY <2>2, <2>3, <2>4, <2>6, <3>2, <3>3, LossMaps DEF Writers
    <3> QED
      BY <2>2, <3>4, SettleSteps DEF Writers
  <2> QED
    BY <2>1, <2>5, <2>6
<1> QED
  BY <1>4, <1>5, <1>6 DEF MessageWriter

\* EnqueueUpdate queues the record or loses it.
LEMMA EnqueueUpdateMaps ==
    ASSUME NoCollision, TypeOK, HandlerInv, PathInv,
           NEW r \in Requests, EnqueueUpdate(r)
    PROVE  Log!LogNext \/ fateOf' = fateOf
<1>1. /\ UNCHANGED <<convCh, msgCh, convHeld, updHeld, batch, convRows, msgRows,
                     endedRows>>
      /\ call[r] = "update" /\ call'[r] = "none"
      /\ updateCh \in Seq(ConversationUpdate)
      /\ \A q \in Requests \ {r} : call'[q] = call[q]
  BY OwnUpdate DEF EnqueueUpdate, backVars, messageVars, rowVars, TypeOK
<1>2. \/ UNCHANGED lost /\ \E u \in ConversationUpdate :
                u.conv = r /\ updateCh' = Append(updateCh, u)
      \/ Lose("update", {r}) /\ UNCHANGED updateCh
  BY OwnUpdate
<1>3. \A q : /\ Dropped(q, "conversation")' <=> Dropped(q, "conversation")
             /\ Dropped(q, "message")' <=> Dropped(q, "message")
  BY <1>2, NothingDrops, LoseDrops
<1>4. \A q \in Requests : /\ fateOf'[q]["conversation"] = fateOf[q]["conversation"]
                          /\ fateOf'[q]["message"] = fateOf[q]["message"]
  BY <1>1, <1>3, ConvStill, MsgStill
<1>5. \A q : /\ OneOf(q, updHeld)' <=> OneOf(q, updHeld)
             /\ OneOf(q, endedRows)' <=> OneOf(q, endedRows)
  BY <1>1 DEF OneOf
<1>6. CASE UNCHANGED lost /\ \E u \in ConversationUpdate :
              u.conv = r /\ updateCh' = Append(updateCh, u)
  <2>1. Convs(updateCh)' = Convs(updateCh) \cup {r}
    BY <1>1, <1>6, ConvsAppend
  <2>2. \A q : Dropped(q, "update")' <=> Dropped(q, "update")
    BY <1>6, NothingDrops
  <2>3. Still("update")
    BY <1>1, <1>5, <2>1, <2>2, WayIs DEF Ways, Still, Completing
  <2> QED
    BY <1>4, <2>3, StillFate, AllStill DEF Writers
<1>7. CASE Lose("update", {r}) /\ UNCHANGED updateCh
  <2>1. Convs(updateCh)' = Convs(updateCh)
    BY <1>7 DEF Convs
  <2>2. /\ OnItsWay(r, "update") /\ ~InDatabase(r, "update")
        /\ ~Dropped(r, "update") /\ ~InDatabase(r, "update")'
    BY <1>1, <1>5, WayIs DEF Ways, PathInv, UpdPath, Completing
  <2>3. \A q \in Requests \ {r} :
          /\ OnItsWay(q, "update")' <=> OnItsWay(q, "update")
          /\ InDatabase(q, "update")' <=> InDatabase(q, "update")
    BY <1>1, <1>5, <2>1, WayIs DEF Ways, Completing
  <2>4. \A q \in Requests, k \in Writers \ {"update"} : fateOf'[q][k] = fateOf[q][k]
    BY <1>4 DEF Writers
  <2>5. Log!Settle({r}, "update", "lost")
    BY <1>7, <2>2, <2>3, <2>4, LossMaps DEF Writers
  <2> QED
    BY <2>5, SettleSteps DEF Writers
<1> QED
  BY <1>2, <1>6, <1>7

\* updateWriter takes an update, and stores it in a row that is there or loses it.
LEMMA UpdateWriterMaps ==
    ASSUME TypeOK, PathInv, UpdateWriter
    PROVE  Log!LogNext \/ fateOf' = fateOf
<1>1. /\ UNCHANGED <<call, convCh, msgCh, convHeld, batch, convRows, msgRows>>
      /\ UNCHANGED lost \/ \E S : Lose("update", S)
  BY DEF UpdateWriter, UpdReceive, UpdWrite, UpdExit, handlerVars, channelVars,
     messageVars, rowVars
<1>2. \A q : /\ Dropped(q, "conversation")' <=> Dropped(q, "conversation")
             /\ Dropped(q, "message")' <=> Dropped(q, "message")
  BY <1>1, NothingDrops, LoseDrops
<1>3. \A q \in Requests : /\ fateOf'[q]["conversation"] = fateOf[q]["conversation"]
                          /\ fateOf'[q]["message"] = fateOf[q]["message"]
  BY <1>1, <1>2, ConvStill, MsgStill
<1>4. \A q \in Requests : Completing(q)' <=> Completing(q)
  BY <1>1 DEF Completing
<1>5. CASE UpdExit
  <2>1. UNCHANGED <<updateCh, updHeld, endedRows, lost>>
    BY <1>5 DEF UpdExit, channelVars, rowVars
  <2> QED
    BY <1>3, <1>4, <2>1, UpdStill, NothingDrops, AllStill DEF Writers
<1>6. CASE UpdReceive
  <2>1. PICK u \in ConversationUpdate :
          /\ updHeld = {} /\ updHeld' = {u} /\ UNCHANGED <<endedRows, lost>>
          /\ Convs(updateCh) = Convs(updateCh)' \cup {u.conv}
    BY <1>6, UpdateTaken DEF PathInv
  <2>2. \A q : /\ ~OneOf(q, updHeld) /\ (OneOf(q, updHeld)' <=> q = u.conv)
               /\ OneOf(q, endedRows)' <=> OneOf(q, endedRows)
               /\ Dropped(q, "update")' <=> Dropped(q, "update")
    BY <2>1, NothingDrops DEF OneOf
  <2>3. Still("update")
    BY <1>4, <2>1, <2>2, WayIs DEF Ways, Still
  <2> QED
    BY <1>3, <2>3, StillFate, AllStill DEF Writers
<1>7. CASE UpdWrite
  <2>1. PICK u \in ConversationUpdate :
          /\ updHeld = {u} /\ updHeld' = {} /\ UNCHANGED updateCh
          /\ \/ /\ UNCHANGED lost /\ u.conv \in convRows
                /\ \A q : OneOf(q, endedRows)' <=> OneOf(q, endedRows) \/ q = u.conv
             \/ Lose("update", {u.conv}) /\ UNCHANGED endedRows
    BY <1>7, UpdateEnds DEF PathInv
  <2> DEFINE S == {u.conv}
  <2>2. /\ Convs(updateCh)' = Convs(updateCh) /\ u.conv \in Requests
        /\ \A q : (OneOf(q, updHeld) <=> q = u.conv) /\ ~OneOf(q, updHeld)'
    BY <2>1 DEF Convs, OneOf, ConversationUpdate
  <2>3. \A q \in S : /\ OnItsWay(q, "update") /\ ~InDatabase(q, "update")
                     /\ ~Dropped(q, "update")
    BY <2>2, WayIs DEF Ways, PathInv, UpdPath
  <2>4. \A q \in Requests, k \in Writers \ {"update"} : fateOf'[q][k] = fateOf[q][k]
    BY <1>3 DEF Writers
  <2>5. CASE UNCHANGED lost /\ u.conv \in convRows
             /\ \A q : OneOf(q, endedRows)' <=> OneOf(q, endedRows) \/ q = u.conv
    <3>1. /\ \A q \in S : InDatabase(q, "update")'
          /\ \A q \in Requests \ S :
                /\ OnItsWay(q, "update")' <=> OnItsWay(q, "update")
                /\ InDatabase(q, "update")' <=> InDatabase(q, "update")
      BY <1>4, <2>2, <2>5, WayIs DEF Ways
    <3>2. Log!Settle(S, "update", "stored")
      BY <2>2, <2>3, <2>4, <2>5, <3>1, StoreMaps DEF Writers
    <3>3. \A q \in S : fateOf[q]["conversation"] = "stored"
      BY <2>2, <2>5, WayIs, FateIs DEF Ways, FateRight, Writers
    <3> QED
      BY <2>2, <3>2, <3>3, SettleSteps DEF Writers
  <2>6. CASE Lose("update", S) /\ UNCHANGED endedRows
    <3>1. \A q : OneOf(q, endedRows)' <=> OneOf(q, endedRows)
      BY <2>6 DEF OneOf
    <3>2. /\ \A q \in S : ~InDatabase(q, "update")'
          /\ \A q \in Requests \ S :
                /\ OnItsWay(q, "update")' <=> OnItsWay(q, "update")
                /\ InDatabase(q, "update")' <=> InDatabase(q, "update")
      BY <1>4, <2>2, <2>3, <3>1, WayIs DEF Ways
    <3>3. Log!Settle(S, "update", "lost")
      BY <2>2, <2>3, <2>4, <2>6, <3>2, LossMaps DEF Writers
    <3> QED
      BY <2>2, <3>3, SettleSteps DEF Writers
  <2> QED
    BY <2>1, <2>5, <2>6
<1> QED
  BY <1>5, <1>6, <1>7 DEF UpdateWriter

\* Steps that touch no record keep every fate.
LEMMA OtherStepsMap ==
    ASSUME UNCHANGED <<call, channelVars, convHeld, updHeld, batch, rowVars, lost>>
    PROVE  fateOf' = fateOf
<1>1. /\ UNCHANGED <<convCh, msgCh, updateCh, convHeld, updHeld, batch, convRows,
                     msgRows, endedRows, call>>
      /\ \A q, k : Dropped(q, k)' <=> Dropped(q, k)
  BY NothingDrops DEF channelVars, rowVars
<1>2. \A q \in Requests : /\ fateOf'[q]["conversation"] = fateOf[q]["conversation"]
                          /\ fateOf'[q]["message"] = fateOf[q]["message"]
                          /\ fateOf'[q]["update"] = fateOf[q]["update"]
  BY <1>1, ConvStill, MsgStill, UpdStill DEF Completing
<1> QED
  BY <1>2, AllStill DEF Writers

\* Every step of the plugin is a step of the log, or none.
LEMMA StepMaps ==
    ASSUME NoCollision, TypeOK, HandlerInv, PathInv, TxInv, [Next]_vars
    PROVE  [Log!LogNext]_fateOf
<1>1. ASSUME NEW r \in Requests, Handler(r) PROVE Log!LogNext \/ fateOf' = fateOf
  <2>1. CASE OnRequestStart(r) \/ OnRequestComplete(r) \/ Enqueue(r)
    BY <2>1, StartMaps, CompleteMaps, EnqueueConversationMaps, EnqueueMessageMaps,
       EnqueueUpdateMaps DEF Enqueue
  <2>2. CASE OnToken(r) \/ OnThinking(r) \/ OnToolCalls(r) \/ OnError(r)
             \/ HandlerReturn(r)
    <3>1. UNCHANGED <<call, channelVars, convHeld, updHeld, batch, rowVars, lost>>
      BY <2>2 DEF OnToken, OnThinking, OnToolCalls, OnError, HandlerReturn,
         handlerVars, backVars, messageVars
    <3> QED
      BY <3>1, OtherStepsMap
  <2> QED
    BY <1>1, <2>1, <2>2 DEF Handler
<1>2. CASE Close \/ UNCHANGED vars
  <2>1. UNCHANGED <<call, channelVars, convHeld, updHeld, batch, rowVars, lost>>
    BY <1>2 DEF Close, Cancel, CloseReturns, ProcessExit, handlerVars, messageVars,
       vars
  <2> QED
    BY <2>1, OtherStepsMap
<1> QED
  BY <1>1, <1>2, ConversationWriterMaps, UpdateWriterMaps, MessageWriterMaps DEF Next

\* At first the log is empty.
LEMMA InitMaps == Init => Log!LogInit
<1> SUFFICES ASSUME Init PROVE Log!LogInit
  OBVIOUS
<1>1. /\ convCh = <<>> /\ msgCh = <<>> /\ updateCh = <<>> /\ batch = <<>>
      /\ msgRows = <<>> /\ convHeld = {} /\ updHeld = {} /\ convRows = {}
      /\ endedRows = {} /\ lost = {} /\ \A r \in Requests : call[r] = "none"
  BY DEF Init
<1>2. \A q \in Requests, k \in Writers :
          ~OnItsWay(q, k) /\ ~InDatabase(q, k) /\ ~Dropped(q, k)
  BY <1>1, WayIs, ConvsEmpty DEF Ways, Writers, InSeq, OneOf, Dropped, Completing
<1>3. \A q \in Requests, k \in Writers : fateOf[q][k] = "none"
  BY <1>2, FateIs DEF FateRight
<1> QED
  BY <1>3, FateIs DEF FateRight, Log!LogInit, Log!Kinds, Writers

\* Unless two requests draw the same identifier, three channels and three
\* writers make a log: for any number of requests, capacities and batch sizes,
\* whatever fails and whenever the plugin is closed, a record is settled once, a
\* completion makes message and update due together, and a message or an update
\* is stored only if its conversation is (database_hook.go:108-347).
THEOREM PluginIsALog == NoCollision /\ Spec => ImplementsConversationLog
<1> SUFFICES ASSUME NoCollision PROVE Spec => ImplementsConversationLog
  OBVIOUS
<1> DEFINE Inv == TypeOK /\ HandlerInv /\ PathInv /\ TxInv
<1>1. Init => Inv
  <2>1. Init => TxInv
    BY DEF Init, TxInv
  <2> QED
    BY <2>1, InitType, HandlerInvInit, PathInvInit
<1>2. Inv /\ [Next]_vars => Inv'
  BY NextType, HandlerInvNext, PathInvNext, TxInvNext
<1>3. Inv /\ [Next]_vars => [Log!LogNext]_fateOf
  BY StepMaps
<1> QED
  BY <1>1, <1>2, <1>3, InitMaps, PTL DEF Spec, ImplementsConversationLog, Log!LogSpec

-----------------------------------------------------------------------------
(* What every log has in common, and so the plugin has, since it is a log: *)
(* fates are for good, and those of one request go together.               *)

\* A record that is due stays so until it is settled, and what is settled is
\* settled for good.
FatesAreFinal ==
    \A r \in Requests, k \in Writers :
        /\ fateOf[r][k] # "none" => fateOf'[r][k] # "none"
        /\ fateOf[r][k] \in {"stored", "lost"} => fateOf'[r][k] = fateOf[r][k]

\* A completed request has made all three records; neither of the last two is
\* stored without the first.
FatesAgree ==
    \A r \in Requests :
        /\ fateOf[r]["message"] = "none" <=> fateOf[r]["update"] = "none"
        /\ fateOf[r]["message"] # "none" => fateOf[r]["conversation"] # "none"
        /\ \A k \in Writers :
              fateOf[r][k] = "stored" => fateOf[r]["conversation"] = "stored"

\* What the three kinds of steps of the log do to the fates: a conversation is
\* made, a completion makes message and update, records of one kind are settled.
BeginsOne(r) ==
    /\ \A k \in Writers : fateOf[r][k] = "none"
    /\ fateOf'[r]["conversation"] = "due"
    /\ \A q \in Requests, k \in Writers :
          q # r \/ k # "conversation" => fateOf'[q][k] = fateOf[q][k]

FinishesOne(r) ==
    /\ fateOf[r]["conversation"] # "none"
    /\ \A k \in {"message", "update"} : fateOf[r][k] = "none" /\ fateOf'[r][k] = "due"
    /\ \A q \in Requests, k \in Writers :
          q # r \/ k = "conversation" => fateOf'[q][k] = fateOf[q][k]

SettlesAll(S, kind, fate) ==
    /\ \A q \in S : fateOf[q][kind] = "due" /\ fateOf'[q][kind] = fate
    /\ (fate = "stored" /\ kind # "conversation") =>
          \A q \in S : fateOf[q]["conversation"] = "stored"
    /\ \A q \in Requests, k \in Writers :
          q \notin S \/ k # kind => fateOf'[q][k] = fateOf[q][k]

\* A step of the log is one of them.
LEMMA LogMoves ==
    ASSUME Log!LogNext
    PROVE  \/ \E r \in Requests : BeginsOne(r) \/ FinishesOne(r)
           \/ \E S \in SUBSET Requests, kind \in Writers, fate \in {"stored", "lost"} :
                 SettlesAll(S, kind, fate)
<1>1. fateOf \in [Requests -> [Writers -> Fates]]
  BY FateIs DEF FateRight
<1>2. Log!Kinds = Writers
  BY DEF Log!Kinds, Writers
<1>3. ASSUME NEW r \in Requests, Log!Begin(r) PROVE BeginsOne(r)
  BY <1>1, <1>2, <1>3 DEF Log!Begin, Writers, BeginsOne
<1>4. ASSUME NEW r \in Requests, Log!Finish(r) PROVE FinishesOne(r)
  BY <1>1, <1>4 DEF Log!Finish, Writers, FinishesOne
<1>5. ASSUME NEW S \in SUBSET Requests, NEW kind \in Writers,
             NEW fate \in {"stored", "lost"}, Log!Settle(S, kind, fate),
             (fate = "stored" /\ kind # "conversation") =>
                 \A q \in S : fateOf[q]["conversation"] = "stored"
      PROVE  SettlesAll(S, kind, fate)
  BY <1>1, <1>5 DEF Log!Settle, SettlesAll
<1>6. ASSUME NEW S \in SUBSET Requests, NEW kind \in Writers,
             Log!Store(S, kind) \/ Log!Discard(S, kind)
      PROVE  SettlesAll(S, kind, "stored") \/ SettlesAll(S, kind, "lost")
  <2>1. CASE Log!Store(S, kind)
    BY <1>5, <2>1 DEF Log!Store
  <2>2. CASE Log!Discard(S, kind)
    BY <1>5, <2>2 DEF Log!Discard
  <2> QED
    BY <1>6, <2>1, <2>2
<1>7. CASE \E r \in Requests : Log!Begin(r) \/ Log!Finish(r)
  BY <1>3, <1>4, <1>7
<1>8. CASE \E S \in SUBSET Requests, kind \in Writers :
               Log!Store(S, kind) \/ Log!Discard(S, kind)
  BY <1>6, <1>8
<1> QED
  BY <1>2, <1>7, <1>8 DEF Log!LogNext

\* None of them takes a fate back.
LEMMA LogStepsAreFinal ==
    ASSUME [Log!LogNext]_fateOf
    PROVE  FatesAreFinal
<1>1. CASE Log!LogNext
  BY <1>1, LogMoves DEF FatesAreFinal, BeginsOne, FinishesOne, SettlesAll, Writers
<1>2. CASE fateOf' = fateOf
  BY <1>2 DEF FatesAreFinal
<1> QED
  BY <1>1, <1>2

\* None of them makes or stores a record ahead of the one it depends on.
LEMMA FatesAgreeNext ==
    ASSUME FatesAgree, [Log!LogNext]_fateOf
    PROVE  FatesAgree'
<1>1. CASE Log!LogNext
  BY <1>1, LogMoves DEF FatesAgree, BeginsOne, FinishesOne, SettlesAll, Writers
<1>2. CASE fateOf' = fateOf
  BY <1>2 DEF FatesAgree
<1> QED
  BY <1>1, <1>2

\* A record that has been made is not unmade, one that is stored is not lost later
\* and one that was dropped is not stored after all, by whatever steps of
\* handlers, writers and Close: no record is retried, and none is in two places
\* (database_hook.go:118-129, 186-202, 307-347).
THEOREM FatesAreForGood ==
    NoCollision /\ Spec => [][FatesAreFinal]_vars
<1>1. [Log!LogNext]_fateOf => [FatesAreFinal]_vars
  BY LogStepsAreFinal
<1>2. ImplementsConversationLog => [][Log!LogNext]_fateOf
  BY PTL DEF ImplementsConversationLog, Log!LogSpec
<1> QED
  BY <1>1, <1>2, PluginIsALog, PTL

\* A completion makes the message and the update of a conversation that has been
\* made before, both or neither, and the database holds neither without the row
\* of the conversation, however the three writers and their channels run
\* (database_hook.go:186-202, 288-347).
THEOREM RecordsGoTogether == NoCollision /\ Spec => []FatesAgree
<1>1. Log!LogInit => FatesAgree
  <2>1. Log!LogInit => \A r \in Requests, k \in Writers : fateOf[r][k] = "none"
    BY DEF Log!LogInit, Log!Kinds, Writers
  <2> QED
    BY <2>1 DEF FatesAgree, Writers
<1>2. FatesAgree /\ [Log!LogNext]_fateOf => FatesAgree'
  BY FatesAgreeNext
<1>3. ImplementsConversationLog => Log!LogInit /\ [][Log!LogNext]_fateOf
  BY PTL DEF ImplementsConversationLog, Log!LogSpec
<1> QED
  BY <1>1, <1>2, <1>3, PluginIsALog, PTL

\* With Close returned, no record of a request that had returned when Close was
\* called is on its way: it is in the database or lost.
NothingIsDue ==
    proc \in {"closed", "exited"} =>
        \A r \in Requests \ late, k \in Writers : ~OnItsWay(r, k)

\* The safety half of RecordsSettle: Close does not return before each writer has
\* settled what was sent before Close was called, its last batch included
\* (database_hook.go:222-229, 259-267, 280-286, 349-353).
THEOREM DrainSettlesAll == NoCollision /\ Spec => []NothingIsDue
<1> SUFFICES ASSUME NoCollision PROVE Spec => []NothingIsDue
  OBVIOUS
<1> DEFINE Inv == TypeOK /\ HandlerInv /\ DrainInv
<1>1. Init => Inv
  BY InitType, HandlerInvInit, DrainInvInit
<1>2. Inv /\ [Next]_vars => Inv'
  BY NextType, HandlerInvNext, DrainInvNext
<1>3. Inv => NothingIsDue
  <2> SUFFICES ASSUME Inv, proc \in {"closed", "exited"},
                      NEW r \in Requests \ late, NEW k \in Writers
               PROVE  ~OnItsWay(r, k)
    BY DEF NothingIsDue
  <2>1. call[r] = "none"
    BY DEF DrainInv, HandlersInv
  <2>2. convHeld = {} /\ updHeld = {} /\ batch = <<>>
    BY DEF DrainInv, WritersInv, Writers
  <2>3. ~InSeq(r, convCh) /\ r \notin Convs(msgCh) /\ r \notin Convs(updateCh)
    BY DEF DrainInv, WritersInv, Writers, ConvLate, MsgLate, UpdLate, InSeq, Convs
  <2> QED
    BY <2>1, <2>2, <2>3, WayIs, ConvsEmpty DEF Ways, OneOf, Completing, Writers
<1> QED
  BY <1>1, <1>2, <1>3, PTL DEF Spec

-----------------------------------------------------------------------------
(* The queues, whatever identifiers the requests draw: a conversation or   *)
(* an update is sent once, so that a row is final and a channel with room  *)
(* for every request is never full.                                        *)

\* A conversation is queued once, by a request that has started.
ConvOnce ==
    /\ \A i, j \in DOMAIN convCh : convCh[i] = convCh[j] => i = j
    /\ \A r \in Requests :
          /\ stage[r] = "new" => call[r] = "none" /\ ~InSeq(r, convCh)
          /\ call[r] = "conversation" => ~InSeq(r, convCh)

\* A conversation has one update, on its channel, with the writer or written.
UpdOnce ==
    /\ Distinct(updateCh)
    /\ \A x, y \in updHeld : x = y
    /\ \A u \in updHeld : u.conv \notin Convs(updateCh) /\ ~OneOf(u.conv, endedRows)
    /\ \A u \in endedRows : u.conv \notin Convs(updateCh)

OnceInv == ConvOnce /\ UpdOnce

\* Every step queues a conversation at most once.
LEMMA ConvOnceNext ==
    ASSUME TypeOK, ConvOnce, [Next]_vars
    PROVE  ConvOnce'
<1>1. CASE /\ UNCHANGED convCh
           /\ \A q \in Requests :
                /\ call'[q] = "conversation" => call[q] = "conversation"
                /\ stage'[q] = "new" => stage[q] = "new" /\ call'[q] = call[q]
  BY <1>1 DEF ConvOnce, InSeq
<1>2. ASSUME NEW r \in Requests, OnRequestStart(r) PROVE ConvOnce'
  <2>1. UNCHANGED convCh /\ stage[r] = "new" /\ stage'[r] = "open"
    BY <1>2, StartsNew DEF OnRequestStart, channelVars
  <2>2. \A q \in Requests \ {r} : call'[q] = call[q] /\ stage'[q] = stage[q]
    BY <1>2 DEF OnRequestStart, Start, MoveTo, Continue, TypeOK, LifecycleTypeOK
  <2> QED
    BY <2>1, <2>2 DEF ConvOnce, InSeq
<1>3. ASSUME NEW r \in Requests, EnqueueConversation(r) PROVE ConvOnce'
  <2>1. /\ UNCHANGED stage /\ call[r] = "conversation" /\ call'[r] = "none"
        /\ convCh \in Seq(Requests)
        /\ convCh' = Append(convCh, r) \/ convCh' = convCh
        /\ \A q \in Requests \ {r} : call'[q] = call[q]
    BY <1>3 DEF EnqueueConversation, About, Continue, lifecycleVars, TypeOK
  <2>2. stage[r] # "new" /\ ~InSeq(r, convCh)
    BY <2>1 DEF ConvOnce
  <2>3. \A q : InSeq(q, convCh') => InSeq(q, convCh) \/ q = r
    <3>1. CASE convCh' = Append(convCh, r)
      <4>1. \A q : InSeq(q, Append(convCh, r)) => InSeq(q, convCh) \/ q = r
        BY <2>1, QueueAppend
      <4> QED
        BY <3>1, <4>1
    <3>2. CASE convCh' = convCh
      BY <3>2
    <3> QED
      BY <2>1, <3>1, <3>2
  <2>4. \A i, j \in DOMAIN convCh' : convCh'[i] = convCh'[j] => i = j
    BY <2>1, <2>2, QueueAppend DEF ConvOnce
  <2>5. \A q \in Requests : InSeq(q, convCh)' <=> InSeq(q, convCh')
    BY DEF InSeq
  <2> QED
    BY <2>1, <2>2, <2>3, <2>4, <2>5 DEF ConvOnce
<1>4. CASE ConvReceive
  <2>1. /\ UNCHANGED <<stage, call>> /\ convCh \in Seq(Requests)
        /\ convCh # <<>> /\ convCh' = Tail(convCh)
    BY <1>4 DEF ConvReceive, lifecycleVars, handlerVars, TypeOK
  <2>2. \A q : InSeq(q, convCh') => InSeq(q, convCh)
    BY <2>1, QueueTail
  <2>3. \A i, j \in DOMAIN convCh' : convCh'[i] = convCh'[j] => i = j
    BY <2>1, QueueTail DEF ConvOnce
  <2>4. \A q \in Requests : InSeq(q, convCh)' <=> InSeq(q, convCh')
    BY DEF InSeq
  <2> QED
    BY <2>1, <2>2, <2>3, <2>4 DEF ConvOnce
<1>5. ASSUME NEW r \in Requests, Handler(r), ~OnRequestStart(r),
             ~EnqueueConversation(r)
      PROVE  /\ UNCHANGED convCh
             /\ \A q \in Requests :
                  /\ call'[q] = "conversation" => call[q] = "conversation"
                  /\ stage'[q] = "new" => stage[q] = "new" /\ call'[q] = call[q]
  <2>1. UNCHANGED convCh
    BY <1>5 DEF Handler, OnToken, OnThinking, OnToolCalls, OnRequestComplete,
       OnError, HandlerReturn, Enqueue, EnqueueMessage, EnqueueUpdate, channelVars
  <2>2. \A q \in Requests : call'[q] = "conversation" => call[q] = "conversation"
    BY <1>5 DEF Handler, OnToken, OnThinking, OnToolCalls, OnRequestComplete,
       OnError, HandlerReturn, Enqueue, EnqueueMessage, EnqueueUpdate, Continue,
       handlerVars, TypeOK
  <2>3. ASSUME NEW q \in Requests, stage'[q] = "new"
        PROVE  stage[q] = "new"
    BY <2>3, StartedStays DEF Next
  <2>4. ASSUME NEW q \in Requests, stage'[q] = "new"
        PROVE  call'[q] = call[q]
    <3>1. stage[q] = "new" /\ call[q] = "none"
      BY <2>3, <2>4 DEF ConvOnce
    <3> QED
      BY <1>5, <2>4, <3>1 DEF Handler, OnToken, OnThinking, OnToolCalls,
         OnRequestComplete, OnError, HandlerReturn, Enqueue, EnqueueMessage,
         EnqueueUpdate, Complete, MoveTo, Continue, About, handlerVars, TypeOK,
         LifecycleTypeOK
  <2> QED
    BY <2>1, <2>2, <2>3, <2>4
<1>6. ASSUME ~ConvReceive, ConversationWriter \/ UpdateWriter \/ MessageWriter
             \/ Close \/ UNCHANGED vars
      PROVE  UNCHANGED <<convCh, call, stage>>
  <2>1. UNCHANGED convCh
    BY <1>6 DEF ConversationWriter, ConvWrite, ConvExit, UpdateWriter, UpdReceive,
       UpdWrite, UpdExit, MessageWriter, MsgReceive, MsgTick, MsgCancelled,
       MsgDrain, MsgDrained, FlushBegin, FlushBeginFails, FlushExec, FlushCommit,
       Close, Cancel, CloseReturns, ProcessExit, frontVars, channelVars, vars
  <2> QED
    BY <1>6, <2>1, BackgroundFrame
<1> QED
  BY <1>1, <1>2, <1>3, <1>4, <1>5, <1>6 DEF Next

\* Every step keeps the updates of a conversation to one.
LEMMA UpdOnceNext ==
    ASSUME TypeOK, CustodyInv, UpdOnce, [Next]_vars
    PROVE  UpdOnce'
<1>0. updateCh \in Seq(ConversationUpdate)
  BY DEF TypeOK
<1>1. CASE UNCHANGED <<updateCh, updHeld, endedRows>>
  BY <1>1 DEF UpdOnce, Distinct, Convs, OneOf
<1>2. ASSUME NEW r \in Requests, EnqueueUpdate(r), updateCh' # updateCh
      PROVE  UpdOnce'
  <2>1. PICK e \in taken[r] : updateCh' = Append(updateCh, UpdateOf(e, sent[r]))
    BY <1>2 DEF EnqueueUpdate
  <2> DEFINE v == UpdateOf(e, sent[r])
  <2>2. v \in ConversationUpdate /\ v.conv = e.id
    BY DEF TypeOK, LifecycleTypeOK, Conversation, UpdateOf, ConversationUpdate
  <2>3. UNCHANGED <<updHeld, endedRows>>
    BY <1>2 DEF EnqueueUpdate, backVars, rowVars
  <2> HIDE DEF v
  <2>4. /\ \A i \in DOMAIN updateCh : updateCh[i].conv # v.conv
        /\ \A u \in updHeld \cup endedRows : u.conv # v.conv
    BY <2>2 DEF CustodyInv, TakenInv, Updates
  <2>5. v.conv \notin Convs(updateCh)
    BY <2>4 DEF Convs
  <2>6. Convs(updateCh') = Convs(updateCh) \cup {v.conv} /\ Distinct(updateCh')
    <3>1. updateCh' = Append(updateCh, v)
      BY <2>1 DEF v
    <3> QED
      BY <1>0, <2>2, <2>5, <3>1, ConvsAppend DEF UpdOnce
  <2>7. (Distinct(updateCh))' /\ \A q : (q \in Convs(updateCh))' <=> q \in Convs(updateCh')
    BY <2>6 DEF Distinct, Convs
  <2> QED
    BY <2>3, <2>4, <2>6, <2>7 DEF UpdOnce, OneOf
<1>3. CASE UpdReceive
  <2>1. /\ UNCHANGED endedRows /\ updHeld = {} /\ updHeld' = {Head(updateCh)}
        /\ updateCh # <<>> /\ updateCh' = Tail(updateCh)
    BY <1>3 DEF UpdReceive, rowVars
  <2>2. /\ Convs(updateCh) = Convs(updateCh') \cup {Head(updateCh).conv}
        /\ Distinct(updateCh') /\ Head(updateCh).conv \notin Convs(updateCh')
    BY <1>0, <2>1, ConvsTail DEF UpdOnce
  <2>3. (Distinct(updateCh))' /\ \A q : (q \in Convs(updateCh))' <=> q \in Convs(updateCh')
    BY <2>2 DEF Distinct, Convs
  <2> QED
    BY <2>1, <2>2, <2>3 DEF UpdOnce, OneOf
<1>4. CASE UpdWrite
  <2>1. PICK u \in updHeld : endedRows' \subseteq endedRows \cup {u}
    BY <1>4 DEF UpdWrite
  <2>2. UNCHANGED updateCh /\ updHeld' = {}
    BY <1>4 DEF UpdWrite, channelVars
  <2>3. Convs(updateCh)' = Convs(updateCh) /\ Distinct(updateCh)' = Distinct(updateCh)
    BY <2>2 DEF Convs, Distinct
  <2> QED
    BY <2>1, <2>2, <2>3 DEF UpdOnce
<1>5. ASSUME NEW r \in Requests, Handler(r), ~(EnqueueUpdate(r) /\ updateCh' # updateCh)
      PROVE  UNCHANGED <<updateCh, updHeld, endedRows>>
  BY <1>5 DEF Handler, OnRequestStart, OnToken, OnThinking, OnToolCalls,
     OnRequestComplete, OnError, HandlerReturn, Enqueue, EnqueueConversation,
     EnqueueMessage, EnqueueUpdate, channelVars, backVars, rowVars
<1>6. CASE ConversationWriter \/ UpdExit \/ MessageWriter \/ Close \/ UNCHANGED vars
  <2>1. UNCHANGED <<updateCh, updHeld, endedRows>>
    BY <1>6 DEF ConversationWriter, ConvReceive, ConvWrite, ConvExit, UpdExit,
       MessageWriter, MsgReceive, MsgTick, MsgCancelled, MsgDrain, MsgDrained,
       FlushBegin, FlushBeginFails, FlushExec, FlushCommit, Close, Cancel,
       CloseReturns, ProcessExit, frontVars, channelVars, rowVars, vars
  <2> QED
    BY <1>1, <2>1
<1> QED
  BY <1>1, <1>2, <1>3, <1>4, <1>5, <1>6 DEF Next, UpdateWriter

\* Both hold of every behaviour.
LEMMA OnceHolds == Spec => [](TypeOK /\ CustodyInv /\ OnceInv)
<1>1. Init => OnceInv
  BY DEF Init, LifecycleInit, OnceInv, ConvOnce, UpdOnce, Distinct, InSeq
<1>2. TypeOK /\ CustodyInv /\ OnceInv /\ [Next]_vars => OnceInv'
  BY ConvOnceNext, UpdOnceNext DEF OnceInv
<1> QED
  BY <1>1, <1>2, CustodyHolds, PTL DEF Spec

\* The tables only grow: a row that is there stays, is not written again, and the
\* messages keep the order in which they were inserted.
RowsGrow ==
    /\ convRows \subseteq convRows'
    /\ endedRows \subseteq endedRows'
    /\ \E s \in Seq(MessageRecord) : msgRows' = msgRows \o s

\* A step that writes a row of the tables adds one, or a batch at the end.
LEMMA RowsGrowStep ==
    ASSUME TypeOK, UpdOnce, [Next]_vars
    PROVE  RowsGrow
<1>1. msgRows \in Seq(MessageRecord) /\ batch \in Seq(MessageRecord)
  BY DEF TypeOK
<1>2. \E s \in Seq(MessageRecord) : msgRows' = msgRows \o s
  <2>1. CASE UNCHANGED msgRows
    <3>1. <<>> \in Seq(MessageRecord) /\ msgRows' = msgRows \o <<>>
      BY <1>1, <2>1, ConcatEmptySeq, EmptySeqType
    <3> QED
      BY <3>1
  <2>2. CASE msgRows' = msgRows \o batch
    BY <1>1, <2>2
  <2>3. UNCHANGED msgRows \/ msgRows' = msgRows \o batch
    BY DEF Next, Handler, OnRequestStart, OnToken, OnThinking, OnToolCalls,
       OnRequestComplete, OnError, HandlerReturn, Enqueue, EnqueueConversation,
       EnqueueMessage, EnqueueUpdate, ConversationWriter, ConvReceive, ConvWrite,
       ConvExit, UpdateWriter, UpdReceive, UpdWrite, UpdExit, MessageWriter,
       MsgReceive, MsgTick, MsgCancelled, MsgDrain, MsgDrained, FlushBegin,
       FlushBeginFails, FlushExec, FlushCommit, Close, Cancel, CloseReturns,
       ProcessExit, frontVars, backVars, rowVars, vars
  <2> QED
    BY <2>1, <2>2, <2>3
<1>3. CASE UpdWrite
  <2>1. PICK u \in updHeld :
            \/ endedRows' = {x \in endedRows : x.conv # u.conv} \cup {u}
            \/ endedRows' = endedRows
    BY <1>3 DEF UpdWrite
  <2>2. \A x \in endedRows : x.conv # u.conv
    BY DEF UpdOnce, OneOf
  <2>3. UNCHANGED convRows
    BY <1>3 DEF UpdWrite
  <2> QED
    BY <1>2, <2>1, <2>2, <2>3 DEF RowsGrow
<1>4. CASE ~UpdWrite
  <2>1. UNCHANGED endedRows /\ convRows \subseteq convRows'
    BY <1>4 DEF Next, Handler, OnRequestStart, OnToken, OnThinking, OnToolCalls,
       OnRequestComplete, OnError, HandlerReturn, Enqueue, EnqueueConversation,
       EnqueueMessage, EnqueueUpdate, ConversationWriter, ConvReceive, ConvWrite,
       ConvExit, UpdateWriter, UpdReceive, UpdExit, MessageWriter, MsgReceive,
       MsgTick, MsgCancelled, MsgDrain, MsgDrained, FlushBegin, FlushBeginFails,
       FlushExec, FlushCommit, Close, Cancel, CloseReturns, ProcessExit, frontVars,
       backVars, rowVars, vars
  <2> QED
    BY <1>2, <2>1 DEF RowsGrow
<1> QED
  BY <1>3, <1>4

\* Once written, a row is final: no update of a conversation is overwritten by
\* another, though an UPDATE would overwrite, and no message is moved or removed,
\* whatever identifiers the requests drew and whatever fails
\* (database_hook.go:288-305, 307-347).
THEOREM RowsAreFinal == Spec => [][RowsGrow]_vars
<1>1. TypeOK /\ CustodyInv /\ OnceInv /\ [Next]_vars => [RowsGrow]_vars
  BY RowsGrowStep DEF OnceInv
<1> QED
  BY <1>1, OnceHolds, PTL DEF Spec

\* A channel that holds at most one record of each request, and none of one of
\* them, is not full if it has room for all of them.
LEMMA RoomForAnother ==
    ASSUME IsFiniteSet(Requests), NEW cap \in Nat, Cardinality(Requests) <= cap,
           NEW n \in Nat, NEW f \in [1 .. n -> Requests],
           \A i, j \in 1 .. n : f[i] = f[j] => i = j,
           NEW x \in Requests, \A i \in 1 .. n : f[i] # x
    PROVE  n < cap
<1>1. /\ IsFiniteSet(Requests \ {x}) /\ Cardinality(Requests) \in Nat
      /\ Cardinality(Requests \ {x}) = Cardinality(Requests) - 1
  BY FS_RemoveElement, FS_CardinalityType
<1>2. f \in Injection(1 .. n, Requests \ {x})
  BY DEF Injection, IsInjective
<1>3. Cardinality(1 .. n) <= Cardinality(Requests \ {x})
  BY <1>1, <1>2, FS_Injection
<1>4. Cardinality(1 .. n) = n
  BY FS_Interval
<1> QED
  BY <1>1, <1>3, <1>4

\* Room for a record of every request on each channel.
RoomForAll ==
    /\ IsFiniteSet(Requests)
    /\ Cardinality(Requests) <= ConvCap
    /\ Cardinality(Requests) <= MsgCap
    /\ Cardinality(Requests) <= UpdCap

\* The writers overtake nobody: no statement that refers to the row of a
\* conversation is executed before the row is there.
InOrder ==
    /\ FlushExec => Referenced(batch[tx.executed + 1])
    /\ UpdWrite => \A u \in updHeld : u.conv \in convRows

\* Then no statement fails.
NoLossInv == lost = {} /\ (msgPc = "exec" => tx.ok)

\* A hook call finds room on its channel.
LEMMA HookCallsFindRoom ==
    ASSUME RoomForAll, TypeOK, CustodyInv, OnceInv, NEW r \in Requests, Enqueue(r)
    PROVE  UNCHANGED lost
<1>1. CASE EnqueueConversation(r)
  <2>1. call[r] = "conversation" /\ convCh \in Seq(Requests) /\ Len(convCh) \in Nat
    BY <1>1 DEF EnqueueConversation, About, TypeOK
  <2>2. \A i \in 1 .. Len(convCh) : convCh[i] # r
    BY <2>1 DEF OnceInv, ConvOnce, InSeq
  <2>3. \A i, j \in 1 .. Len(convCh) : convCh[i] = convCh[j] => i = j
    BY <2>1 DEF OnceInv, ConvOnce
  <2>4. convCh \in [1 .. Len(convCh) -> Requests]
    BY <2>1
  <2>5. ConvCap \in Nat
    BY CapAssumption
  <2>6. Len(convCh) < ConvCap
    BY <2>1, <2>2, <2>3, <2>4, <2>5, RoomForAnother DEF RoomForAll
  <2> QED
    BY <1>1, <2>6 DEF EnqueueConversation, Room
<1>2. CASE EnqueueMessage(r)
  <2>1. PICK e \in taken[r] : Room(msgCh, MsgCap) => UNCHANGED lost
    BY <1>2 DEF EnqueueMessage
  <2>2. call[r] = "message" /\ e.id \in Requests
    BY <1>2, OfRequests DEF EnqueueMessage, About
  <2> DEFINE f == [i \in 1 .. Len(msgCh) |-> msgCh[i].conv]
  <2>3. /\ msgCh \in Seq(MessageRecord) /\ Len(msgCh) \in Nat
        /\ f \in [1 .. Len(msgCh) -> Requests]
    <3>1. msgCh \in Seq(MessageRecord) /\ Len(msgCh) \in Nat
      BY DEF TypeOK
    <3>2. \A i \in 1 .. Len(msgCh) : msgCh[i] \in MessageRecord
      BY <3>1
    <3>3. \A i \in 1 .. Len(msgCh) : msgCh[i].conv \in Requests
      BY <3>2 DEF MessageRecord
    <3> QED
      BY <3>1, <3>3
  <2>4. \E n \in Nat : /\ \A i \in 1 .. Len(msgCh) :
                            n + i \in DOMAIN Pipeline /\ Pipeline[n + i] = msgCh[i]
    <3>1. PICK front \in Seq(MessageRecord) : Pipeline = front \o msgCh
      BY PipelineType DEF Pipeline
    <3>2. Len(front) \in Nat
      BY <3>1
    <3>3. \A i \in 1 .. Len(msgCh) : Len(front) + i \in DOMAIN (front \o msgCh)
                                      /\ (front \o msgCh)[Len(front) + i] = msgCh[i]
      BY <2>3, <3>1, <3>2, ConcatProperties, LenProperties
    <3> QED
      BY <3>1, <3>2, <3>3
  <2>5. \A i \in 1 .. Len(msgCh) : f[i] # e.id
    BY <2>2, <2>4 DEF CustodyInv, TakenInv
  <2>6. \A i, j \in 1 .. Len(msgCh) : f[i] = f[j] => i = j
    <3>1. PICK n \in Nat : \A i \in 1 .. Len(msgCh) :
              n + i \in DOMAIN Pipeline /\ Pipeline[n + i] = msgCh[i]
      BY <2>4
    <3> SUFFICES ASSUME NEW i \in 1 .. Len(msgCh), NEW j \in 1 .. Len(msgCh),
                        msgCh[i].conv = msgCh[j].conv
                 PROVE  i = j
      OBVIOUS
    <3>2. n + i = n + j
      BY <3>1 DEF CustodyInv, SentInv, OneMessagePerConversation
    <3> QED
      BY <2>3, <3>2
  <2>7. MsgCap \in Nat
    BY CapAssumption
  <2> HIDE DEF f
  <2>8. Len(msgCh) < MsgCap
    BY <2>2, <2>3, <2>5, <2>6, <2>7, RoomForAnother DEF RoomForAll
  <2> QED
    BY <2>1, <2>8 DEF Room
<1>3. CASE EnqueueUpdate(r)
  <2>1. PICK e \in taken[r] : Room(updateCh, UpdCap) => UNCHANGED lost
    BY <1>3 DEF EnqueueUpdate
  <2>2. e.id \in Requests
    BY OfRequests
  <2> DEFINE f == [i \in 1 .. Len(updateCh) |-> updateCh[i].conv]
  <2>3. /\ updateCh \in Seq(ConversationUpdate) /\ Len(updateCh) \in Nat
        /\ f \in [1 .. Len(updateCh) -> Requests]
    <3>1. updateCh \in Seq(ConversationUpdate) /\ Len(updateCh) \in Nat
      BY DEF TypeOK
    <3>2. \A i \in 1 .. Len(updateCh) : updateCh[i] \in ConversationUpdate
      BY <3>1
    <3>3. \A i \in 1 .. Len(updateCh) : updateCh[i].conv \in Requests
      BY <3>2 DEF ConversationUpdate
    <3> QED
      BY <3>1, <3>3
  <2>4. \A i \in 1 .. Len(updateCh) : f[i] # e.id
    BY <2>3 DEF CustodyInv, TakenInv, Updates
  <2>5. \A i, j \in 1 .. Len(updateCh) : f[i] = f[j] => i = j
    BY <2>3 DEF OnceInv, UpdOnce, Distinct
  <2>6. UpdCap \in Nat
    BY CapAssumption
  <2> HIDE DEF f
  <2>7. Len(updateCh) < UpdCap
    BY <2>2, <2>3, <2>4, <2>5, <2>6, RoomForAnother DEF RoomForAll
  <2> QED
    BY <2>1, <2>7 DEF Room
<1> QED
  BY <1>1, <1>2, <1>3 DEF Enqueue

\* In order, no transaction is aborted and no update misses its row.
LEMMA NoLossNext ==
    ASSUME ~DbFails, RoomForAll, TypeOK, CustodyInv, OnceInv, NoLossInv,
           [Next]_vars, [InOrder]_vars
    PROVE  NoLossInv'
<1>1. ASSUME NEW r \in Requests, Handler(r) PROVE NoLossInv'
  <2>1. UNCHANGED <<msgPc, tx>>
    BY <1>1 DEF Handler, OnRequestStart, OnToken, OnThinking, OnToolCalls,
       OnRequestComplete, OnError, HandlerReturn, Enqueue, EnqueueConversation,
       EnqueueMessage, EnqueueUpdate, backVars, messageVars
  <2>2. UNCHANGED lost
    BY <1>1, HookCallsFindRoom DEF Handler, OnRequestStart, OnToken, OnThinking,
       OnToolCalls, OnRequestComplete, OnError, HandlerReturn
  <2> QED
    BY <2>1, <2>2 DEF NoLossInv
<1>2. CASE ConversationWriter \/ Close \/ UNCHANGED vars \/ UpdReceive \/ UpdExit
  BY <1>2 DEF ConversationWriter, ConvReceive, ConvWrite, ConvExit, Close, Cancel,
     CloseReturns, ProcessExit, UpdReceive, UpdExit, messageVars, vars, NoLossInv
<1>3. CASE UpdWrite
  <2>1. updHeld # {} /\ updHeld' = {}
    BY <1>3 DEF UpdWrite
  <2>2. \A u \in updHeld : u.conv \in convRows
    BY <1>3, <2>1 DEF InOrder, vars
  <2> QED
    BY <1>3, <2>2 DEF UpdWrite, NoLossInv, messageVars
<1>4. CASE FlushExec
  <2>1. tx' # tx
    BY <1>4 DEF FlushExec, TypeOK
  <2>2. Referenced(batch[tx.executed + 1])
    BY <1>4, <2>1 DEF InOrder, vars, messageVars
  <2>3. tx.ok /\ lost = {}
    BY <1>4 DEF FlushExec, NoLossInv
  <2>4. tx'.ok
    <3>1. PICK ok \in {TRUE, TRUE /\ ~DbFails} :
              tx' = [executed |-> tx.executed + 1, ok |-> ok]
      BY <1>4, <2>2, <2>3 DEF FlushExec
    <3>2. ok
      BY <3>1
    <3> QED
      BY <3>1, <3>2
  <2> QED
    BY <1>4, <2>3, <2>4 DEF FlushExec, NoLossInv
<1>5. CASE FlushCommit
  BY <1>5 DEF FlushCommit, FlushOver, NoLossInv
<1>6. CASE MsgReceive \/ MsgTick \/ MsgCancelled \/ MsgDrain \/ MsgDrained
           \/ FlushBegin \/ FlushBeginFails
  BY <1>6 DEF MsgReceive, MsgTick, MsgCancelled, MsgDrain, MsgDrained, FlushBegin,
     FlushBeginFails, NoLossInv
<1> QED
  BY <1>1, <1>2, <1>3, <1>4, <1>5, <1>6 DEF Next, MessageWriter, UpdateWriter

\* With room on the channels and a database that does not fail, a record is lost
\* only if one writer overtakes another: as long as no INSERT of a message and no
\* UPDATE is executed before the conversation is in its table, no transaction is
\* aborted and nothing is ever lost, whatever the order of hook calls, receives
\* and ticks and whenever Close is called (database_hook.go:118-129, 186-202,
\* 231-269, 299-347).
THEOREM OnlyOvertakingLoses ==
    ~DbFails /\ RoomForAll /\ Spec /\ [][InOrder]_vars => [](lost = {})
<1> SUFFICES ASSUME ~DbFails, RoomForAll PROVE Spec /\ [][InOrder]_vars => [](lost = {})
  OBVIOUS
<1>1. Init => NoLossInv
  BY DEF Init, NoLossInv
<1>2. TypeOK /\ CustodyInv /\ OnceInv /\ NoLossInv /\ [Next]_vars /\ [InOrder]_vars
        => NoLossInv'
  BY NoLossNext
<1>3. NoLossInv => lost = {}
  BY DEF NoLossInv
<1> QED
  BY <1>1, <1>2, <1>3, OnceHolds, PTL DEF Spec

\* What README.md:101 says of messages, which does not hold of the plugin, holds of
\* it once the writers do not overtake each other and the channels have room for
\* every request (database_hook.go:186-190, 307-347).
THEOREM MessagesPersistInOrder ==
    RoomForAll /\ Spec /\ [][InOrder]_vars => []MessagesArePersisted
<1>1. CASE DbFails
  <2>1. MessagesArePersisted
    BY <1>1 DEF MessagesArePersisted
  <2> QED
    BY <2>1, PTL
<1>2. CASE ~DbFails
  <2>1. lost = {} => MessagesArePersisted
    BY DEF MessagesArePersisted
  <2> QED
    BY <1>2, <2>1, OnlyOvertakingLoses, PTL
<1> QED
  BY <1>1, <1>2

-----------------------------------------------------------------------------
(* That the records are made.                                              *)

\* A request that has started has made its conversation record, and one that is
\* complete the other two, whatever became of them.
MadeInv ==
    \A r \in Requests :
        /\ stage[r] = "open" => conversations[ReqID[r]] # {}
        /\ stage[r] \in {"open", "completed", "abandoned"} =>
              fateOf[r]["conversation"] # "none"
        /\ stage[r] = "completed" =>
              fateOf[r]["message"] # "none" /\ fateOf[r]["update"] # "none"

\* A record on its way has a fate.
LEMMA DueIsAFate ==
    ASSUME NEW r \in Requests, NEW k \in Writers, OnItsWay(r, k)'
    PROVE  fateOf'[r][k] # "none"
BY FateIs DEF FateRight

\* A step of a handler keeps its conversation in the map until it completes,
\* fails or returns.
LEMMA OpenKeepsEntry ==
    ASSUME NoCollision, TypeOK, [Next]_vars, NEW q \in Requests,
           stage[q] = "open" => conversations[ReqID[q]] # {},
           stage'[q] = "open"
    PROVE  conversations'[ReqID[q]] # {}
<1>1. CASE UNCHANGED <<stage, conversations>>
  BY <1>1
<1>2. ASSUME NEW r \in Requests, Handler(r), r # q PROVE conversations'[ReqID[q]] # {}
  BY <1>2, HandlerFrame
<1>3. CASE OnRequestStart(q)
  BY <1>3, StartsNew
<1>4. CASE OnToken(q) \/ OnThinking(q) \/ OnToolCalls(q)
  <2> DEFINE K == {AddToken(e, [of |-> q, n |-> sent[q] + 1]) :
                      e \in conversations[ReqID[q]]}
  <2> DEFINE T == {AddThinking(e, q) : e \in conversations[ReqID[q]]}
  <2> DEFINE C == {SetToolCalls(e, q) : e \in conversations[ReqID[q]]}
  <2>1. \/ conversations' = [conversations EXCEPT ![ReqID[q]] = K]
        \/ conversations' = [conversations EXCEPT ![ReqID[q]] = T]
        \/ conversations' = [conversations EXCEPT ![ReqID[q]] = C]
    BY <1>4 DEF OnToken, OnThinking, OnToolCalls
  <2>2. stage[q] = "open"
    BY <1>4 DEF OnToken, OnThinking, OnToolCalls, Token, lifecycleVars
  <2>3. K # {} /\ T # {} /\ C # {}
    BY <2>2
  <2> HIDE DEF K, T, C
  <2> QED
    BY <2>1, <2>3, OtherEntries
<1>5. CASE HandlerReturn(q) \/ OnRequestComplete(q) \/ OnError(q)
  BY <1>5 DEF HandlerReturn, OnRequestComplete, OnError, Complete, Fail, Return,
     MoveTo, TypeOK, LifecycleTypeOK
<1>6. CASE Enqueue(q)
  BY <1>1, <1>6 DEF Enqueue, EnqueueConversation, EnqueueMessage, EnqueueUpdate,
     lifecycleVars
<1>7. CASE ConversationWriter \/ UpdateWriter \/ MessageWriter \/ Close
           \/ UNCHANGED vars
  BY <1>1, <1>7, BackgroundFrame
<1> QED
  BY <1>2, <1>3, <1>4, <1>5, <1>6, <1>7 DEF Next, Handler

\* The stages come in order, and the hook calls that change them make records.
LEMMA StageMakes ==
    ASSUME NoCollision, TypeOK, MadeInv, [Next]_vars, NEW q \in Requests
    PROVE  /\ stage'[q] \in {"open", "completed", "abandoned"} =>
                 \/ stage[q] \in {"open", "completed", "abandoned"}
                 \/ call'[q] = "conversation"
           /\ stage'[q] = "completed" =>
                 stage[q] = "completed" \/ call'[q] = "message"
<1>1. CASE UNCHANGED stage
  BY <1>1
<1>2. ASSUME NEW r \in Requests, Handler(r), r # q PROVE stage'[q] = stage[q]
  BY <1>2, HandlerFrame
<1>3. CASE OnRequestStart(q)
  BY <1>3, StartsNew DEF OnRequestStart, Continue, TypeOK
<1>4. CASE OnRequestComplete(q)
  BY <1>4 DEF OnRequestComplete, Complete, MoveTo, MayCall, Continue, MadeInv,
     TypeOK, LifecycleTypeOK
<1>5. CASE OnError(q) \/ HandlerReturn(q)
  BY <1>5 DEF OnError, HandlerReturn, Fail, Return, MoveTo, TypeOK, LifecycleTypeOK
<1>6. CASE OnToken(q) \/ OnThinking(q) \/ OnToolCalls(q) \/ Enqueue(q)
  <2>1. UNCHANGED stage
    BY <1>6 DEF OnToken, OnThinking, OnToolCalls, Token, Enqueue,
       EnqueueConversation, EnqueueMessage, EnqueueUpdate, lifecycleVars
  <2> QED
    BY <1>1, <2>1
<1>7. CASE ConversationWriter \/ UpdateWriter \/ MessageWriter \/ Close
           \/ UNCHANGED vars
  BY <1>1, <1>7, BackgroundFrame
<1> QED
  BY <1>2, <1>3, <1>4, <1>5, <1>6, <1>7 DEF Next, Handler

\* A step that moves a request to a stage makes the records of that stage.
LEMMA MadeInvNext ==
    ASSUME NoCollision, TypeOK, MadeInv, [Next]_vars, FatesAreFinal
    PROVE  MadeInv'
<1> SUFFICES ASSUME NEW q \in Requests
             PROVE  /\ stage'[q] = "open" => conversations'[ReqID[q]] # {}
                    /\ stage'[q] \in {"open", "completed", "abandoned"} =>
                          fateOf'[q]["conversation"] # "none"
                    /\ stage'[q] = "completed" =>
                          /\ fateOf'[q]["message"] # "none"
                          /\ fateOf'[q]["update"] # "none"
  BY DEF MadeInv
<1>1. \A k \in Writers : fateOf[q][k] # "none" => fateOf'[q][k] # "none"
  BY DEF FatesAreFinal
<1>2. call'[q] = "conversation" => fateOf'[q]["conversation"] # "none"
  BY DueIsAFate, WayIs DEF Ways, Writers
<1>3. call'[q] = "message" =>
          fateOf'[q]["message"] # "none" /\ fateOf'[q]["update"] # "none"
  BY DueIsAFate, WayIs DEF Ways, Writers, Completing
<1>4. stage'[q] = "open" => conversations'[ReqID[q]] # {}
  BY OpenKeepsEntry DEF MadeInv
<1> QED
  BY <1>1, <1>2, <1>3, <1>4, StageMakes DEF MadeInv, Writers

\* No completion finds its conversation missing: a request that has started has
\* made its conversation, and one that has completed its message and its update,
\* so that what is not stored has been dropped by a full channel or lost by a
\* writer, and was never forgotten (database_hook.go:108-129, 155-202).
THEOREM EveryRecordIsMade == NoCollision /\ Spec => []MadeInv
<1> SUFFICES ASSUME NoCollision PROVE Spec => []MadeInv
  OBVIOUS
<1>1. Init => MadeInv
  BY DEF Init, LifecycleInit, MadeInv
<1>2. TypeOK /\ MadeInv /\ [Next]_vars /\ [FatesAreFinal]_vars => MadeInv'
  <2>1. ASSUME TypeOK, MadeInv, UNCHANGED vars PROVE FatesAreFinal
    <3>1. UNCHANGED <<call, channelVars, convHeld, updHeld, batch, rowVars, lost>>
      BY <2>1 DEF vars, handlerVars, messageVars
    <3> QED
      BY <3>1, OtherStepsMap, LogStepsAreFinal
  <2> QED
    BY <2>1, MadeInvNext
<1>3. Spec => []TypeOK
  BY TypeCorrect
<1> QED
  BY <1>1, <1>2, <1>3, FatesAreForGood, PTL DEF Spec

\* With Close returned, each of the records of the requests that had returned
\* when it was called is stored or was never made, both of a completion alike.
EarlierAreStored ==
    proc \in {"closed", "exited"} =>
        \A r \in Requests \ late :
            /\ \A k \in Writers : fateOf[r][k] \in {"none", "stored"}
            /\ fateOf[r]["message"] = fateOf[r]["update"]

\* A graceful end loses nothing if no writer overtakes another: with room, and a
\* database that does not fail, every record made by a request that had returned
\* when Close was called is in the database when Close returns
\* (database_hook.go:204-347, 349-353).
THEOREM InOrderStoresAll ==
    ~DbFails /\ RoomForAll /\ NoCollision /\ Spec /\ [][InOrder]_vars
        => []EarlierAreStored
<1>1. NothingIsDue /\ FatesAgree /\ lost = {} => EarlierAreStored
  <2> SUFFICES ASSUME NothingIsDue, FatesAgree, lost = {},
                      proc \in {"closed", "exited"}, NEW r \in Requests \ late
               PROVE  /\ \A k \in Writers : fateOf[r][k] \in {"none", "stored"}
                      /\ fateOf[r]["message"] = fateOf[r]["update"]
    BY DEF EarlierAreStored
  <2>1. ASSUME NEW k \in Writers PROVE fateOf[r][k] \in {"none", "stored"}
    <3>1. ~Dropped(r, k) /\ ~OnItsWay(r, k)
      BY DEF NothingIsDue, Dropped
    <3> QED
      BY <3>1, FateIs DEF FateRight
  <2>2. fateOf[r]["message"] = "none" <=> fateOf[r]["update"] = "none"
    BY DEF FatesAgree
  <2>3. fateOf[r]["message"] \in {"none", "stored"}
        /\ fateOf[r]["update"] \in {"none", "stored"}
    BY <2>1 DEF Writers
  <2> QED
    BY <2>1, <2>2, <2>3
<1> QED
  BY <1>1, OnlyOvertakingLoses, DrainSettlesAll, RecordsGoTogether, PTL

-----------------------------------------------------------------------------
(* The writers come to an end: what keeps Close from waiting for ever.     *)

\* The most steps that each writer has left to take with what it has: two for a
\* record on a channel, which is received and written, and one to return.
ConvWork ==
    2 * Len(convCh) + (IF convHeld = {} THEN 0 ELSE 1)
        + (IF "conversation" \in exited THEN 0 ELSE 1)

UpdWork ==
    2 * Len(updateCh) + (IF updHeld = {} THEN 0 ELSE 1)
        + (IF "update" \in exited THEN 0 ELSE 1)

\* A message in the batch is inserted, and may be flushed, committed and waited for
\* alone; the remainder is the way through the loop, or back from a flush.
MsgRest ==
    5 * Len(batch)
        + (CASE msgPc = "select" -> 4
             [] msgPc = "drain" -> 3
             [] msgPc = "flush" -> 2
             [] msgPc = "exec" -> 1 - tx.executed
             [] msgPc = "exited" -> 0)

MsgWork == 7 * Len(msgCh) + MsgRest

Work == ConvWork + UpdWork + MsgWork

\* A flush has messages, and its loop stays within them (database_hook.go:313-347).
FlushInv ==
    /\ msgPc \in {"flush", "exec"} => batch # <<>>
    /\ msgPc = "exec" => tx.executed <= Len(batch)
    /\ msgPc = "exited" <=> "message" \in exited

\* Each step of a writer leaves less work.  Only the sends of a hook call add to
\* it, by one record, and closing does not.
WritersFinish ==
    /\ ConversationWriter \/ UpdateWriter \/ MessageWriter => Work' < Work
    /\ \A r \in Requests :
          Handler(r) => IF Enqueue(r) THEN Work' <= Work + 7 ELSE Work' = Work
    /\ Close => Work' = Work

\* Work is a number: it cannot decrease for ever.
LEMMA WorkTypes ==
    ASSUME TypeOK, FlushInv
    PROVE  ConvWork \in Nat /\ UpdWork \in Nat /\ MsgWork \in Nat /\ Work \in Nat
<1>1. ConvWork \in Nat /\ UpdWork \in Nat
  BY DEF TypeOK, ConvWork, UpdWork
<1>2. /\ Len(msgCh) \in Nat /\ Len(batch) \in Nat /\ tx.executed \in Nat
      /\ msgPc \in {"select", "drain", "flush", "exec", "exited"}
      /\ msgPc = "exec" => tx.executed <= Len(batch)
  BY DEF TypeOK, FlushInv
<1>3. MsgWork \in Nat
  BY <1>2 DEF MsgWork, MsgRest
<1> QED
  BY <1>1, <1>3 DEF Work

\* The same of the state after a step.
LEMMA WorkTypesNext ==
    (TypeOK /\ FlushInv)' => (ConvWork \in Nat /\ UpdWork \in Nat /\ MsgWork \in Nat)'
<1>1. TypeOK /\ FlushInv => ConvWork \in Nat /\ UpdWork \in Nat /\ MsgWork \in Nat
  BY WorkTypes
<1> QED
  BY <1>1, PTL

\* A channel has one record more, or one less.
LEMMA LenAppend ==
    ASSUME NEW S, NEW s \in Seq(S), NEW x
    PROVE  Len(Append(s, x)) = Len(s) + 1 /\ Append(s, x) # <<>>
<1>1. s \in Seq(S \cup {x})
  OBVIOUS
<1>2. x \in S \cup {x}
  OBVIOUS
<1> QED
  BY <1>1, <1>2, AppendProperties

LEMMA LenTail ==
    ASSUME NEW S, NEW s \in Seq(S), s # <<>>
    PROVE  Len(Tail(s)) = Len(s) - 1 /\ Len(s) >= 1
BY EmptySeq, HeadTailProperties

\* Every step leaves a flush within its batch.
LEMMA FlushInvNext ==
    ASSUME TypeOK, FlushInv, [Next]_vars
    PROVE  FlushInv'
<1>1. CASE UNCHANGED <<msgPc, batch, tx, exited>>
  BY <1>1 DEF FlushInv
<1>2. CASE MsgReceive
  <2>1. /\ msgPc = "select" /\ batch' = Append(batch, Head(msgCh))
        /\ msgPc' \in {"flush", "select"} /\ UNCHANGED exited
    BY <1>2 DEF MsgReceive
  <2>2. batch' # <<>>
    BY <2>1, LenAppend DEF TypeOK
  <2> QED
    BY <2>1, <2>2 DEF FlushInv
<1>3. CASE MsgTick \/ MsgCancelled \/ MsgDrain
  BY <1>3 DEF MsgTick, MsgCancelled, MsgDrain, FlushInv
<1>4. CASE MsgDrained
  BY <1>4 DEF MsgDrained, FlushInv
<1>5. CASE FlushBegin
  <2>1. /\ msgPc = "flush" /\ msgPc' = "exec" /\ tx'.executed = 0
        /\ UNCHANGED <<batch, exited>>
    BY <1>5 DEF FlushBegin
  <2>2. Len(batch) \in Nat
    BY DEF TypeOK
  <2> QED
    BY <2>1, <2>2 DEF FlushInv
<1>6. CASE FlushExec
  <2>1. /\ msgPc = "exec" /\ tx.executed < Len(batch)
        /\ tx'.executed = tx.executed + 1 /\ UNCHANGED <<msgPc, batch, exited>>
    BY <1>6 DEF FlushExec
  <2>2. Len(batch) \in Nat /\ tx.executed \in Nat
    BY DEF TypeOK
  <2> QED
    BY <2>1, <2>2 DEF FlushInv
<1>7. CASE FlushBeginFails \/ FlushCommit
  <2>1. FlushOver /\ msgPc \in {"flush", "exec"}
    BY <1>7 DEF FlushBeginFails, FlushCommit
  <2> QED
    BY <2>1 DEF FlushOver, FlushInv
<1>8. CASE (\E r \in Requests : Handler(r)) \/ Close \/ UNCHANGED vars
  BY <1>1, <1>8 DEF Handler, OnRequestStart, OnToken, OnThinking, OnToolCalls,
     OnRequestComplete, OnError, HandlerReturn, Enqueue, EnqueueConversation,
     EnqueueMessage, EnqueueUpdate, Close, Cancel, CloseReturns, ProcessExit,
     backVars, messageVars, vars
<1>9. CASE ConversationWriter \/ UpdateWriter
  BY <1>9 DEF ConversationWriter, ConvReceive, ConvWrite, ConvExit, UpdateWriter,
     UpdReceive, UpdWrite, UpdExit, messageVars, FlushInv
<1> QED
  BY <1>2, <1>3, <1>4, <1>5, <1>6, <1>7, <1>8, <1>9 DEF Next, MessageWriter

\* Each writer has less to do after its own steps, and the others as much.
LEMMA ConvWorkLess ==
    ASSUME TypeOK, ConversationWriter
    PROVE  ConvWork' < ConvWork /\ UpdWork' = UpdWork /\ MsgWork' = MsgWork
<1>1. UpdWork' = UpdWork /\ MsgWork' = MsgWork
  BY DEF ConversationWriter, ConvReceive, ConvWrite, ConvExit, messageVars,
     channelVars, UpdWork, MsgWork, MsgRest
<1>2. convCh \in Seq(Requests) /\ Len(convCh) \in Nat
  BY DEF TypeOK
<1>3. CASE ConvReceive
  <2>1. Len(convCh') = Len(convCh) - 1 /\ Len(convCh) >= 1
    BY <1>2, <1>3, LenTail DEF ConvReceive
  <2> QED
    BY <1>1, <1>2, <1>3, <2>1 DEF ConvReceive, ConvWork
<1>4. CASE ConvWrite
  BY <1>1, <1>2, <1>4 DEF ConvWrite, channelVars, ConvWork
<1>5. CASE ConvExit
  BY <1>1, <1>2, <1>5 DEF ConvExit, channelVars, ConvWork
<1> QED
  BY <1>3, <1>4, <1>5 DEF ConversationWriter

LEMMA UpdWorkLess ==
    ASSUME TypeOK, UpdateWriter
    PROVE  UpdWork' < UpdWork /\ ConvWork' = ConvWork /\ MsgWork' = MsgWork
<1>1. ConvWork' = ConvWork /\ MsgWork' = MsgWork
  BY DEF UpdateWriter, UpdReceive, UpdWrite, UpdExit, messageVars,
     channelVars, ConvWork, MsgWork, MsgRest
<1>2. updateCh \in Seq(ConversationUpdate) /\ Len(updateCh) \in Nat
  BY DEF TypeOK
<1>3. CASE UpdReceive
  <2>1. Len(updateCh') = Len(updateCh) - 1 /\ Len(updateCh) >= 1
    BY <1>2, <1>3, LenTail DEF UpdReceive
  <2> QED
    BY <1>1, <1>2, <1>3, <2>1 DEF UpdReceive, UpdWork
<1>4. CASE UpdWrite
  BY <1>1, <1>2, <1>4 DEF UpdWrite, channelVars, UpdWork
<1>5. CASE UpdExit
  BY <1>1, <1>2, <1>5 DEF UpdExit, channelVars, UpdWork
<1> QED
  BY <1>3, <1>4, <1>5 DEF UpdateWriter

LEMMA MsgWorkLess ==
    ASSUME TypeOK, FlushInv, MessageWriter
    PROVE  MsgWork' < MsgWork /\ ConvWork' = ConvWork /\ UpdWork' = UpdWork
<1>1. ConvWork' = ConvWork /\ UpdWork' = UpdWork
  <2>1. UNCHANGED <<convCh, updateCh, convHeld, updHeld>>
        /\ (exited' = exited \/ exited' = exited \cup {"message"})
    BY DEF MessageWriter, MsgReceive, MsgTick, MsgCancelled, MsgDrain, MsgDrained,
       FlushBegin, FlushBeginFails, FlushExec, FlushCommit, FlushOver, frontVars
  <2> QED
    BY <2>1 DEF ConvWork, UpdWork
<1>2. /\ msgCh \in Seq(MessageRecord) /\ batch \in Seq(MessageRecord)
      /\ Len(msgCh) \in Nat /\ Len(batch) \in Nat /\ tx.executed \in Nat
  BY DEF TypeOK
<1>3. CASE MsgReceive
  <2>1. /\ Len(msgCh') = Len(msgCh) - 1 /\ Len(msgCh) >= 1
        /\ Len(batch') = Len(batch) + 1
    BY <1>2, <1>3, LenTail, LenAppend DEF MsgReceive
  <2>2. msgPc = "select" /\ msgPc' \in {"flush", "select"}
    BY <1>3 DEF MsgReceive
  <2> QED
    BY <1>1, <1>2, <2>1, <2>2 DEF MsgWork, MsgRest
<1>4. CASE MsgTick \/ MsgCancelled
  BY <1>1, <1>2, <1>4 DEF MsgTick, MsgCancelled, MsgWork, MsgRest
<1>5. CASE MsgDrain
  <2>1. /\ Len(msgCh') = Len(msgCh) - 1 /\ Len(msgCh) >= 1
        /\ Len(batch') = Len(batch) + 1
    BY <1>2, <1>5, LenTail, LenAppend DEF MsgDrain
  <2>2. msgPc = "drain" /\ msgPc' = "drain"
    BY <1>5 DEF MsgDrain
  <2> QED
    BY <1>1, <1>2, <2>1, <2>2 DEF MsgWork, MsgRest
<1>6. CASE MsgDrained
  <2>1. msgPc = "drain" /\ msgPc' \in {"exited", "flush"} /\ UNCHANGED <<msgCh, batch>>
    BY <1>6 DEF MsgDrained
  <2> QED
    BY <1>1, <1>2, <2>1 DEF MsgWork, MsgRest
<1>7. CASE FlushBegin
  <2>1. /\ msgPc = "flush" /\ msgPc' = "exec" /\ tx'.executed = 0
        /\ UNCHANGED <<msgCh, batch>>
    BY <1>7 DEF FlushBegin
  <2> QED
    BY <1>1, <1>2, <2>1 DEF MsgWork, MsgRest
<1>8. CASE FlushExec
  <2>1. /\ msgPc = "exec" /\ msgPc' = "exec" /\ tx'.executed = tx.executed + 1
        /\ UNCHANGED <<msgCh, batch>>
    BY <1>8 DEF FlushExec
  <2> QED
    BY <1>1, <1>2, <2>1 DEF MsgWork, MsgRest
<1>9. CASE FlushBeginFails \/ FlushCommit
  <2>1. /\ FlushOver /\ UNCHANGED msgCh /\ msgPc \in {"flush", "exec"}
    BY <1>9 DEF FlushBeginFails, FlushCommit
  <2>2. batch' = <<>> /\ msgPc' \in {"exited", "select"} /\ Len(<<>>) = 0
    BY <2>1 DEF FlushOver
  <2>3. Len(batch) >= 1 /\ (msgPc = "exec" => tx.executed <= Len(batch))
    BY <1>2, <2>1, EmptySeq DEF FlushInv
  <2>4. MsgWork' <= 7 * Len(msgCh) + 4
    BY <1>2, <2>1, <2>2 DEF MsgWork, MsgRest
  <2>5. MsgWork > 7 * Len(msgCh) + 4
    BY <1>2, <2>1, <2>3 DEF MsgWork, MsgRest
  <2>6. MsgWork \in Int /\ MsgWork' \in Int
    BY <1>2, <2>1, <2>2 DEF MsgWork, MsgRest
  <2> QED
    BY <1>1, <1>2, <2>4, <2>5, <2>6
<1> QED
  BY <1>3, <1>4, <1>5, <1>6, <1>7, <1>8, <1>9 DEF MessageWriter

\* A handler adds one record at most, in the sends of a hook call.
LEMMA HandlerWork ==
    ASSUME TypeOK, FlushInv, NEW r \in Requests, Handler(r)
    PROVE  IF Enqueue(r) THEN Work' <= Work + 7 ELSE Work' = Work
<1>1. UNCHANGED <<convHeld, updHeld, batch, msgPc, tx, exited>>
  BY DEF Handler, OnRequestStart, OnToken, OnThinking, OnToolCalls,
     OnRequestComplete, OnError, HandlerReturn, Enqueue, EnqueueConversation,
     EnqueueMessage, EnqueueUpdate, backVars, messageVars
<1>2. Work \in Nat /\ ConvWork \in Nat /\ UpdWork \in Nat /\ MsgWork \in Nat
  BY WorkTypes
<1>3. CASE Enqueue(r)
  <2>1. \/ Len(convCh') = Len(convCh) + 1 /\ UNCHANGED <<msgCh, updateCh>>
        \/ Len(msgCh') = Len(msgCh) + 1 /\ UNCHANGED <<convCh, updateCh>>
        \/ Len(updateCh') = Len(updateCh) + 1 /\ UNCHANGED <<convCh, msgCh>>
        \/ UNCHANGED channelVars
    BY <1>3, LenAppend DEF Enqueue, EnqueueConversation, EnqueueMessage,
       EnqueueUpdate, channelVars, TypeOK
  <2>2. Len(convCh) \in Nat /\ Len(msgCh) \in Nat /\ Len(updateCh) \in Nat
    BY DEF TypeOK
  <2>3. CASE Len(convCh') = Len(convCh) + 1 /\ UNCHANGED <<msgCh, updateCh>>
    <3>1. ConvWork' = ConvWork + 2 /\ UpdWork' = UpdWork /\ MsgWork' = MsgWork
      BY <1>1, <2>2, <2>3 DEF ConvWork, UpdWork, MsgWork, MsgRest
    <3> QED
      BY <1>2, <1>3, <3>1 DEF Work
  <2>4. CASE Len(msgCh') = Len(msgCh) + 1 /\ UNCHANGED <<convCh, updateCh>>
    <3>1. MsgRest' = MsgRest /\ MsgRest \in Int
      <4>1. /\ Len(batch) \in Nat /\ tx.executed \in Nat
            /\ msgPc \in {"select", "drain", "flush", "exec", "exited"}
        BY DEF TypeOK
      <4> QED
        BY <1>1, <4>1 DEF MsgRest
    <3>2. ConvWork' = ConvWork /\ UpdWork' = UpdWork /\ MsgWork' = MsgWork + 7
      BY <1>1, <2>2, <2>4, <3>1 DEF ConvWork, UpdWork, MsgWork
    <3> QED
      BY <1>2, <1>3, <3>2 DEF Work
  <2>5. CASE Len(updateCh') = Len(updateCh) + 1 /\ UNCHANGED <<convCh, msgCh>>
    <3>1. UpdWork' = UpdWork + 2 /\ ConvWork' = ConvWork /\ MsgWork' = MsgWork
      BY <1>1, <2>2, <2>5 DEF ConvWork, UpdWork, MsgWork, MsgRest
    <3> QED
      BY <1>2, <1>3, <3>1 DEF Work
  <2>6. CASE UNCHANGED channelVars
    <3>1. Work' = Work
      BY <1>1, <2>6 DEF channelVars, Work, ConvWork, UpdWork, MsgWork, MsgRest
    <3> QED
      BY <1>2, <1>3, <3>1
  <2> QED
    BY <2>1, <2>3, <2>4, <2>5, <2>6
<1>4. CASE ~Enqueue(r)
  <2>1. UNCHANGED channelVars
    BY <1>4 DEF Handler, OnRequestStart, OnToken, OnThinking, OnToolCalls,
       OnRequestComplete, OnError, HandlerReturn
  <2>2. Work' = Work
    BY <1>1, <2>1 DEF channelVars, Work, ConvWork, UpdWork, MsgWork, MsgRest
  <2> QED
    BY <1>4, <2>2
<1> QED
  BY <1>3, <1>4

\* A sum is less if one of its parts is.
LEMMA SumLess ==
    ASSUME NEW a \in Nat, NEW b \in Nat, NEW c \in Nat, NEW d \in Nat, d < a
    PROVE  d + b + c < a + b + c /\ b + d + c < b + a + c /\ b + c + d < b + c + a
OBVIOUS

\* The safety half of CloseTerminates: once the handlers send nothing, the writers
\* can take only so many steps, whatever fails: no loop of the drain runs twice
\* over one record, and a failed transaction is not tried again
\* (database_hook.go:222-229, 259-267, 280-286, 307-347).
THEOREM WritersComeToAnEnd ==
    Spec => [](FlushInv /\ Work \in Nat) /\ [][WritersFinish]_vars
<1>1. Init => FlushInv
  BY DEF Init, FlushInv
<1>2. TypeOK /\ FlushInv /\ [Next]_vars => FlushInv'
  BY FlushInvNext
<1>3. TypeOK /\ FlushInv => FlushInv /\ Work \in Nat
  BY WorkTypes
<1>4. TypeOK /\ FlushInv /\ [Next]_vars => [WritersFinish]_vars
  <2> SUFFICES ASSUME TypeOK, FlushInv, [Next]_vars PROVE WritersFinish
    OBVIOUS
  <2>0. TypeOK' /\ FlushInv'
    BY NextType, FlushInvNext
  <2>1. ConvWork \in Nat /\ UpdWork \in Nat /\ MsgWork \in Nat
    BY WorkTypes
  <2>2. ConvWork' \in Nat /\ UpdWork' \in Nat /\ MsgWork' \in Nat
    BY <2>0, WorkTypesNext
  <2>3. Work' = ConvWork' + UpdWork' + MsgWork' /\ Work = ConvWork + UpdWork + MsgWork
    BY DEF Work
  <2>4. ASSUME ConversationWriter PROVE Work' < Work
    <3>1. ConvWork' < ConvWork /\ Work' = ConvWork' + UpdWork + MsgWork
      BY <2>4, <2>3, ConvWorkLess
    <3> QED
      BY <2>1, <2>2, <2>3, <3>1, SumLess
  <2>5. ASSUME UpdateWriter PROVE Work' < Work
    <3>1. UpdWork' < UpdWork /\ Work' = ConvWork + UpdWork' + MsgWork
      BY <2>5, <2>3, UpdWorkLess
    <3> QED
      BY <2>1, <2>2, <2>3, <3>1, SumLess
  <2>6. ASSUME MessageWriter PROVE Work' < Work
    <3>1. MsgWork' < MsgWork /\ Work' = ConvWork + UpdWork + MsgWork'
      BY <2>6, <2>3, MsgWorkLess
    <3> QED
      BY <2>1, <2>2, <2>3, <3>1, SumLess
  <2>7. ASSUME Close PROVE Work' = Work
    BY <2>7 DEF Close, Cancel, CloseReturns, ProcessExit, channelVars, messageVars,
       Work, ConvWork, UpdWork, MsgWork, MsgRest
  <2> QED
    BY <2>4, <2>5, <2>6, <2>7, HandlerWork DEF WritersFinish
<1> QED
  BY <1>1, <1>2, <1>3, <1>4, TypeCorrect, PTL DEF Spec

=============================================================================
