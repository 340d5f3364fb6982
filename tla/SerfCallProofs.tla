--------------------------- MODULE SerfCallProofs ---------------------------
(***************************************************************************)
(* Every call of the client is a mailbox (SerfMailbox), for every number   *)
(* of calls, threads and connections and in every environment.             *)
(***************************************************************************)
EXTENDS SerfClientProofs

(* A call that has not returned has no result, and one that registers or   *)
(* removes a listener has been answered without an error.                  *)
CallProgress ==
    \A c \in Calls :
       /\ pc[c] # "done" => result[c] = "none"
       /\ pc[c] \in {"register", "unlisten"} =>
             reply[c].pending /\ ~reply[c].err

(* The I/O thread is about to answer only calls without an answer.         *)
AnswerInHand ==
    ioPc \in {"found", "produce"} /\ channel.type = "REQUEST" =>
       ~reply[channel.call].pending

CallInv == CallProgress /\ AnswerInHand

-----------------------------------------------------------------------------
LEMMA CallStutters ==
  ASSUME NEW c \in Calls,
         pc'[c] = pc[c], reply'[c] = reply[c], result'[c] = result[c]
  PROVE  [Mailbox(c)!MailboxNext]_(Mailbox(c)!mailboxVars)
  BY DEF Mailbox!mailboxVars, StoredAnswer

(* The I/O thread stores an answer. *)
LEMMA CallPuts ==
  ASSUME NEW c \in Calls, CallProgress,
         pc'[c] = pc[c], result'[c] = result[c], OnStack(c),
         ~reply[c].pending, reply'[c].pending, reply'[c].err \in BOOLEAN,
         reply'[c].data \in {"none", "own", "foreign"}
  PROVE  Mailbox(c)!MailboxNext
  BY DEF Mailbox!MailboxNext, Mailbox!Put, Mailbox!Answer, Mailbox!Empty,
         StoredAnswer, NoAnswer, OnStack, CallProgress

(* The method returns what the answer says. *)
LEMMA CallTakes ==
  ASSUME NEW c \in Calls, CallProgress, TypeOK,
         OnStack(c), pc[c] # "remove", reply[c].pending, reply'[c] = reply[c],
         pc'[c] = "done",
         result'[c] = IF reply[c].err THEN "FAILURE" ELSE "SUCCESS"
  PROVE  Mailbox(c)!MailboxNext
<1>1. reply[c].data # "empty"
  BY DEF TypeOK, ChannelTypeOK, Reply
<1>2. reply[c].err \in BOOLEAN
  BY DEF TypeOK, ChannelTypeOK, Reply
<1>3. StoredAnswer(c)' = StoredAnswer(c)
  BY DEF StoredAnswer
<1>4. /\ StoredAnswer(c) = [err |-> reply[c].err, data |-> reply[c].data]
      /\ StoredAnswer(c) # NoAnswer
  BY <1>1 DEF StoredAnswer, NoAnswer
<1>5. /\ pc[c] \notin {"idle", "handshake", "done", "remove"}
      /\ result[c] = "none"
  BY DEF OnStack, CallProgress
<1>6. Mailbox(c)!Take
  BY <1>2, <1>3, <1>4, <1>5
  DEF Mailbox!Take, Mailbox!Return, Mailbox!Empty, NoAnswer
<1> QED
  BY <1>6 DEF Mailbox!MailboxNext

(* The request could not be sent. *)
LEMMA CallFails ==
  ASSUME NEW c \in Calls, CallProgress, AnswersKeepNumbers,
         pc[c] \in {"idle", "handshake"}, reply'[c] = reply[c],
         pc'[c] = "done", result'[c] = "FAILURE"
  PROVE  Mailbox(c)!MailboxNext
<1>1. ~reply[c].pending
  BY DEF AnswersKeepNumbers
<1>2. Mailbox(c)!AskFails
  BY <1>1
  DEF Mailbox!AskFails, Mailbox!Return, Mailbox!Empty, StoredAnswer, NoAnswer
<1> QED
  BY <1>2 DEF Mailbox!MailboxNext

LEMMA CallAsks ==
  ASSUME NEW c \in Calls, CallProgress,
         pc[c] \in {"idle", "handshake"}, reply'[c] = reply[c],
         pc'[c] = "wait", result'[c] = result[c]
  PROVE  Mailbox(c)!MailboxNext
<1>1. Mailbox(c)!Ask
  BY DEF Mailbox!Ask, StoredAnswer, NoAnswer, CallProgress
<1> QED
  BY <1>1 DEF Mailbox!MailboxNext

LEMMA CallGivesUp ==
  ASSUME NEW c \in Calls, CallProgress,
         pc[c] = "check", ~reply[c].pending, reply'[c] = reply[c],
         pc'[c] = "remove", result'[c] = result[c]
  PROVE  Mailbox(c)!MailboxNext
<1>1. Mailbox(c)!GiveUp
  BY DEF Mailbox!GiveUp, Mailbox!Empty, StoredAnswer, NoAnswer, CallProgress
<1> QED
  BY <1>1 DEF Mailbox!MailboxNext

LEMMA CallTimesOut ==
  ASSUME NEW c \in Calls, CallProgress,
         pc[c] = "remove", reply'[c] = reply[c],
         pc'[c] = "done", result'[c] \in {"TIMEOUT", "FAILURE"}
  PROVE  Mailbox(c)!MailboxNext
<1>1. Mailbox(c)!TimeOut
  BY DEF Mailbox!TimeOut, Mailbox!Return, Mailbox!Empty, StoredAnswer,
         NoAnswer, CallProgress
<1> QED
  BY <1>1 DEF Mailbox!MailboxNext

(* The method goes on between the answer and its return. *)
LEMMA CallGoesOn ==
  ASSUME NEW c \in Calls,
         \/ /\ pc[c] \in {"wait", "check"}
            /\ pc'[c] \in {"check", "register", "unlisten"}
         \/ pc[c] = "idle" /\ pc'[c] = "handshake",
         reply'[c] = reply[c], result'[c] = result[c]
  PROVE  [Mailbox(c)!MailboxNext]_(Mailbox(c)!mailboxVars)
  BY DEF Mailbox!mailboxVars, StoredAnswer

-----------------------------------------------------------------------------
(* What a step of one call, or of the I/O thread, does to each call.       *)

LEMMA OneCallSteps ==
  ASSUME TypeOK, NEW c \in Calls,
         \A d \in Calls \ {c} : pc'[d] = pc[d] /\ result'[d] = result[d],
         UNCHANGED reply,
         [Mailbox(c)!MailboxNext]_(Mailbox(c)!mailboxVars)
  PROVE  CallsStep
  BY CallStutters DEF CallsStep

LEMMA ReturnEffect ==
  ASSUME TypeOK, NEW c \in Calls, NEW r, Return(c, r)
  PROVE  /\ pc'[c] = "done" /\ result'[c] = r
         /\ \A d \in Calls \ {c} : pc'[d] = pc[d] /\ result'[d] = result[d]
  BY DEF Return, TypeOK, ChannelTypeOK

LEMMA MoveEffect ==
  ASSUME TypeOK, NEW c \in Calls, NEW p, UNCHANGED result,
         pc' = [pc EXCEPT ![c] = p]
  PROVE  /\ pc'[c] = p /\ result'[c] = result[c]
         /\ \A d \in Calls \ {c} : pc'[d] = pc[d] /\ result'[d] = result[d]
  BY DEF TypeOK, ChannelTypeOK

LEMMA CallRefines ==
  ASSUME TypeOK, MapInv, CallInv, NEW t, NEW c \in Calls, NEW k, NEW a,
         Call(t, c, k, a)
  PROVE  CallsStep
<1>1. pc[c] = "idle" /\ UNCHANGED reply /\ CallProgress /\ AnswersKeepNumbers
  BY DEF Call, Fresh, channelVars, CallInv, MapInv
<1>2. CASE Return(c, "FAILURE")
  BY <1>1, <1>2, ReturnEffect, CallFails, OneCallSteps
<1>3. CASE pc' = [pc EXCEPT ![c] = "wait"] /\ UNCHANGED result
  BY <1>1, <1>3, MoveEffect, CallAsks, OneCallSteps
<1> QED
  BY <1>2, <1>3 DEF Call

LEMMA FinishRefines ==
  ASSUME TypeOK, MapInv, CallInv, NEW c \in Calls, Finish(c)
  PROVE  CallsStep
<1>1. UNCHANGED reply /\ CallProgress
  BY
  DEF Finish, Consume, CheckPending, RemoveTimedOut, SentSeq, Register,
      AnsweredSeq, Unlisten, ChannelStep, channelVars, CallInv
<1>2. CASE Consume(c)
  <2>1. pc[c] = "wait" /\ pc' = [pc EXCEPT ![c] = "check"] /\ UNCHANGED result
    BY <1>2 DEF Consume, clientVars
  <2> QED
    BY <1>1, <2>1, MoveEffect, CallGoesOn, OneCallSteps
<1>3. CASE CheckPending(c) /\ AfterReply(c)
  <2>1. pc[c] = "check" /\ reply[c].pending
    BY <1>3 DEF CheckPending, AfterReply
  <2>2. CASE \E r : /\ Return(c, r)
                    /\ r = IF reply[c].err THEN "FAILURE" ELSE "SUCCESS"
    BY <1>1, <2>1, <2>2, ReturnEffect, CallTakes, OneCallSteps DEF OnStack
  <2>3. CASE \E p \in {"register", "unlisten"} :
                pc' = [pc EXCEPT ![c] = p] /\ UNCHANGED result
    BY <1>1, <2>1, <2>3, MoveEffect, CallGoesOn, OneCallSteps
  <2> QED
    BY <1>3, <2>2, <2>3 DEF AfterReply
<1>4. CASE CheckPending(c) /\ AfterTimeout(c)
  <2>1. /\ pc[c] = "check" /\ ~reply[c].pending
        /\ pc' = [pc EXCEPT ![c] = "remove"] /\ UNCHANGED result
    BY <1>4 DEF CheckPending, AfterTimeout
  <2> QED
    BY <1>1, <2>1, MoveEffect, CallGivesUp, OneCallSteps
<1>5. CASE RemoveTimedOut(c)
  <2>1. PICK r \in {"TIMEOUT", "FAILURE"} : pc[c] = "remove" /\ Return(c, r)
    BY <1>5 DEF RemoveTimedOut, SentSeq
  <2> QED
    BY <1>1, <2>1, ReturnEffect, CallTimesOut, OneCallSteps
<1>6. CASE Register(c) \/ Unlisten(c)
  <2>1. pc[c] \in {"register", "unlisten"} /\ Return(c, "SUCCESS")
    BY <1>6 DEF Register, AnsweredSeq, Unlisten
  <2>2. reply[c].pending /\ ~reply[c].err
    BY <1>1, <2>1 DEF CallProgress
  <2> QED
    BY <1>1, <2>1, <2>2, ReturnEffect, CallTakes, OneCallSteps DEF OnStack
<1> QED
  BY <1>2, <1>3, <1>4, <1>5, <1>6 DEF Finish, CheckPending

LEMMA ConnectRefines ==
  ASSUME TypeOK, MapInv, CallInv, NEW c \in Calls, Connect(c)
  PROVE  CallsStep
<1>1. UNCHANGED reply /\ CallProgress /\ AnswersKeepNumbers
  BY DEF Connect, ConnectFails, ConnectOpens, ConnectTerminates, Handshake,
         channelVars, CallInv, MapInv
<1>2. CASE pc[c] \in {"idle", "handshake"} /\ Return(c, "FAILURE")
  BY <1>1, <1>2, ReturnEffect, CallFails, OneCallSteps
<1>3. CASE /\ pc[c] = "handshake" /\ UNCHANGED result
           /\ pc' = [pc EXCEPT ![c] = "wait"]
  BY <1>1, <1>3, MoveEffect, CallAsks, OneCallSteps
<1>4. CASE /\ pc[c] = "idle" /\ UNCHANGED result
           /\ pc' = [pc EXCEPT ![c] = "handshake"]
  BY <1>1, <1>4, MoveEffect, CallGoesOn, OneCallSteps
<1>5. CASE ConnectTerminates(c)
  BY <1>5, CallStutters DEF ConnectTerminates, frameVars, clientVars, CallsStep
<1> QED
  BY <1>2, <1>3, <1>4, <1>5
  DEF Connect, ConnectFails, ConnectOpens, Handshake, MayConnect, Fresh

(* The I/O thread answers a call, or leaves every call alone. *)
LEMMA IoStepEffect ==
  ASSUME TypeOK, MapInv, CallInv, IoStep
  PROVE  /\ UNCHANGED <<pc, result>>
         /\ \/ UNCHANGED reply
            \/ /\ ioPc = "produce" /\ channel.type = "REQUEST"
               /\ OnStack(channel.call)
               /\ ~reply[channel.call].pending
               /\ ioPc' \in {"drain", "notify"}
               /\ \E r \in Reply :
                     /\ reply' = [reply EXCEPT ![channel.call] = r]
                     /\ r.pending <=> ioPc' = "notify"
<1>1. UNCHANGED <<pc, result>>
  BY
  DEF IoStep, IoLoop, IoTop, IoExit, IoReceive, ReadsUpTo, IoIdle, IoDrained,
      IoLookup, Known, IoErase, Erased, IoProduce, IoNotify, IoCallbackReturn,
      IoDeregister, IoDangle, IoBadSocket, frameVars, clientVars
<1>2. CASE ~IoProduce
  BY <1>1, <1>2
  DEF IoStep, IoLoop, IoTop, IoExit, IoReceive, ReadsUpTo, IoIdle, IoDrained,
      IoLookup, Known, IoErase, Erased, IoNotify, IoCallbackReturn,
      IoDeregister, IoDangle, Dangle, IoBadSocket, NotProducing
<1>3. CASE IoProduce /\ channel.type # "REQUEST"
  BY <1>1, <1>3
  DEF IoProduce, Produce, LogProduce, EventProduce, QueryProduce, Deliver,
      Discard
<1>4. CASE IoProduce /\ channel.type = "REQUEST"
  <2> DEFINE c == channel.call
  <2>1. /\ ioPc = "produce" /\ OnStack(c)
        /\ ~reply[c].pending
    BY <1>4 DEF IoProduce, Alive, ListenerTypes, CallInv, AnswerInHand
  <2>2. reply' \in [Calls -> Reply]
    BY <1>4, IoStepType DEF TypeOK, ChannelTypeOK
  <2>3. c \in Calls
    BY <1>4, <2>1 DEF TypeOK, ChannelTypeOK, Pointer, Null
  <2>4. reply \in [Calls -> Reply]
    BY DEF TypeOK, ChannelTypeOK
  <2>5. PICK r : /\ reply' = [reply EXCEPT ![c] = r]
                 /\ \/ ioPc' = "drain" /\ r.pending = reply[c].pending
                    \/ ioPc' = "notify" /\ r.pending = TRUE
    BY <1>4
    DEF IoProduce, Produce, ProduceHeader, ProduceData, ProduceThrows, Store,
        BackToDrain, ListenerTypes
  <2>6. r \in Reply
    BY <2>2, <2>3, <2>4, <2>5
  <2> QED
    BY <1>1, <1>4, <2>1, <2>5, <2>6
<1> QED
  BY <1>2, <1>3, <1>4

LEMMA IoStepRefines ==
  ASSUME TypeOK, MapInv, CallInv, IoStep
  PROVE  CallsStep
<1>1. UNCHANGED <<pc, result>> /\ CallProgress
  BY IoStepEffect DEF CallInv
<1>2. CASE UNCHANGED reply
  BY <1>1, <1>2, CallStutters DEF CallsStep
<1>3. ASSUME NEW r \in Reply,
             channel.type = "REQUEST", OnStack(channel.call),
             ~reply[channel.call].pending,
             reply' = [reply EXCEPT ![channel.call] = r],
             NEW d \in Calls
      PROVE  [Mailbox(d)!MailboxNext]_(Mailbox(d)!mailboxVars)
  <2>1. CASE d # channel.call
    BY <1>1, <1>3, <2>1, CallStutters DEF TypeOK, ChannelTypeOK
  <2>2. CASE d = channel.call /\ r.pending
    <3>1. reply'[d] = r
      BY <1>3, <2>2 DEF TypeOK, ChannelTypeOK
    <3>2. r.err \in BOOLEAN /\ r.data \in {"none", "own", "foreign"}
      BY DEF Reply
    <3> QED
      BY <1>1, <1>3, <2>2, <3>1, <3>2, CallPuts
  <2>3. CASE d = channel.call /\ ~r.pending
    <3>1. reply'[d] = r
      BY <1>3, <2>3 DEF TypeOK, ChannelTypeOK
    <3>2. StoredAnswer(d)' = StoredAnswer(d)
      BY <1>3, <2>3, <3>1 DEF StoredAnswer, NoAnswer
    <3> QED
      BY <1>1, <3>2 DEF Mailbox!mailboxVars
  <2> QED
    BY <2>1, <2>2, <2>3
<1> QED
  BY <1>2, <1>3, IoStepEffect DEF CallsStep

-----------------------------------------------------------------------------
LEMMA NextRefines ==
  ASSUME TypeOK, MapInv, CallInv, [Next]_vars
  PROVE  CallsStep
<1>1. CASE UNCHANGED vars
  BY <1>1, CallStutters DEF vars, frameVars, channelVars, clientVars, CallsStep
<1>2. ASSUME NEW t \in Threads \cup {IoThread}, NEW c \in Calls,
             RpcMethod(t, c)
      PROVE  CallsStep
  BY <1>2, RpcMethodIsCall, CallRefines
<1>3. ASSUME NEW t, NEW c \in Calls, SendKills(t, c) PROVE CallsStep
  BY <1>3, CallStutters DEF SendKills, frameVars, clientVars, CallsStep
<1>4. CASE Close
  BY <1>4, CallStutters
  DEF Close, CloseBegin, Told, CloseEnd, ResetSeq, ListenerCloses, frameVars,
      channelVars, clientVars, CallsStep
<1>5. CASE AgentStep \/ AgentCloses
  BY <1>5, CallStutters
  DEF AgentStep, AgentCloses, frameVars, channelVars, clientVars, CallsStep
<1> QED
  BY <1>1, <1>2, <1>3, <1>4, <1>5, FinishRefines, ConnectRefines,
     IoStepRefines DEF Next

-----------------------------------------------------------------------------
(* CallInv is inductive relative to TypeOK and MapInv. *)

LEMMA CallInvInit == Init => CallInv /\ CallsBegin
  BY
  DEF Init, ChannelInit, CallInv, CallProgress, AnswerInHand, NoReply,
      CallsBegin, Mailbox!MailboxInit, Mailbox!Empty, StoredAnswer, NoAnswer

LEMMA CallInvFrame ==
  ASSUME CallInv, UNCHANGED <<pc, reply, result, channel>>,
         ioPc' = ioPc \/ ioPc' \notin {"found", "produce"}
  PROVE  CallInv'
  BY DEF CallInv, CallProgress, AnswerInHand

LEMMA CallInvGoesOn ==
  ASSUME TypeOK, CallInv, NEW c \in Calls, NEW p,
         UNCHANGED <<reply, channel, result>>,
         ioPc' = ioPc \/ ioPc' = "top",
         pc' = [pc EXCEPT ![c] = p], pc[c] # "done",
         p \in {"register", "unlisten"} => reply[c].pending /\ ~reply[c].err
  PROVE  CallInv'
  BY MoveEffect DEF CallInv, CallProgress, AnswerInHand

(* Steps of a call: what the I/O thread has in hand stays as it is, unless *)
(* Connect starts a new one.                                               *)
LEMMA CallInvMove ==
  ASSUME TypeOK, CallInv, NEW c \in Calls,
         UNCHANGED <<reply, channel>>,
         ioPc' = ioPc \/ ioPc' = "top",
         \/ \E r : Return(c, r)
         \/ \E p : /\ pc' = [pc EXCEPT ![c] = p] /\ UNCHANGED result
                   /\ pc[c] # "done"
                   /\ p \in {"register", "unlisten"} =>
                         reply[c].pending /\ ~reply[c].err
  PROVE  CallInv'
<1>1. CASE \E r : Return(c, r)
  BY <1>1, ReturnEffect DEF CallInv, CallProgress, AnswerInHand
<1>2. CASE ~\E r : Return(c, r)
  BY <1>2, CallInvGoesOn
<1> QED
  BY <1>1, <1>2

LEMMA CallInvFinish ==
  ASSUME TypeOK, CallInv, NEW c \in Calls, Finish(c)
  PROVE  CallInv'
<1>1. UNCHANGED <<reply, channel, ioPc>>
  BY
  DEF Finish, Consume, CheckPending, RemoveTimedOut, SentSeq, Register,
      AnsweredSeq, Unlisten, ChannelStep, channelVars
<1>2. CASE Consume(c)
  <2>1. pc' = [pc EXCEPT ![c] = "check"] /\ UNCHANGED result /\ pc[c] # "done"
    BY <1>2 DEF Consume, clientVars
  <2> QED
    BY <1>1, <2>1, CallInvGoesOn
<1>3. CASE CheckPending(c)
  <2>1. \/ \E r : Return(c, r)
        \/ \E p : /\ pc' = [pc EXCEPT ![c] = p] /\ UNCHANGED result
                  /\ pc[c] # "done"
                  /\ p \in {"register", "unlisten"} =>
                        reply[c].pending /\ ~reply[c].err
    BY <1>3 DEF CheckPending, AfterReply, AfterTimeout
  <2> QED
    BY <1>1, <2>1, CallInvMove
<1>4. CASE RemoveTimedOut(c) \/ Register(c) \/ Unlisten(c)
  BY <1>1, <1>4, CallInvMove
  DEF RemoveTimedOut, SentSeq, Register, AnsweredSeq, Unlisten
<1> QED
  BY <1>2, <1>3, <1>4 DEF Finish

LEMMA CallInvConnect ==
  ASSUME TypeOK, CallInv, NEW c \in Calls, Connect(c)
  PROVE  CallInv'
<1>1. CASE ConnectTerminates(c)
  BY <1>1, CallInvFrame DEF ConnectTerminates, frameVars, clientVars
<1>2. CASE ConnectFails(c) \/ ConnectOpens(c) \/ Handshake(c)
  <2>1. UNCHANGED <<reply, channel>> /\ (ioPc' = ioPc \/ ioPc' = "top")
    BY <1>2 DEF ConnectFails, ConnectOpens, Handshake, channelVars
  <2>2. \/ \E r : Return(c, r)
        \/ \E p : /\ pc' = [pc EXCEPT ![c] = p] /\ UNCHANGED result
                  /\ pc[c] # "done"
                  /\ p \in {"register", "unlisten"} =>
                        reply[c].pending /\ ~reply[c].err
    BY <1>2 DEF ConnectFails, ConnectOpens, Handshake, MayConnect, Fresh
  <2> QED
    BY <2>1, <2>2, CallInvMove
<1> QED
  BY <1>1, <1>2 DEF Connect

LEMMA CallInvCall ==
  ASSUME TypeOK, CallInv, NEW t, NEW c \in Calls, NEW k, NEW a,
         Call(t, c, k, a)
  PROVE  CallInv'
<1>1. UNCHANGED <<reply, channel, ioPc>>
  BY DEF Call, channelVars
<1>2. \/ \E r : Return(c, r)
      \/ \E p : /\ pc' = [pc EXCEPT ![c] = p] /\ UNCHANGED result
                /\ pc[c] # "done"
                /\ p \in {"register", "unlisten"} =>
                      reply[c].pending /\ ~reply[c].err
  BY DEF Call, Fresh
<1> QED
  BY <1>1, <1>2, CallInvMove

LEMMA CallInvIoStep ==
  ASSUME TypeOK, MapInv, CallInv, IoStep
  PROVE  CallInv'
<1>1. UNCHANGED <<pc, result>> /\ CallProgress
  BY IoStepEffect DEF CallInv
<1>2. CASE UNCHANGED reply
  <2>1. CallProgress'
    BY <1>1, <1>2 DEF CallProgress
  <2> SUFFICES AnswerInHand'
    BY <2>1 DEF CallInv
  <2>2. CASE IoLookup
    <3>1. CASE ioPc' # "found"
      BY <2>2, <3>1 DEF IoLookup, Known, AnswerInHand
    <3>2. CASE ioPc' = "found"
      <4>1. Head(unpacker) \in Object
        BY <2>2 DEF IoLookup, Known, TypeOK, ChannelTypeOK
      <4>2. AsResponseHeader(Head(unpacker)).seq \in Seqs
        BY <4>1, AsHeaderType DEF Object
      <4>3. \E s \in Seqs : channel' = m_channels[s]
        BY <2>2, <3>2, <4>2 DEF IoLookup, Known
      <4> QED
        BY <1>2, <4>3 DEF AnswerInHand, MapInv, RequestEntries
    <3> QED
      BY <3>1, <3>2
  <2>3. CASE IoErase
    BY <1>2, <2>3 DEF IoErase, Erased, NotProducing, CallInv, AnswerInHand
  <2>4. CASE ~IoLookup /\ ~IoErase
    <3>1. \/ UNCHANGED <<ioPc, channel>>
          \/ ioPc' \notin {"found", "produce"}
      BY <2>4
      DEF IoStep, IoLoop, IoTop, IoExit, IoReceive, ReadsUpTo, IoIdle,
          IoDrained, IoProduce, Produce, ProduceHeader, ProduceData,
          ProduceThrows, Store, LogProduce, EventProduce, QueryProduce,
          Deliver, Discard, IoNotify, IoCallbackReturn, IoDeregister, IoDangle,
          Dangle, IoBadSocket, NotProducing, BackToDrain
    <3> QED
      BY <1>2, <3>1 DEF CallInv, AnswerInHand
  <2> QED
    BY <2>2, <2>3, <2>4
<1>3. ASSUME NEW r \in Reply,
             channel.type = "REQUEST", OnStack(channel.call),
             ~reply[channel.call].pending,
             ioPc' \in {"drain", "notify"},
             reply' = [reply EXCEPT ![channel.call] = r]
      PROVE  CallInv'
  <2>1. AnswerInHand'
    BY <1>3 DEF AnswerInHand
  <2>2. ASSUME NEW d \in Calls, pc[d] \in {"register", "unlisten"}
        PROVE  reply'[d].pending /\ ~reply'[d].err
    BY <1>1, <1>3, <2>2 DEF CallProgress, TypeOK, ChannelTypeOK
  <2> QED
    BY <1>1, <2>1, <2>2 DEF CallInv, CallProgress
<1> QED
  BY <1>2, <1>3, IoStepEffect

LEMMA CallInvNext == TypeOK /\ MapInv /\ CallInv /\ [Next]_vars => CallInv'
<1> SUFFICES ASSUME TypeOK, MapInv, CallInv, [Next]_vars PROVE CallInv'
  OBVIOUS
<1>1. CASE UNCHANGED vars
  BY <1>1, CallInvFrame DEF vars, frameVars, channelVars, clientVars
<1>2. ASSUME NEW t \in Threads \cup {IoThread}, NEW c \in Calls,
             RpcMethod(t, c)
      PROVE  CallInv'
  BY <1>2, RpcMethodIsCall, CallInvCall
<1>3. ASSUME NEW t, NEW c \in Calls, SendKills(t, c) PROVE CallInv'
  BY <1>3, CallInvFrame DEF SendKills, frameVars, clientVars
<1>4. CASE CloseBegin \/ CloseEnd
  BY <1>4, CallInvFrame
  DEF CloseBegin, Told, CloseEnd, ResetSeq, frameVars, channelVars
<1>5. CASE ListenerCloses
  BY <1>5
  DEF ListenerCloses, BackToDrain, frameVars, clientVars, CallInv,
      CallProgress, AnswerInHand
<1>6. CASE AgentStep \/ AgentCloses
  BY <1>6, CallInvFrame
  DEF AgentStep, AgentCloses, frameVars, channelVars, clientVars
<1> QED
  BY <1>1, <1>2, <1>3, <1>4, <1>5, <1>6, CallInvFinish, CallInvConnect,
     CallInvIoStep DEF Next, Close

(* The refinement: whatever the agent and the other threads do, every call *)
(* is answered at most once, with an answer that stays as it is, and       *)
(* returns exactly once, with what the answer says or after it gave up.    *)
THEOREM CallsImplementMailbox == Spec => CallsAreMailboxes
<1>1. Init => CallInv /\ CallsBegin
  BY CallInvInit
<1>2. Spec => []CallInv
  BY <1>1, CallInvNext, TypeCorrect, MapCorrect, PTL DEF Spec
<1>3. TypeOK /\ MapInv /\ CallInv /\ [Next]_vars => [CallsStep]_vars
  BY NextRefines
<1>4. Spec => [][CallsStep]_vars
  BY <1>2, <1>3, TypeCorrect, MapCorrect, PTL DEF Spec
<1> QED
  BY <1>1, <1>4, PTL DEF Spec, CallsAreMailboxes
=============================================================================
