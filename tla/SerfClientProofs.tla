-------------------------- MODULE SerfClientProofs --------------------------
(***************************************************************************)
(* Theorems about the client, for every number of calls and threads, every *)
(* set of commands and every environment (Faults).                         *)
(***************************************************************************)
EXTENDS SerfClient, SequenceTheorems, TLAPS

-----------------------------------------------------------------------------
(* The values the actions build have the types the variables need.        *)

LEMMA SeqsNat == Seqs \subseteq Nat /\ 0 \in Seqs
  BY BoundsAssumption DEF Seqs

LEMMA HeaderType ==
  ASSUME NEW c \in Calls, NEW s \in Seqs, NEW e \in BOOLEAN,
         NEW w \in {"reply", "record", "done"}
  PROVE  Header(c, s, e, w) \in Object
  BY DEF Header, Object

LEMMA BodyType ==
  ASSUME NEW c \in Calls, NEW w \in {"reply", "record", "done"},
         NEW ok \in BOOLEAN
  PROVE  Body(c, w, ok) \in Object
  BY SeqsNat DEF Body, Object

LEMMA PairType ==
  ASSUME NEW a \in Object, NEW b \in Object
  PROVE  <<a, b>> \in Seq(Object)
  OBVIOUS

LEMMA AsHeaderType ==
  ASSUME NEW o \in Object
  PROVE  AsResponseHeader(o) \in Object /\ AsResponseHeader(o) # NoObject
  BY SeqsNat DEF AsResponseHeader, Object, NoObject

LEMMA ObjectNotNone == NoObject \notin Object
  BY DEF Object, NoObject

LEMMA RequestType ==
  ASSUME NEW c \in Calls
  PROVE  Request(c) \in Pointer /\ Request(c) # Null
  BY DEF Request, Pointer, Null

LEMMA NullType == Null \in Pointer
  BY DEF Pointer

LEMMA ListenerIsPointer ==
  ASSUME NEW c \in Calls, NEW k
  PROVE  /\ Listener(c, k) \in Pointer
         /\ Listener(c, k).type \in ListenerTypes
         /\ Listener(c, k).call = c
         /\ Listener(c, k).type # "REQUEST"
  BY DEF Listener, ListenerType, Pointer, ListenerTypes

-----------------------------------------------------------------------------
(* Type correctness, one lemma per group of actions.                      *)

LEMMA RemoveChannelType ==
  ASSUME TypeOK, NEW s \in Seqs, RemoveChannel(s)
  PROVE  m_channels' \in [Seqs -> Pointer] /\ heap' \subseteq Calls
<1>1. m_channels \in [Seqs -> Pointer] /\ heap \subseteq Calls
  BY DEF TypeOK, ChannelTypeOK, IoTypeOK
<1> QED
  BY NullType, <1>1 DEF RemoveChannel

LEMMA ReturnType ==
  ASSUME TypeOK, NEW c \in Calls, NEW r \in Results, Return(c, r)
  PROVE  /\ pc' \in [Calls -> CallPcs]
         /\ owner' \in [Calls -> Threads \cup {IoThread, NoThread}]
         /\ result' \in [Calls -> Results]
  BY DEF TypeOK, ChannelTypeOK, Return, CallPcs

LEMMA SendDataType ==
  ASSUME TypeOK, NEW c \in Calls, NEW k \in AllCommands, NEW a \in Seqs,
         SendDataOk(c, k, a) \/ (SendDataFails /\ UNCHANGED seq)
  PROVE  /\ AgentTypeOK'
         /\ seq' \in [Calls -> Seqs]
         /\ m_seq' \in 0..(MaxSeq + 1)
         /\ m_channels' \in [Seqs -> Pointer]
         /\ m_socket' \in {"none", "open", "shut", "reset", "stale"}
         /\ UNCHANGED <<m_thread, m_shutdown>>
<1>1. CASE SendDataOk(c, k, a)
  <2>1. m_seq \in Seqs /\ m_seq' \in 0..(MaxSeq + 1)
    BY <1>1, BoundsAssumption
    DEF TypeOK, IoTypeOK, SendDataOk, NextSeq, Entered, Seqs
  <2>2. m_channels' \in [Seqs -> Pointer]
    BY <1>1, <2>1, RequestType
    DEF TypeOK, IoTypeOK, SendDataOk, NextSeq, Entered
  <2>3. requests' \subseteq RequestMessage
    BY <1>1, <2>1
    DEF TypeOK, AgentTypeOK, SendDataOk, NextSeq, Entered, RequestMessage
  <2>4. seq' \in [Calls -> Seqs]
    BY <1>1, <2>1 DEF TypeOK, ChannelTypeOK, SendDataOk, NextSeq, Entered
  <2>5. m_socket' \in {"none", "open", "shut", "reset", "stale"}
    BY <1>1 DEF TypeOK, IoTypeOK, SendDataOk, NextSeq, Entered
  <2> QED
    BY <1>1, <2>1, <2>2, <2>3, <2>4, <2>5
    DEF TypeOK, AgentTypeOK, SendDataOk, NextSeq, Entered
<1>2. CASE SendDataFails /\ UNCHANGED seq
  BY <1>2, BoundsAssumption
  DEF TypeOK, AgentTypeOK, ChannelTypeOK, IoTypeOK, SendDataFails, NextSeq,
      agentVars, Seqs
<1> QED
  BY <1>1, <1>2

LEMMA CallType ==
  ASSUME TypeOK, NEW t \in Threads \cup {IoThread}, NEW c \in Calls,
         NEW k \in Commands, NEW a \in Seqs, Call(t, c, k, a)
  PROVE  TypeOK'
<1>1. k \in AllCommands
  BY CommandsAssumption
<1>2. cmd' \in [Calls -> AllCommands] /\ arg' \in [Calls -> Seqs]
  BY <1>1 DEF TypeOK, ChannelTypeOK, Call
<1>3. /\ SendDataOk(c, k, a) \/ (SendDataFails /\ UNCHANGED seq)
      /\ UNCHANGED <<channelVars, active, closing>>
  BY DEF Call, SendDataFails, NextSeq
<1>4. /\ pc' \in [Calls -> CallPcs]
      /\ owner' \in [Calls -> Threads \cup {IoThread, NoThread}]
      /\ result' \in [Calls -> Results]
  <2>1. CASE Return(c, "FAILURE")
    BY <2>1, ReturnType DEF Results
  <2>2. CASE /\ pc' = [pc EXCEPT ![c] = "wait"]
             /\ owner' = [owner EXCEPT ![c] = t]
             /\ UNCHANGED result
    BY <2>2 DEF TypeOK, ChannelTypeOK, CallPcs
  <2> QED
    BY <2>1, <2>2 DEF Call
<1> QED
  BY <1>1, <1>2, <1>3, <1>4, SendDataType
  DEF TypeOK, ChannelTypeOK, IoTypeOK, channelVars

(* Consume, CheckPending, RemoveTimedOut, Register and Unlisten. *)
LEMMA FinishType ==
  ASSUME TypeOK, NEW c \in Calls, Finish(c)
  PROVE  TypeOK'
<1>1. CASE Consume(c)
  BY <1>1
  DEF Consume, TypeOK, AgentTypeOK, ChannelTypeOK, IoTypeOK, agentVars,
      channelVars, ioVars, clientVars, CallPcs
<1>2. CASE CheckPending(c)
  <2>1. pc' \in [Calls -> CallPcs]
    BY <1>2, ReturnType
    DEF CheckPending, AfterReply, AfterTimeout, Results, TypeOK,
        ChannelTypeOK, CallPcs
  <2>2. /\ owner' \in [Calls -> Threads \cup {IoThread, NoThread}]
        /\ result' \in [Calls -> Results]
    BY <1>2, ReturnType
    DEF CheckPending, AfterReply, AfterTimeout, Results, TypeOK
  <2> QED
    BY <1>2, <2>1, <2>2
    DEF CheckPending, TypeOK, AgentTypeOK, ChannelTypeOK, IoTypeOK,
        agentVars, channelVars, ioVars
<1>3. ASSUME NEW r \in Results, Return(c, r), ChannelStep,
             m_channels' \in [Seqs -> Pointer], heap' \subseteq Calls,
             active' \subseteq Seqs
      PROVE  TypeOK'
  BY <1>3, ReturnType
  DEF ChannelStep, TypeOK, AgentTypeOK, ChannelTypeOK, IoTypeOK, agentVars
<1>4. CASE RemoveTimedOut(c)
  <2>1. seq[c] \in Seqs /\ active \subseteq Seqs
    BY DEF TypeOK, ChannelTypeOK
  <2> QED
    BY <1>3, <1>4, <2>1, RemoveChannelType DEF RemoveTimedOut, SentSeq, Results
<1>5. CASE Register(c)
  <2>1. reply[c].seq \in Seqs
    BY DEF TypeOK, ChannelTypeOK, Reply
  <2>2. m_channels' \in [Seqs -> Pointer] /\ heap' \subseteq Calls
    BY <1>5, <2>1, ListenerIsPointer
    DEF Register, AnsweredSeq, AddChannel, TypeOK, ChannelTypeOK, IoTypeOK
  <2>3. active' \subseteq Seqs
    BY <1>5, <2>1 DEF Register, TypeOK
  <2> QED
    BY <1>3, <1>5, <2>2, <2>3 DEF Register, AnsweredSeq, Results
<1>6. CASE Unlisten(c)
  <2>1. arg[c] \in Seqs /\ active \subseteq Seqs
    BY DEF TypeOK
  <2> QED
    BY <1>3, <1>6, <2>1, RemoveChannelType DEF Unlisten, Results
<1> QED
  BY <1>1, <1>2, <1>4, <1>5, <1>6 DEF Finish

LEMMA AgentForgetType ==
  ASSUME TypeOK, AgentForget
  PROVE  AgentTypeOK'
  BY EmptySeq DEF TypeOK, AgentTypeOK, AgentForget

LEMMA ConnectType ==
  ASSUME TypeOK, NEW c \in Calls, Connect(c)
  PROVE  TypeOK'
<1>1. CASE ConnectFails(c)
  BY <1>1, ReturnType, AgentForgetType
  DEF ConnectFails, Results, TypeOK, ChannelTypeOK, IoTypeOK, channelVars
<1>2. CASE ConnectOpens(c)
  BY <1>2, ThreadsAssumption
  DEF ConnectOpens, Joinable, TypeOK, AgentTypeOK, ChannelTypeOK, IoTypeOK,
      agentVars, CallPcs, IoPcs, AllCommands, BoolCommands
<1>3. CASE ConnectTerminates(c)
  BY <1>3
  DEF ConnectTerminates, TypeOK, AgentTypeOK, ChannelTypeOK, IoTypeOK,
      agentVars, frameVars, ioVars, clientVars
<1>4. CASE Handshake(c)
  <2>1. "handshake" \in AllCommands
    BY DEF AllCommands, BoolCommands
  <2>2. /\ pc' \in [Calls -> CallPcs]
        /\ owner' \in [Calls -> Threads \cup {IoThread, NoThread}]
        /\ result' \in [Calls -> Results]
    BY <1>4, ReturnType
    DEF Handshake, TypeOK, ChannelTypeOK, Results, CallPcs
  <2>3. SendDataOk(c, "handshake", 0) \/ (SendDataFails /\ UNCHANGED seq)
    BY <1>4 DEF Handshake, SendDataFails, NextSeq
  <2> QED
    BY <1>4, <2>1, <2>2, <2>3, SendDataType, SeqsNat
    DEF Handshake, TypeOK, ChannelTypeOK, IoTypeOK, channelVars
<1> QED
  BY <1>1, <1>2, <1>3, <1>4 DEF Connect

LEMMA BackToDrainType ==
  ASSUME BackToDrain
  PROVE  /\ ioPc' = "drain" /\ channel' = Null
         /\ hdr' = NoObject /\ obj' = NoObject
  BY DEF BackToDrain

LEMMA CloseType ==
  ASSUME TypeOK, Close
  PROVE  TypeOK'
<1>1. CASE CloseBegin
  BY <1>1
  DEF CloseBegin, Told, IsConnected, TypeOK, AgentTypeOK, ChannelTypeOK,
      IoTypeOK,
      agentVars, frameVars, channelVars
<1>2. CASE CloseEnd
  <2>1. 0 \in 0..(MaxSeq + 1)
    BY BoundsAssumption
  <2>2. m_thread' \in {"none", "running", "exited"}
    BY <1>2 DEF CloseEnd, ResetSeq, TypeOK, IoTypeOK
  <2>3. m_thread' # "running" => ioPc' = "top"
    BY <1>2 DEF CloseEnd, ResetSeq, TypeOK, IoTypeOK, channelVars
  <2> QED
    BY <1>2, <2>1, <2>2, <2>3
    DEF CloseEnd, ResetSeq, TypeOK, AgentTypeOK, ChannelTypeOK, IoTypeOK,
        agentVars, frameVars, channelVars
<1>3. CASE ListenerCloses
  <2>1. UNCHANGED <<agentVars, frameVars, reply, heap, unpacker, fate,
                    m_socket, m_thread, m_channels, clientVars>>
    BY <1>3 DEF ListenerCloses
  <2>2. m_thread = "running"
    BY <1>3 DEF ListenerCloses, TypeOK, IoTypeOK
  <2>3. AgentTypeOK' /\ ChannelTypeOK'
    <3>1. CASE BackToDrain
      BY <2>1, <3>1, BackToDrainType, NullType
      DEF TypeOK, AgentTypeOK, ChannelTypeOK, agentVars, frameVars, IoPcs
    <3>2. CASE UNCHANGED <<ioPc, hdr, channel, obj>>
      BY <2>1, <3>2
      DEF TypeOK, AgentTypeOK, ChannelTypeOK, agentVars, frameVars
    <3> QED
      BY <1>3, <3>1, <3>2 DEF ListenerCloses
  <2>4. IoTypeOK'
    <3>1. m_seq' \in 0..(MaxSeq + 1)
      BY <1>3, BoundsAssumption DEF ListenerCloses, TypeOK, IoTypeOK
    <3> QED
      BY <1>3, <2>1, <2>2, <3>1 DEF ListenerCloses, TypeOK, IoTypeOK
  <2> QED
    BY <2>1, <2>3, <2>4 DEF TypeOK, clientVars
<1> QED
  BY <1>1, <1>2, <1>3 DEF Close

(* SIGPIPE ends the program; the agent closes its end of the connection. *)
LEMMA KilledOrClosedType ==
  ASSUME TypeOK,
         \/ \E t \in Threads \cup {IoThread}, c \in Calls : SendKills(t, c)
         \/ AgentCloses
  PROVE  TypeOK'
<1>1. ASSUME NEW t \in Threads \cup {IoThread}, NEW c \in Calls,
             SendKills(t, c)
      PROVE  TypeOK'
  BY <1>1
  DEF SendKills, TypeOK, AgentTypeOK, ChannelTypeOK, IoTypeOK, agentVars,
      frameVars, ioVars, clientVars
<1>2. CASE AgentCloses
  BY <1>2
  DEF AgentCloses, TypeOK, AgentTypeOK, ChannelTypeOK, IoTypeOK, frameVars,
      channelVars, clientVars
<1> QED
  BY <1>1, <1>2

LEMMA AgentStepType ==
  ASSUME TypeOK, AgentStep
  PROVE  TypeOK'
<1>1. ASSUME AgentTypeOK' PROVE TypeOK'
  BY <1>1
  DEF AgentStep, TypeOK, ChannelTypeOK, IoTypeOK, frameVars, channelVars,
      ioVars, clientVars
<1>2. /\ wire \in Seq(Object) /\ requests \subseteq RequestMessage
      /\ subs \subseteq RequestMessage /\ sent \in 0..MaxRecords
  BY DEF TypeOK, AgentTypeOK
<1>3. ASSUME NEW r \in RequestMessage, NEW e \in BOOLEAN,
             NEW w \in {"reply", "record", "done"}
      PROVE  <<Header(r.call, r.seq, e, w)>> \in Seq(Object)
  BY HeaderType DEF RequestMessage
<1>4. ASSUME NEW r \in RequestMessage, NEW ok \in BOOLEAN,
             NEW w \in {"reply", "record", "done"}
      PROVE  <<Body(r.call, w, ok)>> \in Seq(Object)
  BY BodyType DEF RequestMessage
<1>5. ASSUME NEW r \in RequestMessage, NEW ok \in BOOLEAN
      PROVE  ReplyBody(r, ok) \in Seq(Object)
  BY <1>4, EmptySeq DEF ReplyBody
<1>6. ASSUME NEW q \in subs, NEW ok \in BOOLEAN, NEW w \in {"record", "done"}
       PROVE  <<Header(q.call, q.seq, FALSE, w), Body(q.call, w, ok)>>
                \in Seq(Object)
  <2>1. q.call \in Calls /\ q.seq \in Seqs
    BY <1>2 DEF RequestMessage
  <2>2. Header(q.call, q.seq, FALSE, w) \in Object
    BY <2>1, HeaderType
  <2>3. Body(q.call, w, ok) \in Object
    BY <2>1, BodyType
  <2> QED
    BY <2>2, <2>3, PairType
<1>7. ASSUME NEW r \in requests, AgentReply(r)
      PROVE  TypeOK'
  <2>1. r \in RequestMessage
    BY <1>2
  <2>2. wire' \in Seq(Object)
    <3>1. PICK ok \in BOOLEAN :
            wire' = wire \o <<Header(r.call, r.seq, FALSE, "reply")>>
                         \o ReplyBody(r, ok)
      BY <1>7 DEF AgentReply
    <3>2. <<Header(r.call, r.seq, FALSE, "reply")>> \in Seq(Object)
      BY <1>3, <2>1
    <3>3. ReplyBody(r, ok) \in Seq(Object)
      BY <1>5, <2>1
    <3>4. wire \o <<Header(r.call, r.seq, FALSE, "reply")>> \in Seq(Object)
      BY <1>2, <3>2, ConcatProperties
    <3> QED
      BY <3>1, <3>3, <3>4, ConcatProperties
  <2>3. subs' \subseteq RequestMessage
    BY <1>2, <1>7, <2>1 DEF AgentReply, SubsAfter
  <2> QED
    BY <1>1, <1>2, <1>7, <2>2, <2>3 DEF AgentReply, AgentTypeOK
<1>8. ASSUME NEW r \in requests, AgentError(r)
      PROVE  TypeOK'
  <2>1. r \in RequestMessage
    BY <1>2
  <2>2. PICK body \in {ReplyBody(r, TRUE), <<>>} :
          wire' = wire \o <<Header(r.call, r.seq, TRUE, "reply")>> \o body
    BY <1>8 DEF AgentError
  <2>3. body \in Seq(Object)
    BY <1>5, <2>1, EmptySeq
  <2>4. wire' \in Seq(Object)
    <3>1. <<Header(r.call, r.seq, TRUE, "reply")>> \in Seq(Object)
      BY <1>3, <2>1
    <3>2. wire \o <<Header(r.call, r.seq, TRUE, "reply")>> \in Seq(Object)
      BY <1>2, <3>1, ConcatProperties
    <3> QED
      BY <2>2, <2>3, <3>2, ConcatProperties
  <2> QED
    BY <1>1, <1>2, <1>8, <2>4 DEF AgentError, AgentTypeOK
<1>9. ASSUME NEW r \in requests, AgentDrop(r)
      PROVE  TypeOK'
  BY <1>1, <1>2, <1>9 DEF AgentDrop, AgentTypeOK
<1>10. ASSUME NEW q \in subs, AgentRecord(q)
      PROVE  TypeOK'
  <2>1. PICK ok \in BOOLEAN :
          wire' = wire \o <<Header(q.call, q.seq, FALSE, "record"),
                            Body(q.call, "record", ok)>>
    BY <1>10 DEF AgentRecord
  <2>2. wire' \in Seq(Object)
    BY <1>2, <1>6, <2>1, ConcatProperties
  <2>3. sent' \in 0..MaxRecords
    BY <1>2, <1>10, BoundsAssumption DEF AgentRecord
  <2> QED
    BY <1>1, <1>2, <1>10, <2>2, <2>3 DEF AgentRecord, AgentTypeOK
<1>11. ASSUME NEW q \in subs, AgentQueryDone(q)
       PROVE  TypeOK'
  <2>1. wire' \in Seq(Object)
    BY <1>2, <1>11, <1>6, ConcatProperties DEF AgentQueryDone
  <2> QED
    BY <1>1, <1>2, <1>11, <2>1 DEF AgentQueryDone, AgentTypeOK
<1> QED
  BY <1>7, <1>8, <1>9, <1>10, <1>11 DEF AgentStep, AgentAnswers, AgentPublishes

(* Taking the first object from the unpacker. *)
LEMMA UnpackType ==
  ASSUME TypeOK, unpacker # <<>>
  PROVE  Head(unpacker) \in Object /\ Tail(unpacker) \in Seq(Object)
  BY HeadTailProperties DEF TypeOK, ChannelTypeOK

LEMMA ProduceType ==
  ASSUME TypeOK, ioPc = "produce", Produce(channel),
         UNCHANGED <<agentVars, frameVars, ioVars, clientVars>>
  PROVE  TypeOK'
<1>1. /\ channel \in Pointer /\ channel # Null
      /\ hdr \in Object /\ hdr # NoObject
      /\ unpacker \in Seq(Object)
      /\ reply \in [Calls -> Reply]
      /\ m_thread = "running"
  BY DEF TypeOK, ChannelTypeOK, IoTypeOK
<1>2. channel.call \in Calls
  BY <1>1 DEF Pointer
<1>3. hdr.err \in BOOLEAN /\ hdr.call \in Calls /\ hdr.seq \in Seqs
  BY <1>1 DEF Object
<1>4. ASSUME /\ reply' \in [Calls -> Reply]
             /\ unpacker' \in Seq(Object)
             /\ heap' = heap /\ fate' = fate
             /\ \/ ioPc' = "drain" /\ channel' = Null /\ hdr' = NoObject
                \/ /\ ioPc' = "notify" /\ UNCHANGED <<channel, hdr>>
                   /\ channel.type = "REQUEST"
                \/ /\ ioPc' = "callback" /\ UNCHANGED <<channel, hdr>>
                   /\ channel.type \in ListenerTypes
             /\ obj' \in Object \cup {NoObject}
      PROVE  TypeOK'
  <2>1. ioPc' \in IoPcs /\ channel' \in Pointer /\ hdr' \in Object \cup {NoObject}
    BY <1>1, <1>4, NullType DEF IoPcs
  <2> QED
    BY <1>1, <1>4, <2>1
    DEF TypeOK, AgentTypeOK, ChannelTypeOK, IoTypeOK, agentVars, frameVars,
        ioVars, clientVars
<1>5. ASSUME NEW d \in {"none", "own", "foreign"}, NEW b \in BOOLEAN
      PROVE  [pending |-> b, err |-> hdr.err, of |-> hdr.call,
              seq |-> hdr.seq, data |-> d] \in Reply
  BY <1>3 DEF Reply
<1>6. obj \in Object \cup {NoObject}
  BY DEF TypeOK, ChannelTypeOK
<1>7. ASSUME channel.type = "REQUEST", ProduceHeader(channel.call)
      PROVE  TypeOK'
  BY <1>1, <1>2, <1>4, <1>5, <1>6, <1>7 DEF ProduceHeader, Store
<1>8. ASSUME channel.type = "REQUEST", ProduceData(channel.call)
      PROVE  TypeOK'
  BY <1>1, <1>2, <1>4, <1>5, <1>6, <1>8, UnpackType
  DEF ProduceData, Store, TakesBody, DataFrom
<1>9. ASSUME channel.type = "REQUEST", ProduceThrows(channel.call)
      PROVE  TypeOK'
  <2>1. /\ reply[channel.call].pending \in BOOLEAN
        /\ reply[channel.call].data \in {"none", "own", "foreign"}
    BY <1>1, <1>2 DEF Reply
  <2> QED
    BY <1>1, <1>2, <1>4, <1>5, <1>9, <2>1, UnpackType, BackToDrainType
    DEF ProduceThrows, TakesBody
<1>10. ASSUME channel.type = "LOG", LogProduce
       PROVE  TypeOK'
  BY <1>1, <1>4, <1>10, UnpackType, BackToDrainType
  DEF LogProduce, Deliver, Discard, ListenerTypes
<1>11. ASSUME channel.type \in {"EVENT", "QUERY"}, EventProduce
       PROVE  TypeOK'
  BY <1>1, <1>4, <1>11, UnpackType, BackToDrainType
  DEF EventProduce, Deliver, Discard, ListenerTypes
<1> QED
  BY <1>7, <1>8, <1>9, <1>10, <1>11 DEF Produce, QueryProduce

LEMMA LookupType ==
  ASSUME TypeOK, m_thread = "running", IoLookup, UNCHANGED clientVars
  PROVE  TypeOK'
<1> DEFINE h == AsResponseHeader(Head(unpacker))
           p == m_channels[h.seq]
<1>1. h \in Object /\ h # NoObject /\ unpacker' \in Seq(Object)
  BY UnpackType, AsHeaderType DEF IoLookup, Known
<1>2. h.seq \in Seqs
  BY <1>1 DEF Object
<1>3. p \in Pointer
  BY <1>2 DEF TypeOK, IoTypeOK
<1>4. \/ p = Null /\ ioPc' = "drain" /\ UNCHANGED <<hdr, channel>>
      \/ p # Null /\ ioPc' = "found" /\ hdr' = h /\ channel' = p
  BY DEF IoLookup, Known
<1> HIDE DEF h, p
<1> QED
  BY <1>1, <1>3, <1>4
  DEF IoLookup, Known, TypeOK, AgentTypeOK, ChannelTypeOK, IoTypeOK, agentVars,
      frameVars, IoUnchanged, clientVars, IoPcs

LEMMA ReceiveType ==
  ASSUME TypeOK, m_thread = "running", IoReceive, UNCHANGED clientVars
  PROVE  TypeOK'
<1>1. wire \in Seq(Object) /\ unpacker \in Seq(Object)
  BY DEF TypeOK, AgentTypeOK, ChannelTypeOK
<1>2. PICK n \in 1..Len(wire) :
        /\ unpacker' = unpacker \o SubSeq(wire, 1, n)
        /\ wire' = SubSeq(wire, n + 1, Len(wire))
  BY DEF IoReceive, ReadsUpTo
<1>3. /\ Len(wire) \in Nat
      /\ \A i \in 1..Len(wire) : wire[i] \in Object
  BY <1>1, ElementOfSeq, LenProperties
<1>4. SubSeq(wire, 1, n) \in Seq(Object)
  BY <1>2, <1>3, SubSeqProperties
<1>5. wire' \in Seq(Object)
  BY <1>2, <1>3, SubSeqProperties
<1>6. unpacker' \in Seq(Object)
  BY <1>1, <1>2, <1>4, ConcatProperties
<1> QED
  BY <1>5, <1>6
  DEF IoReceive, ReadsUpTo, NotProducing, IoUnchanged, TypeOK, AgentTypeOK,
      ChannelTypeOK, IoTypeOK, frameVars, clientVars, IoPcs

(* The I/O thread's steps that write neither the wire nor a reply. *)
LEMMA QuietStepType ==
  ASSUME TypeOK, m_thread = "running", UNCHANGED clientVars,
         \/ IoTop \/ IoExit \/ IoIdle \/ IoDrained \/ IoErase \/ IoNotify
         \/ IoCallbackReturn \/ IoDeregister \/ IoDangle \/ IoBadSocket
  PROVE  TypeOK'
<1>1. CASE IoTop \/ IoIdle \/ IoDrained
  BY <1>1
  DEF IoTop, IoIdle, IoDrained, NotProducing, IoUnchanged, TypeOK,
      AgentTypeOK, ChannelTypeOK, IoTypeOK, agentVars, frameVars, clientVars,
      IoPcs
<1>2. CASE IoExit
  BY <1>2, AgentForgetType
  DEF IoExit, NotProducing, TypeOK, ChannelTypeOK, IoTypeOK, frameVars,
      clientVars
<1>3. CASE IoErase
  <2>1. m_channels' \in [Seqs -> Pointer]
    BY <1>3, NullType DEF IoErase, Erased, TypeOK, IoTypeOK
  <2> QED
    BY <1>3, <2>1
    DEF IoErase, Erased, NotProducing, TypeOK, AgentTypeOK, ChannelTypeOK,
        IoTypeOK,
        agentVars, frameVars, clientVars, IoPcs
<1>4. CASE IoNotify \/ IoCallbackReturn
  BY <1>4, BackToDrainType, NullType
  DEF IoNotify, IoCallbackReturn, IoUnchanged, TypeOK, AgentTypeOK,
      ChannelTypeOK, IoTypeOK, agentVars, frameVars, clientVars, IoPcs
<1>5. CASE IoDeregister
  <2>1. hdr.seq \in Seqs
    BY <1>5 DEF IoDeregister, TypeOK, ChannelTypeOK, Object
  <2>2. m_channels' \in [Seqs -> Pointer] /\ heap' \subseteq Calls
    BY <1>5, <2>1, RemoveChannelType DEF IoDeregister
  <2> QED
    BY <1>5, <2>2, BackToDrainType, NullType
    DEF IoDeregister, TypeOK, AgentTypeOK, ChannelTypeOK, IoTypeOK,
        agentVars, frameVars, clientVars, IoPcs
<1>6. CASE IoDangle \/ IoBadSocket
  BY <1>6
  DEF IoDangle, Dangle, IoBadSocket, IoUnchanged, TypeOK, AgentTypeOK,
      ChannelTypeOK, IoTypeOK, agentVars, frameVars, clientVars
<1> QED
  BY <1>1, <1>2, <1>3, <1>4, <1>5, <1>6

LEMMA IoStepType ==
  ASSUME TypeOK, IoStep
  PROVE  TypeOK'
<1>1. CASE IoProduce
  BY <1>1, ProduceType
  DEF IoStep, IoProduce, IoUnchanged, ioVars, clientVars, agentVars, frameVars
<1> QED
  BY <1>1, QuietStepType, LookupType, ReceiveType DEF IoStep, IoLoop

(* Every RPC method is a call with a command and an argument. *)
LEMMA RpcMethodIsCall ==
  ASSUME TypeOK, NEW t, NEW c \in Calls, RpcMethod(t, c)
  PROVE  \E k \in Commands, a \in Seqs : Call(t, c, k, a)
<1>1. ASSUME NEW k, Call(t, c, k, 0)
      PROVE  \E i \in Commands, a \in Seqs : Call(t, c, i, a)
  BY <1>1, SeqsNat DEF Call
<1>2. ASSUME Stop(t, c)
      PROVE  \E i \in Commands, a \in Seqs : Call(t, c, i, a)
  <2>1. PICK s \in StopNumbers : Call(t, c, "stop", s)
    BY <1>2 DEF Stop
  <2>2. s \in Seqs
    BY DEF StopNumbers, TypeOK, ChannelTypeOK
  <2>3. "stop" \in Commands
    BY <2>1 DEF Call
  <2> QED
    BY <2>1, <2>2, <2>3
<1> QED
  BY <1>1, <1>2
  DEF RpcMethod, Join, Auth, InstallKey, ListKeys, UseKey, RemoveKey, Members,
      MembersFiltered, Event, Respond, ForceLeave, Tags, Leave, Monitor, Query,
      Stream, Stats, GetCoordinate

LEMMA InitType == Init => TypeOK
<1> SUFFICES ASSUME Init PROVE TypeOK
  OBVIOUS
<1>1. AgentTypeOK
  BY EmptySeq, BoundsAssumption DEF Init, AgentInit, AgentTypeOK
<1>2. ChannelTypeOK
  BY EmptySeq, SeqsNat, NullType
  DEF Init, ChannelInit, ChannelTypeOK, CallPcs, IoPcs, AllCommands,
      BoolCommands, NoReply, Reply
<1>3. IoTypeOK
  <2>1. 0 \in 0..(MaxSeq + 1)
    BY BoundsAssumption
  <2> QED
    BY <2>1, NullType DEF Init, ChannelInit, IoInit, IoTypeOK
<1> QED
  BY <1>1, <1>2, <1>3, SeqsNat, ThreadsAssumption DEF Init, TypeOK, Results

LEMMA NextType == TypeOK /\ [Next]_vars => TypeOK'
<1> SUFFICES ASSUME TypeOK, [Next]_vars PROVE TypeOK'
  OBVIOUS
<1>1. CASE UNCHANGED vars
  BY <1>1
  DEF vars, TypeOK, AgentTypeOK, ChannelTypeOK, IoTypeOK, agentVars,
      frameVars, channelVars, ioVars, clientVars
<1>2. ASSUME NEW t \in Threads \cup {IoThread}, NEW c \in Calls,
             RpcMethod(t, c)
      PROVE  TypeOK'
  BY <1>2, RpcMethodIsCall, CallType
<1>3. ASSUME NEW c \in Calls, Finish(c) \/ Connect(c)
      PROVE  TypeOK'
  BY <1>3, FinishType, ConnectType
<1>4. CASE Close \/ IoStep \/ AgentStep
  BY <1>4, CloseType, IoStepType, AgentStepType
<1> QED
  BY <1>1, <1>2, <1>3, <1>4, KilledOrClosedType DEF Next

(* Every variable keeps its type, and the I/O thread holds a channel and   *)
(* the header that named it exactly while it handles a message: processRpc *)
(* never calls produce through a null pointer.                             *)
THEOREM TypeCorrect == Spec => []TypeOK
  BY InitType, NextType, PTL DEF Spec

-----------------------------------------------------------------------------
(* The map never points to a dead channel.  The strengthening MapInv ties  *)
(* an entry to the state of its call; what is delicate is that a call may  *)
(* leave by three ways (an answer, a timeout, a failed send), the entry is *)
(* erased by another thread, and m_seq is set back by Close while old      *)
(* entries are still there.                                                *)

LEMMA EntryTypes ==
  ASSUME NEW p \in Pointer
  PROVE  /\ p # Null => p.call \in Calls
         /\ p # Null <=> p.type \in {"REQUEST"} \cup ListenerTypes
         /\ Null.type \notin {"REQUEST"} \cup ListenerTypes
         /\ p.type = "REQUEST" => p.type \notin ListenerTypes
  BY DEF Pointer, Null, ListenerTypes

LEMMA MapInvImpliesRegisteredAlive ==
  ASSUME TypeOK, MapInv
  PROVE  RegisteredAlive
<1> SUFFICES ASSUME NEW s \in Seqs, m_channels[s] # Null
             PROVE  Alive(m_channels[s])
  BY DEF RegisteredAlive
<1>1. m_channels[s] \in Pointer
  BY DEF TypeOK, IoTypeOK
<1>2. CASE m_channels[s].type = "REQUEST"
  BY <1>2 DEF MapInv, RequestEntries, Alive, OnStack
<1>3. CASE m_channels[s].type \in ListenerTypes
  BY <1>3 DEF MapInv, ListenerEntries, Alive
<1> QED
  BY <1>1, <1>2, <1>3, EntryTypes

(* Steps that leave the map, the replies and the I/O thread's hand alone,  *)
(* and move a call only where MapInv does not look.                        *)
LEMMA MapInvFrame ==
  ASSUME TypeOK, MapInv,
         UNCHANGED <<m_channels, reply, heap, seq, pc>>,
         \/ UNCHANGED <<ioPc, channel, hdr>>
         \/ ioPc' \notin {"found", "produce", "notify"}
  PROVE  MapInv'
  BY DEF MapInv, RequestEntries, ListenerEntries, AnswersKeepNumbers,
         RequestInHand

(* A new request: its call was idle, so nothing refers to it yet. *)
LEMMA MapInvSend ==
  ASSUME TypeOK, MapInv, NEW c \in Calls, pc[c] \in {"idle", "handshake"},
         NEW k, NEW a, SendDataOk(c, k, a),
         pc' = [pc EXCEPT ![c] = "wait"],
         UNCHANGED <<reply, heap, ioPc, channel, hdr>>
  PROVE  MapInv'
<1>1. m_seq \in Seqs
  BY BoundsAssumption DEF SendDataOk, NextSeq, Entered, TypeOK, IoTypeOK, Seqs
<1>2. /\ m_channels \in [Seqs -> Pointer] /\ pc \in [Calls -> CallPcs]
      /\ seq \in [Calls -> Seqs] /\ channel \in Pointer
  BY DEF TypeOK, IoTypeOK, ChannelTypeOK
<1>3. /\ m_channels' = [m_channels EXCEPT ![m_seq] = Request(c)]
      /\ seq' = [seq EXCEPT ![c] = m_seq]
  BY DEF SendDataOk, NextSeq, Entered
<1>4. Request(c).type = "REQUEST" /\ Request(c).call = c
  BY DEF Request
<1>5. \A s \in Seqs : m_channels[s] \in Pointer
  BY <1>2
<1>6. \A s \in Seqs : m_channels[s].type \in {"REQUEST"} \cup ListenerTypes
                        => m_channels[s].call # c
  BY <1>5 DEF MapInv, RequestEntries, ListenerEntries
<1>7. ~reply[c].pending
  BY DEF MapInv, AnswersKeepNumbers
<1>8. RequestEntries'
  BY <1>1, <1>2, <1>3, <1>4, <1>5, <1>6, <1>7, EntryTypes
  DEF MapInv, RequestEntries
<1>9. ListenerEntries'
  BY <1>1, <1>2, <1>3, <1>4, <1>5, <1>6, EntryTypes, RequestType
  DEF MapInv, ListenerEntries
<1>10. AnswersKeepNumbers'
  BY <1>2, <1>3, <1>7 DEF MapInv, AnswersKeepNumbers
<1>11. RequestInHand'
  <2> SUFFICES ASSUME ioPc \in {"found", "produce", "notify"},
                      channel.type = "REQUEST"
               PROVE  /\ seq'[channel.call] = hdr.seq
                      /\ pc'[channel.call] \notin {"idle", "handshake"}
                      /\ ioPc # "found" =>
                           \A s \in Seqs : m_channels'[s] # channel
    BY DEF RequestInHand
  <2>1. channel.call \in Calls /\ channel.call # c
    BY <1>2, EntryTypes DEF MapInv, RequestInHand
  <2> QED
    BY <1>1, <1>2, <1>3, <1>4, <2>1 DEF MapInv, RequestInHand
<1> QED
  BY <1>8, <1>9, <1>10, <1>11 DEF MapInv

(* A call that was never sent, or that holds no entry, may move on freely. *)
LEMMA MapInvMove ==
  ASSUME TypeOK, MapInv, NEW c \in Calls, NEW q \in CallPcs \ {"idle"},
         pc' = [pc EXCEPT ![c] = q],
         UNCHANGED <<m_channels, reply, heap, seq, ioPc, channel, hdr>>,
         pc[c] # "done",
         \/ q \in {"check", "remove"} /\ pc[c] \in {"wait", "check"}
         \/ reply[c].pending /\ q # "handshake"
         \/ pc[c] \in {"idle", "handshake"} /\ q \in {"handshake", "done"}
  PROVE  MapInv'
<1>1. pc \in [Calls -> CallPcs] /\ channel \in Pointer
  BY DEF TypeOK, ChannelTypeOK
<1>2. \A s \in Seqs : m_channels[s] \in Pointer
  BY DEF TypeOK, IoTypeOK
<1>3. RequestEntries'
  BY <1>1, <1>2, EntryTypes DEF MapInv, RequestEntries
<1>4. ListenerEntries'
  BY <1>1, <1>2, EntryTypes DEF MapInv, ListenerEntries
<1>5. AnswersKeepNumbers'
  BY <1>1 DEF MapInv, AnswersKeepNumbers, CallPcs
<1>6. RequestInHand'
  BY <1>1, EntryTypes DEF MapInv, RequestInHand
<1> QED
  BY <1>3, <1>4, <1>5, <1>6 DEF MapInv

(* removeChannel, by a call that returns or by the I/O thread.  Entries    *)
(* for one call are all under one number, so no other entry loses its      *)
(* channel with the one that is deleted.                                   *)
LEMMA MapInvRemove ==
  ASSUME TypeOK, MapInv, NEW s \in Seqs, RemoveChannel(s),
         UNCHANGED <<reply, seq>>,
         \/ UNCHANGED <<ioPc, channel, hdr>>
         \/ ioPc' \notin {"found", "produce", "notify"},
         \A d \in Calls : \/ pc'[d] = pc[d]
                         \/ /\ pc'[d] = "done"
                            /\ pc[d] \notin {"idle", "handshake"}
                            /\ reply[d].pending \/ seq[d] = s
  PROVE  MapInv'
<1>1. /\ m_channels \in [Seqs -> Pointer] /\ channel \in Pointer
      /\ m_channels' = [m_channels EXCEPT ![s] = Null]
  BY DEF TypeOK, ChannelTypeOK, IoTypeOK, RemoveChannel
<1>2. \A r \in Seqs : m_channels[r] \in Pointer
  BY <1>1
<1>3. \A r \in Seqs : /\ r # s => m_channels'[r] = m_channels[r]
                      /\ r = s => m_channels'[r] = Null
  BY <1>1
<1>4. RequestEntries'
  BY <1>2, <1>3, EntryTypes DEF MapInv, RequestEntries
<1>5. ASSUME NEW r \in Seqs, r # s, m_channels[r].type \in ListenerTypes
      PROVE  m_channels[r].call \in heap'
  <2>1. seq[m_channels[r].call] = r /\ m_channels[r].call \in heap
    BY <1>5 DEF MapInv, ListenerEntries
  <2>2. m_channels[s].type \in ListenerTypes => seq[m_channels[s].call] = s
    BY DEF MapInv, ListenerEntries
  <2> QED
    BY <1>5, <2>1, <2>2 DEF RemoveChannel
<1>6. ListenerEntries'
  BY <1>2, <1>3, <1>5, EntryTypes DEF MapInv, ListenerEntries
<1>7. AnswersKeepNumbers'
  BY DEF MapInv, AnswersKeepNumbers
<1>8. RequestInHand'
  BY <1>1, <1>2, <1>3, EntryTypes DEF MapInv, RequestInHand
<1> QED
  BY <1>4, <1>6, <1>7, <1>8 DEF MapInv

(* addLogChannel, addEventChannel, addQueryChannel, under the number of    *)
(* the answer, which is the number of the request.                         *)
LEMMA MapInvAdd ==
  ASSUME TypeOK, MapInv, NEW c \in Calls, Register(c)
  PROVE  MapInv'
<1>1. /\ m_channels \in [Seqs -> Pointer] /\ channel \in Pointer
      /\ pc \in [Calls -> CallPcs] /\ seq[c] \in Seqs
  BY DEF TypeOK, ChannelTypeOK, IoTypeOK
<1>2. reply[c].pending /\ reply[c].seq = seq[c] /\ pc[c] = "register"
  BY DEF Register, AnsweredSeq, MapInv, AnswersKeepNumbers
<1>3. /\ m_channels' = [m_channels EXCEPT ![seq[c]] = Listener(c, cmd[c])]
      /\ heap' = heap \cup {c}
      /\ pc' = [pc EXCEPT ![c] = "done"]
      /\ UNCHANGED <<reply, seq, ioPc, channel, hdr>>
  BY <1>2, ListenerIsPointer
  DEF Register, AnsweredSeq, AddChannel, Return, ChannelStep
<1>4. \A r \in Seqs : m_channels[r] \in Pointer
  BY <1>1
<1>5. \A r \in Seqs : /\ r # seq[c] => m_channels'[r] = m_channels[r]
                      /\ r = seq[c] => m_channels'[r] = Listener(c, cmd[c])
  BY <1>1, <1>3
<1>6. RequestEntries'
  BY <1>1, <1>2, <1>3, <1>4, <1>5, EntryTypes, ListenerIsPointer
  DEF MapInv, RequestEntries
<1>7. ListenerEntries'
  BY <1>1, <1>2, <1>3, <1>4, <1>5, EntryTypes, ListenerIsPointer
  DEF MapInv, ListenerEntries
<1>8. AnswersKeepNumbers'
  BY <1>1, <1>2, <1>3 DEF MapInv, AnswersKeepNumbers
<1>9. RequestInHand'
  BY <1>1, <1>3, <1>4, <1>5, EntryTypes, ListenerIsPointer
  DEF MapInv, RequestInHand
<1> QED
  BY <1>6, <1>7, <1>8, <1>9 DEF MapInv

LEMMA MapInvCall ==
  ASSUME TypeOK, MapInv, NEW t, NEW c \in Calls, NEW k, NEW a, Call(t, c, k, a)
  PROVE  MapInv'
<1>1. pc[c] = "idle" /\ UNCHANGED <<reply, heap, ioPc, channel, hdr>>
  BY DEF Call, Fresh, channelVars
<1>2. CASE SendDataOk(c, k, a) /\ pc' = [pc EXCEPT ![c] = "wait"]
  BY <1>1, <1>2, MapInvSend
<1>3. CASE SendDataFails /\ Return(c, "FAILURE")
  BY <1>1, <1>3, MapInvMove DEF SendDataFails, NextSeq, Return, CallPcs
<1> QED
  BY <1>2, <1>3 DEF Call

LEMMA MapInvFinish ==
  ASSUME TypeOK, MapInv, NEW c \in Calls, Finish(c)
  PROVE  MapInv'
<1>1. CASE Consume(c)
  BY <1>1, MapInvMove DEF Consume, channelVars, ioVars, CallPcs
<1>2. CASE CheckPending(c)
  <2>1. /\ UNCHANGED <<m_channels, reply, heap, seq, ioPc, channel, hdr>>
        /\ pc[c] = "check"
    BY <1>2 DEF CheckPending, channelVars, ioVars
  <2>2. CASE AfterTimeout(c)
    BY <2>1, <2>2, MapInvMove DEF AfterTimeout, CallPcs
  <2>3. CASE AfterReply(c)
    <3>1. PICK q \in {"done", "register", "unlisten"} :
            pc' = [pc EXCEPT ![c] = q]
      BY <2>3 DEF AfterReply, Return
    <3>2. reply[c].pending
      BY <2>3 DEF AfterReply
    <3> QED
      BY <2>1, <3>1, <3>2, MapInvMove DEF CallPcs
  <2> QED
    BY <1>2, <2>2, <2>3 DEF CheckPending
<1>3. pc \in [Calls -> CallPcs] /\ seq[c] \in Seqs /\ arg[c] \in Seqs
  BY DEF TypeOK, ChannelTypeOK
<1>4. CASE RemoveTimedOut(c)
  BY <1>3, <1>4, MapInvRemove DEF RemoveTimedOut, SentSeq, Return, ChannelStep
<1>5. CASE Register(c)
  BY <1>5, MapInvAdd
<1>6. CASE Unlisten(c)
  <2>1. reply[c].pending
    BY <1>6 DEF Unlisten, MapInv, AnswersKeepNumbers
  <2> QED
    BY <1>3, <1>6, <2>1, MapInvRemove DEF Unlisten, Return, ChannelStep
<1> QED
  BY <1>1, <1>2, <1>4, <1>5, <1>6 DEF Finish

LEMMA MapInvConnect ==
  ASSUME TypeOK, MapInv, NEW c \in Calls, Connect(c)
  PROVE  MapInv'
<1>1. CASE ConnectFails(c)
  BY <1>1, MapInvMove
  DEF ConnectFails, MayConnect, Fresh, Return, channelVars, CallPcs
<1>2. CASE ConnectOpens(c)
  <2>1. ioPc = "top"
    BY <1>2 DEF ConnectOpens, Joinable, TypeOK, IoTypeOK
  <2> QED
    BY <1>2, <2>1, MapInvMove DEF ConnectOpens, MayConnect, Fresh, CallPcs
<1>3. CASE ConnectTerminates(c)
  BY <1>3, MapInvFrame DEF ConnectTerminates, frameVars, ioVars
<1>4. CASE Handshake(c)
  <2>1. /\ UNCHANGED <<reply, heap, ioPc, channel, hdr>>
        /\ pc[c] = "handshake"
    BY <1>4 DEF Handshake, channelVars
  <2>2. CASE /\ SendDataOk(c, "handshake", 0)
             /\ pc' = [pc EXCEPT ![c] = "wait"]
    BY <2>1, <2>2, MapInvSend
  <2>3. CASE SendDataFails /\ Return(c, "FAILURE")
    BY <2>1, <2>3, MapInvMove DEF SendDataFails, NextSeq, Return, CallPcs
  <2> QED
    BY <1>4, <2>2, <2>3 DEF Handshake
<1> QED
  BY <1>1, <1>2, <1>3, <1>4 DEF Connect

(* The number is looked up under m_mutex: what is found is an entry, and   *)
(* an entry for a request is under the number of its call.                 *)
LEMMA MapInvLookup ==
  ASSUME TypeOK, MapInv, IoLookup
  PROVE  MapInv'
<1> DEFINE h == AsResponseHeader(Head(unpacker))
           p == m_channels[h.seq]
<1>1. h \in Object
  BY UnpackType, AsHeaderType DEF IoLookup, Known
<1>2. h.seq \in Seqs
  BY <1>1 DEF Object
<1>3. /\ UNCHANGED <<m_channels, reply, heap, seq, pc>>
      /\ \/ ioPc' = "drain"
         \/ ioPc' = "found" /\ hdr' = h /\ channel' = p
  BY DEF IoLookup, Known, frameVars, IoUnchanged
<1> HIDE DEF h
<1>4. CASE ioPc' = "drain"
  BY <1>3, <1>4, MapInvFrame
<1>5. CASE ioPc' = "found" /\ hdr' = h /\ channel' = p
  <2>1. RequestInHand'
    BY <1>2, <1>3, <1>5 DEF MapInv, RequestEntries, RequestInHand
  <2> QED
    BY <1>3, <2>1
    DEF MapInv, RequestEntries, ListenerEntries, AnswersKeepNumbers
<1> QED
  BY <1>3, <1>4, <1>5

(* Entries for the request in hand are all under the number of its header. *)
LEMMA MapInvErase ==
  ASSUME TypeOK, MapInv, IoErase
  PROVE  MapInv'
<1>1. /\ m_channels \in [Seqs -> Pointer]
      /\ channel \in Pointer /\ channel # Null
      /\ hdr.seq \in Seqs
  BY DEF IoErase, Erased, TypeOK, ChannelTypeOK, IoTypeOK, Object
<1>2. /\ UNCHANGED <<reply, heap, seq, pc, channel, hdr>>
      /\ ioPc = "found" /\ ioPc' = "produce"
  BY DEF IoErase, Erased, frameVars, NotProducing
<1>3. \A s \in Seqs :
        /\ m_channels[s] \in Pointer
        /\ m_channels'[s] = m_channels[s] \/ m_channels'[s] = Null
        /\ channel.type = "REQUEST" /\ s = hdr.seq => m_channels'[s] = Null
  BY <1>1 DEF IoErase, Erased
<1>4. RequestEntries' /\ ListenerEntries' /\ AnswersKeepNumbers'
  BY <1>2, <1>3, EntryTypes
  DEF MapInv, RequestEntries, ListenerEntries, AnswersKeepNumbers
<1>5. ASSUME NEW s \in Seqs, channel.type = "REQUEST"
      PROVE  m_channels'[s] # channel
  <2>1. m_channels[s] = channel => s = hdr.seq
    BY <1>2, <1>5 DEF MapInv, RequestEntries, RequestInHand
  <2> QED
    BY <1>1, <1>3, <1>5, <2>1
<1>6. RequestInHand'
  BY <1>2, <1>5 DEF MapInv, RequestInHand
<1> QED
  BY <1>4, <1>6 DEF MapInv

(* The entry of the request in hand was erased, so no entry is left for    *)
(* the call whose answer is stored.                                        *)
LEMMA MapInvProduce ==
  ASSUME TypeOK, MapInv, IoProduce
  PROVE  MapInv'
<1>1. /\ channel \in Pointer /\ channel # Null /\ ioPc = "produce"
      /\ hdr.seq \in Seqs
      /\ reply \in [Calls -> Reply]
      /\ m_channels \in [Seqs -> Pointer]
  BY DEF IoProduce, TypeOK, ChannelTypeOK, IoTypeOK, Object
<1>2. UNCHANGED <<m_channels, seq, pc>>
  BY DEF IoProduce, frameVars, IoUnchanged
<1>3. CASE channel.type \in ListenerTypes
  <2>1. ioPc' \in {"drain", "callback"} /\ UNCHANGED <<reply, heap>>
    BY <1>1, <1>3, EntryTypes
    DEF IoProduce, Produce, LogProduce, EventProduce, QueryProduce, Deliver,
        Discard, BackToDrain
  <2> QED
    BY <1>2, <2>1, MapInvFrame
<1>4. CASE channel.type = "REQUEST"
  <2> DEFINE c == channel.call
  <2>1. /\ c \in Calls /\ seq[c] = hdr.seq
        /\ pc[c] \notin {"idle", "handshake"}
        /\ \A s \in Seqs : m_channels[s] # channel
    BY <1>1, <1>4, EntryTypes DEF MapInv, RequestInHand
  <2>2. \A s \in Seqs : m_channels[s].type = "REQUEST"
                           => m_channels[s].call # c
    <3> SUFFICES ASSUME NEW s \in Seqs, m_channels[s].type = "REQUEST",
                        m_channels[s].call = c
                 PROVE  FALSE
      OBVIOUS
    <3>1. m_channels[s] \in Pointer
      BY <1>1
    <3>2. m_channels[s] = channel
      BY <1>1, <1>4, <3>1 DEF Pointer, Null
    <3> QED
      BY <2>1, <3>2
  <2>3. PICK r : /\ reply' = [reply EXCEPT ![c] = r]
                 /\ r.seq = hdr.seq
                 /\ heap' = heap
                 /\ \/ ioPc' = "drain" /\ r.pending = reply[c].pending
                    \/ /\ ioPc' = "notify" /\ UNCHANGED <<channel, hdr>>
                       /\ r.pending
    BY <1>4
    DEF IoProduce, Produce, ProduceHeader, ProduceData, ProduceThrows, Store,
        BackToDrain, ListenerTypes
  <2> HIDE DEF c
  <2>4. RequestEntries' /\ ListenerEntries'
    BY <1>1, <1>2, <2>1, <2>2, <2>3, EntryTypes
    DEF MapInv, RequestEntries, ListenerEntries
  <2>5. AnswersKeepNumbers'
    BY <1>1, <1>2, <2>1, <2>3 DEF MapInv, AnswersKeepNumbers
  <2>6. RequestInHand'
    BY <1>1, <1>2, <2>3 DEF MapInv, RequestInHand
  <2> QED
    BY <2>4, <2>5, <2>6 DEF MapInv
<1> QED
  BY <1>1, <1>3, <1>4, EntryTypes

LEMMA MapInvIoStep ==
  ASSUME TypeOK, MapInv, IoStep
  PROVE  MapInv'
<1>1. CASE IoTop \/ IoExit \/ IoReceive \/ IoIdle \/ IoDrained
  BY <1>1, MapInvFrame
  DEF IoTop, IoExit, IoReceive, ReadsUpTo, IoIdle, IoDrained, frameVars,
      NotProducing, IoUnchanged
<1>2. CASE IoNotify \/ IoCallbackReturn
  BY <1>2, MapInvFrame
  DEF IoNotify, IoCallbackReturn, BackToDrain, frameVars, IoUnchanged
<1>3. CASE IoDangle \/ IoBadSocket
  BY <1>3, MapInvFrame
  DEF IoDangle, Dangle, IoBadSocket, frameVars, IoUnchanged
<1>4. CASE IoDeregister
  <2>1. hdr.seq \in Seqs
    BY <1>4 DEF IoDeregister, TypeOK, ChannelTypeOK, Object
  <2> QED
    BY <1>4, <2>1, MapInvRemove DEF IoDeregister, BackToDrain, frameVars
<1> QED
  BY <1>1, <1>2, <1>3, <1>4, MapInvLookup, MapInvErase, MapInvProduce
  DEF IoStep, IoLoop

LEMMA MapInvInit == Init => MapInv
  BY EntryTypes, NullType
  DEF Init, ChannelInit, IoInit, MapInv, RequestEntries, ListenerEntries,
      AnswersKeepNumbers, RequestInHand, NoReply

LEMMA MapInvNext == TypeOK /\ MapInv /\ [Next]_vars => MapInv'
<1> SUFFICES ASSUME TypeOK, MapInv, [Next]_vars PROVE MapInv'
  OBVIOUS
<1>1. CASE UNCHANGED vars
  BY <1>1, MapInvFrame DEF vars, frameVars, channelVars, ioVars
<1>2. ASSUME NEW t \in Threads \cup {IoThread}, NEW c \in Calls,
             RpcMethod(t, c)
      PROVE  MapInv'
  BY <1>2, RpcMethodIsCall, MapInvCall
<1>3. ASSUME NEW c \in Calls, Finish(c) \/ Connect(c)
      PROVE  MapInv'
  BY <1>3, MapInvFinish, MapInvConnect
<1>4. CASE Close
  BY <1>4, MapInvFrame
  DEF Close, CloseBegin, Told, CloseEnd, ResetSeq, ListenerCloses, BackToDrain,
      frameVars,
      channelVars
<1>5. CASE AgentStep
  BY <1>5, MapInvFrame DEF AgentStep, frameVars, channelVars, ioVars
<1>6. ASSUME NEW t, NEW c \in Calls, SendKills(t, c) PROVE MapInv'
  BY <1>6, MapInvFrame DEF SendKills, frameVars, ioVars
<1>7. CASE AgentCloses
  BY <1>7, MapInvFrame DEF AgentCloses, frameVars, channelVars
<1> QED
  BY <1>1, <1>2, <1>3, <1>4, <1>5, <1>6, <1>7, MapInvIoStep DEF Next

(* Entries, replies and the message in the I/O thread's hand agree on the  *)
(* sequence number of every call.                                          *)
THEOREM MapCorrect == Spec => []MapInv
  BY TypeCorrect, MapInvInit, MapInvNext, PTL DEF Spec

(* Whatever the agent answers or withholds, however late, in however many  *)
(* reads, over any number of connections and with any number of threads,   *)
(* m_channels never points to a channel that has been destroyed.           *)
THEOREM MapSound == Spec => []RegisteredAlive
<1>1. TypeOK /\ MapInv => RegisteredAlive
  BY MapInvImpliesRegisteredAlive
<1> QED
  BY <1>1, TypeCorrect, MapCorrect, PTL
=============================================================================
