-------------------------- MODULE SerfTrafficProofs --------------------------
(***************************************************************************)
(* What is in transit between the client and the agent: under which        *)
(* numbers (TransitInv), in which order (OrderInv) and how headers and     *)
(* bodies are paired (PairInv), for every environment.  The theorems about *)
(* answers, listeners and channels rest on these three invariants.         *)
(***************************************************************************)
EXTENDS SerfCallProofs, SerfInvariants

-----------------------------------------------------------------------------
(* Sequences of objects. *)

LEMMA ConcatObjects ==
  ASSUME NEW s \in Seq(Object), NEW t \in Seq(Object)
  PROVE  /\ s \o t \in Seq(Object)
         /\ Len(s \o t) = Len(s) + Len(t) /\ Len(s) \in Nat /\ Len(t) \in Nat
         /\ \A i \in 1..Len(s) + Len(t) :
               (s \o t)[i] = IF i <= Len(s) THEN s[i] ELSE t[i - Len(s)]
BY ConcatProperties, LenProperties

LEMMA ConcatThree ==
  ASSUME NEW s \in Seq(Object), NEW t \in Seq(Object), NEW u \in Seq(Object)
  PROVE  (s \o t) \o u = s \o (t \o u)
BY ConcatAssociative

LEMMA EmptyConcat ==
  ASSUME NEW s \in Seq(Object)
  PROVE  s \o <<>> = s /\ <<>> \o s = s
BY ConcatEmptySeq

LEMMA TailObjects ==
  ASSUME NEW s \in Seq(Object), s # <<>>
  PROVE  /\ Head(s) \in Object /\ Head(s) = s[1]
         /\ Tail(s) \in Seq(Object)
         /\ Len(s) \in Nat /\ Len(s) > 0
         /\ Len(Tail(s)) = Len(s) - 1
         /\ \A i \in 1..Len(s) - 1 : Tail(s)[i] = s[i + 1]
<1>1. Len(s) \in Nat /\ Len(s) > 0
  BY EmptySeq, LenProperties
<1> QED
  BY <1>1, HeadTailProperties

LEMMA HeadTailConcat ==
  ASSUME NEW s \in Seq(Object), NEW t \in Seq(Object), s # <<>>
  PROVE  /\ s \o t # <<>>
         /\ Head(s \o t) = Head(s)
         /\ Tail(s \o t) = Tail(s) \o t
<1>1. /\ s \o t \in Seq(Object) /\ Len(s \o t) = Len(s) + Len(t)
      /\ Len(s) \in Nat /\ Len(t) \in Nat /\ Len(s) > 0
  BY ConcatObjects, TailObjects
<1>2. s \o t # <<>>
  BY <1>1, EmptySeq
<1>3. Head(s \o t) = Head(s)
  BY <1>1, <1>2, TailObjects, ConcatObjects
<1>4. /\ Tail(s) \o t \in Seq(Object)
      /\ Len(Tail(s) \o t) = Len(s) - 1 + Len(t)
      /\ Tail(s \o t) \in Seq(Object)
      /\ Len(Tail(s \o t)) = Len(s) + Len(t) - 1
  BY <1>1, <1>2, TailObjects, ConcatObjects
<1>5. ASSUME NEW i \in 1..Len(s) + Len(t) - 1
      PROVE  Tail(s \o t)[i] = (Tail(s) \o t)[i]
  <2>1. Tail(s \o t)[i] = (s \o t)[i + 1]
    BY <1>1, <1>2, TailObjects
  <2>2. (s \o t)[i + 1] = IF i + 1 <= Len(s) THEN s[i + 1]
                          ELSE t[i + 1 - Len(s)]
    BY <1>1, ConcatObjects
  <2>3. (Tail(s) \o t)[i] = IF i <= Len(s) - 1 THEN Tail(s)[i]
                            ELSE t[i - (Len(s) - 1)]
    BY <1>1, TailObjects, ConcatObjects
  <2>4. i <= Len(s) - 1 => Tail(s)[i] = s[i + 1]
    BY <1>1, TailObjects
  <2> QED
    BY <1>1, <2>1, <2>2, <2>3, <2>4
<1>6. Tail(s \o t) = Tail(s) \o t
  BY <1>1, <1>4, <1>5, SeqEqual
<1> QED
  BY <1>2, <1>3, <1>6

LEMMA PieceObjects ==
  ASSUME NEW s \in Seq(Object), NEW m \in Nat, NEW n \in Nat, 1 <= m,
         n <= Len(s)
  PROVE  /\ SubSeq(s, m, n) \in Seq(Object)
         /\ Len(SubSeq(s, m, n)) = IF m <= n THEN n - m + 1 ELSE 0
         /\ \A i \in 1..n - m + 1 : SubSeq(s, m, n)[i] = s[m + i - 1]
<1>1. \A i \in m..n : s[i] \in Object
  BY ElementOfSeq, LenProperties
<1> QED
  BY <1>1, SubSeqProperties

LEMMA CutConcat ==
  ASSUME NEW s \in Seq(Object), NEW n \in 1..Len(s)
  PROVE  SubSeq(s, 1, n) \o SubSeq(s, n + 1, Len(s)) = s
<1>1. Len(s) \in Nat
  BY LenProperties
<1>2. SubSeq(s, 1, n) \o SubSeq(s, n + 1, Len(s)) = SubSeq(s, 1, Len(s))
  BY <1>1, ConcatAdjacentSubSeq
<1> QED
  BY <1>2, SubSeqFull

-----------------------------------------------------------------------------
(* The objects a sequence holds. *)

LEMMA RangeIs ==
  ASSUME NEW s \in Seq(Object)
  PROVE  /\ \A i \in 1..Len(s) : s[i] \in Range(s)
         /\ \A o \in Range(s) : o \in Object /\ \E i \in 1..Len(s) : s[i] = o
BY LenProperties, ElementOfSeq DEF Range

LEMMA RangeEmpty == Range(<<>>) = {}
BY DEF Range

LEMMA RangeConcat ==
  ASSUME NEW s \in Seq(Object), NEW t \in Seq(Object)
  PROVE  Range(s \o t) = Range(s) \cup Range(t)
<1>1. ASSUME NEW o \in Range(s \o t) PROVE o \in Range(s) \cup Range(t)
  <2>0. s \o t \in Seq(Object)
    BY ConcatObjects
  <2>1. PICK i \in 1..Len(s \o t) : (s \o t)[i] = o
    BY <2>0, RangeIs
  <2>2. CASE i <= Len(s)
    BY <2>1, <2>2, ConcatObjects, RangeIs
  <2>3. CASE ~(i <= Len(s))
    <3>1. i - Len(s) \in 1..Len(t) /\ t[i - Len(s)] = o
      BY <2>1, <2>3, ConcatObjects
    <3> QED
      BY <3>1, RangeIs
  <2> QED
    BY <2>2, <2>3
<1>2. ASSUME NEW o \in Range(s) PROVE o \in Range(s \o t)
  <2>1. PICK i \in 1..Len(s) : s[i] = o
    BY RangeIs
  <2>2. (s \o t)[i] = o /\ i \in 1..Len(s \o t)
    BY <2>1, ConcatObjects
  <2> QED
    BY <2>2, ConcatObjects, RangeIs
<1>3. ASSUME NEW o \in Range(t) PROVE o \in Range(s \o t)
  <2>1. PICK i \in 1..Len(t) : t[i] = o
    BY RangeIs
  <2>2. (s \o t)[i + Len(s)] = o /\ i + Len(s) \in 1..Len(s \o t)
    BY <2>1, ConcatObjects
  <2> QED
    BY <2>2, ConcatObjects, RangeIs
<1> QED
  BY <1>1, <1>2, <1>3

LEMMA RangeTail ==
  ASSUME NEW s \in Seq(Object), s # <<>>
  PROVE  Head(s) \in Range(s) /\ Range(Tail(s)) \subseteq Range(s)
<1>1. Head(s) \in Range(s)
  BY TailObjects, RangeIs
<1>2. ASSUME NEW o \in Range(Tail(s)) PROVE o \in Range(s)
  <2>0. Tail(s) \in Seq(Object)
    BY TailObjects
  <2>1. PICK i \in 1..Len(Tail(s)) : Tail(s)[i] = o
    BY <2>0, RangeIs
  <2>2. s[i + 1] = o /\ i + 1 \in 1..Len(s)
    BY <2>1, TailObjects
  <2> QED
    BY <2>2, RangeIs
<1> QED
  BY <1>1, <1>2

LEMMA JoinObjects ==
  ASSUME NEW a \in Object, NEW b \in Object
  PROVE  <<a>> \o <<b>> = <<a, b>>
<1>1. /\ <<a>> \in Seq(Object) /\ <<b>> \in Seq(Object)
      /\ <<a, b>> \in Seq(Object)
      /\ Len(<<a>>) = 1 /\ Len(<<b>>) = 1 /\ Len(<<a, b>>) = 2
      /\ <<a>>[1] = a /\ <<b>>[1] = b /\ <<a, b>>[1] = a /\ <<a, b>>[2] = b
  OBVIOUS
<1>2. /\ <<a>> \o <<b>> \in Seq(Object) /\ Len(<<a>> \o <<b>>) = 2
      /\ (<<a>> \o <<b>>)[1] = a /\ (<<a>> \o <<b>>)[2] = b
  BY <1>1, ConcatObjects
<1>3. \A i \in 1..2 : (<<a>> \o <<b>>)[i] = <<a, b>>[i]
  BY <1>1, <1>2
<1> QED
  BY <1>1, <1>2, <1>3, SeqEqual

-----------------------------------------------------------------------------
(* Layer 1: the thread and the owners of calls. *)

LEMMA ThreadInvFrame ==
  ASSUME ThreadInv, UNCHANGED <<wire, requests, subs, unpacker, ioPc, m_socket,
                                m_thread>>
  PROVE  ThreadInv'
BY DEF ThreadInv, Live

LEMMA ThreadInvSend ==
  ASSUME ThreadInv, NEW c, NEW k, NEW a, SendDataOk(c, k, a),
         UNCHANGED channelVars
  PROVE  ThreadInv'
BY DEF ThreadInv, Live, SendDataOk, channelVars

LEMMA ThreadInvCalls ==
  ASSUME TypeOK, ThreadInv, NEW c \in Calls,
         (\E t \in Threads \cup {IoThread} : RpcMethod(t, c))
            \/ Finish(c) \/ Connect(c)
  PROVE  ThreadInv'
<1>1. ASSUME NEW t \in Threads \cup {IoThread}, RpcMethod(t, c)
      PROVE  ThreadInv'
  <2>1. PICK k \in Commands, a \in Seqs : Call(t, c, k, a)
    BY <1>1, RpcMethodIsCall
  <2>2. CASE SendDataOk(c, k, a)
    BY <2>1, <2>2, ThreadInvSend DEF Call
  <2>3. CASE SendDataFails
    BY <2>1, <2>3, ThreadInvFrame
    DEF Call, SendDataFails, channelVars, agentVars
  <2> QED
    BY <2>1, <2>2, <2>3 DEF Call
<1>2. CASE Finish(c)
  <2>1. UNCHANGED <<wire, requests, subs, unpacker, ioPc, m_socket, m_thread>>
    BY <1>2
    DEF Finish, Consume, CheckPending, RemoveTimedOut, Register, Unlisten,
        ChannelStep, agentVars, channelVars, ioVars
  <2> QED
    BY <2>1, ThreadInvFrame
<1>3. CASE ConnectFails(c)
  <2>1. /\ m_socket' = "none" /\ UNCHANGED <<unpacker, ioPc, m_thread>>
        /\ wire' = <<>> /\ requests' = {} /\ subs' = {}
    BY <1>3 DEF ConnectFails, AgentForget, channelVars
  <2> QED
    BY <2>1 DEF ThreadInv, Live
<1>4. CASE ConnectOpens(c)
  <2>1. ioPc = "top" /\ m_thread # "running"
    BY <1>4 DEF ConnectOpens, Joinable, TypeOK, IoTypeOK
  <2> QED
    BY <1>4, <2>1 DEF ConnectOpens, ThreadInv, Live, agentVars
<1>5. CASE ConnectTerminates(c)
  BY <1>5, ThreadInvFrame DEF ConnectTerminates, agentVars, ioVars
<1>6. CASE Handshake(c)
  <2>1. CASE SendDataOk(c, "handshake", 0)
    BY <1>6, <2>1, ThreadInvSend DEF Handshake
  <2>2. CASE SendDataFails
    BY <1>6, <2>2, ThreadInvFrame
    DEF Handshake, SendDataFails, channelVars, agentVars
  <2> QED
    BY <1>6, <2>1, <2>2 DEF Handshake
<1> QED
  BY <1>1, <1>2, <1>3, <1>4, <1>5, <1>6 DEF Connect

LEMMA ThreadInvIo ==
  ASSUME TypeOK, ThreadInv, IoStep
  PROVE  ThreadInv'
<1>1. m_thread = "running"
  BY DEF IoStep
<1>2. CASE IoTop \/ IoIdle \/ IoDrained
  BY <1>2
  DEF IoTop, IoIdle, IoDrained, ThreadInv, Live, IoUnchanged, NotProducing,
      agentVars
<1>3. CASE IoExit
  BY <1>3 DEF IoExit, AgentForget, IsConnected, ThreadInv, Live
<1>4. CASE IoReceive
  BY <1>1, <1>4 DEF IoReceive, ReadsUpTo, ThreadInv, Live, IoUnchanged
<1>5. CASE IoLookup \/ IoErase
  BY <1>5
  DEF IoLookup, IoErase, ThreadInv, Live, IoUnchanged, agentVars, NotProducing
<1>6. CASE IoProduce
  <2>1. UNCHANGED <<agentVars, m_socket, m_thread>>
    BY <1>6 DEF IoProduce, IoUnchanged
  <2>2. ioPc' \in {"notify", "drain", "callback"}
    BY <1>6
    DEF IoProduce, Produce, ProduceHeader, ProduceData, ProduceThrows, Store,
        LogProduce, EventProduce, QueryProduce, Deliver, Discard, BackToDrain
  <2> QED
    BY <2>1, <2>2 DEF ThreadInv, Live, agentVars
<1>7. CASE IoNotify \/ IoCallbackReturn \/ IoDeregister
  BY <1>7
  DEF IoNotify, IoCallbackReturn, IoDeregister, BackToDrain, ThreadInv, Live,
      IoUnchanged, agentVars
<1>8. CASE IoDangle \/ IoBadSocket
  BY <1>8, ThreadInvFrame
  DEF IoDangle, Dangle, IoBadSocket, IoUnchanged, agentVars
<1> QED
  BY <1>2, <1>3, <1>4, <1>5, <1>6, <1>7, <1>8 DEF IoStep, IoLoop

LEMMA ThreadInvAgent ==
  ASSUME ThreadInv, AgentStep \/ AgentCloses
  PROVE  ThreadInv'
<1>1. CASE AgentCloses
  BY <1>1 DEF AgentCloses, ThreadInv, Live, frameVars, channelVars
<1>2. CASE AgentStep
  <2>1. m_socket = "open" /\ UNCHANGED <<unpacker, ioPc, m_socket, m_thread>>
    BY <1>2
    DEF AgentStep, AgentAnswers, AgentPublishes, ThreadInv, channelVars, ioVars
  <2> QED
    BY <2>1 DEF ThreadInv, Live
<1> QED
  BY <1>1, <1>2

LEMMA ThreadInvNext == TypeOK /\ ThreadInv /\ [Next]_vars => ThreadInv'
<1> SUFFICES ASSUME TypeOK, ThreadInv, [Next]_vars PROVE ThreadInv'
  OBVIOUS
<1>1. CASE UNCHANGED vars
  BY <1>1, ThreadInvFrame DEF vars, agentVars, channelVars, ioVars
<1>2. ASSUME NEW t, NEW c, SendKills(t, c) PROVE ThreadInv'
  BY <1>2, ThreadInvFrame DEF SendKills, agentVars, ioVars
<1>3. CASE CloseBegin
  BY <1>3, ThreadInvFrame DEF CloseBegin, agentVars, channelVars
<1>4. CASE CloseEnd
  BY <1>4
  DEF CloseEnd, IsConnected, ThreadInv, Live, agentVars, channelVars
<1>5. CASE ListenerCloses
  BY <1>5 DEF ListenerCloses, BackToDrain, ThreadInv, Live, agentVars
<1> QED
  BY <1>1, <1>2, <1>3, <1>4, <1>5, ThreadInvCalls, ThreadInvIo,
     ThreadInvAgent DEF Next, Close

LEMMA ThreadInvInit == Init => ThreadInv
BY DEF Init, AgentInit, ChannelInit, IoInit, ThreadInv, Live

(* The I/O thread is inside a call only if its listener is. *)
LEMMA ListenerCalls ==
  ASSUME TypeOK, Busy(IoThread) => ioPc = "callback", [Next]_vars
  PROVE  Busy(IoThread)' => ioPc' = "callback"
<1>1. CASE Busy(IoThread)' => Busy(IoThread)
  <2>1. CASE UNCHANGED ioPc
    BY <1>1, <2>1
  <2>2. CASE IoStep
    BY <1>1, <2>2
    DEF IoStep, IoLoop, IoTop, IoExit, IoReceive, IoIdle, IoDrained, IoLookup,
        IoErase, IoProduce, IoNotify, IoDeregister, IoDangle, IoBadSocket
  <2>3. CASE ListenerCloses
    BY <1>1, <2>3 DEF ListenerCloses
  <2>4. ASSUME NEW c, ConnectOpens(c) PROVE ~Busy(IoThread)
    BY <2>4 DEF ConnectOpens, Joinable, TypeOK, IoTypeOK
  <2>5. ASSUME NEW t, NEW c, SendKills(t, c) PROVE UNCHANGED ioPc
    BY <2>5 DEF SendKills
  <2>6. ASSUME NEW t \in Threads \cup {IoThread}, NEW c \in Calls,
               RpcMethod(t, c)
        PROVE  UNCHANGED ioPc
    BY <2>6, RpcMethodIsCall DEF Call, channelVars
  <2>7. ASSUME NEW c, Finish(c) PROVE UNCHANGED ioPc
    BY <2>7
    DEF Finish, Consume, CheckPending, RemoveTimedOut, Register, Unlisten,
        ChannelStep, channelVars
  <2>8. CASE AgentStep \/ AgentCloses \/ UNCHANGED vars \/ CloseBegin \/ CloseEnd
    BY <2>1, <2>8
    DEF AgentStep, AgentCloses, CloseBegin, CloseEnd, vars, channelVars
  <2>9. ASSUME NEW c, ConnectFails(c) \/ ConnectTerminates(c) \/ Handshake(c)
        PROVE  UNCHANGED ioPc
    BY <2>9 DEF ConnectFails, ConnectTerminates, Handshake, channelVars
  <2> QED
    BY <1>1, <2>1, <2>2, <2>3, <2>4, <2>5, <2>6, <2>7, <2>8, <2>9
    DEF Next, Close, Connect
<1>2. CASE Busy(IoThread)' /\ ~Busy(IoThread)
  <2>1. PICK d \in Calls : owner'[d] = IoThread /\ owner[d] # IoThread
    BY <1>2 DEF Busy
  <2>2. owner' # owner /\ IoThread # Main /\ IoThread # NoThread
    BY <2>1, ThreadsAssumption
  <2>3. ASSUME NEW c, NEW r, Return(c, r) PROVE owner'[d] \in {owner[d], NoThread}
    BY <2>3 DEF Return, TypeOK
  <2>4. \A c \in Calls : ~Finish(c)
    BY <2>1, <2>2, <2>3
    DEF Finish, Consume, CheckPending, AfterReply, AfterTimeout,
        RemoveTimedOut, Register, Unlisten, clientVars
  <2>5. \A c \in Calls : ~Connect(c)
    BY <2>1, <2>2, <2>3
    DEF Connect, ConnectFails, ConnectOpens, ConnectTerminates, Handshake,
        clientVars, TypeOK
  <2>6. ~(Close \/ IoStep \/ AgentStep \/ AgentCloses \/ UNCHANGED vars)
    BY <2>2
    DEF Close, CloseBegin, CloseEnd, ListenerCloses, IoStep, AgentStep,
        AgentCloses, vars, clientVars
  <2>7. \A t, c : ~SendKills(t, c)
    BY <2>2 DEF SendKills, clientVars
  <2>8. PICK t \in Threads \cup {IoThread}, c \in Calls : RpcMethod(t, c)
    BY <2>4, <2>5, <2>6, <2>7 DEF Next
  <2>9. /\ owner' = [owner EXCEPT ![c] = t] \/ \E r : Return(c, r)
        /\ MayCall(t) /\ UNCHANGED ioPc
    BY <2>8, RpcMethodIsCall DEF Call, channelVars
  <2>10. t = IoThread
    BY <2>1, <2>2, <2>3, <2>9 DEF TypeOK
  <2> QED
    BY <2>9, <2>10 DEF MayCall
<1> QED
  BY <1>1, <1>2

(* A step of call c, seen by the owners. *)
LEMMA OwnerInvOne ==
  ASSUME OwnerInv, NEW c \in Calls, UNCHANGED reply,
         \A d \in Calls \ {c} : /\ pc'[d] = pc[d] /\ cmd'[d] = cmd[d]
                                /\ owner'[d] = owner[d]
                                /\ result'[d] = result[d],
         owner'[c] = NoThread <=> pc'[c] \in {"idle", "done"},
         pc'[c] = "handshake" => cmd'[c] = "handshake",
         cmd'[c] = "handshake" /\ owner'[c] # NoThread => owner'[c] = Main,
         result'[c] = "SUCCESS" => reply[c].pending /\ ~reply[c].err,
         pc'[c] = "register" => cmd'[c] \in ListenerCommands,
         pc'[c] = "unlisten" => cmd'[c] = "stop",
         Busy(IoThread)' => ioPc' = "callback"
  PROVE  OwnerInv'
BY DEF OwnerInv, Busy

LEMMA OwnerInvReturns ==
  ASSUME TypeOK, OwnerInv, NEW c \in Calls, UNCHANGED reply,
         \A d \in Calls \ {c} : cmd'[d] = cmd[d], NEW r, Return(c, r),
         r = "SUCCESS" => reply[c].pending /\ ~reply[c].err,
         Busy(IoThread)' => ioPc' = "callback"
  PROVE  OwnerInv'
<1>1. /\ pc'[c] = "done" /\ result'[c] = r
      /\ \A d \in Calls \ {c} : pc'[d] = pc[d] /\ result'[d] = result[d]
  BY ReturnEffect
<1>2. /\ owner'[c] = NoThread
      /\ \A d \in Calls \ {c} : owner'[d] = owner[d]
  BY DEF Return, TypeOK
<1> QED
  BY <1>1, <1>2, OwnerInvOne

LEMMA OwnerInvMoves ==
  ASSUME TypeOK, OwnerInv, CallProgress, NEW c \in Calls, NEW p,
         UNCHANGED <<reply, result, owner, cmd>>,
         pc' = [pc EXCEPT ![c] = p], p \notin {"idle", "handshake", "done"},
         pc[c] \notin {"idle", "done"},
         p = "register" => cmd[c] \in ListenerCommands,
         p = "unlisten" => cmd[c] = "stop",
         Busy(IoThread)' => ioPc' = "callback"
  PROVE  OwnerInv'
<1>1. /\ pc'[c] = p
      /\ \A d \in Calls \ {c} : pc'[d] = pc[d]
  BY MoveEffect
<1>2. result[c] # "SUCCESS" /\ owner[c] # NoThread
  BY DEF OwnerInv, CallProgress
<1>3. cmd[c] = "handshake" /\ owner[c] # NoThread => owner[c] = Main
  BY DEF OwnerInv
<1> QED
  BY <1>1, <1>2, <1>3, OwnerInvOne

LEMMA OwnerInvBegins ==
  ASSUME TypeOK, OwnerInv, CallProgress, NEW c \in Calls,
         NEW t \in Threads \cup {IoThread}, NEW p, NEW k,
         UNCHANGED <<reply, result>>, pc[c] = "idle",
         pc' = [pc EXCEPT ![c] = p], p \in {"handshake", "wait"},
         cmd' = [cmd EXCEPT ![c] = k], owner' = [owner EXCEPT ![c] = t],
         k = "handshake" => t = Main,
         p = "handshake" => k = "handshake",
         Busy(IoThread)' => ioPc' = "callback"
  PROVE  OwnerInv'
<1>1. /\ pc'[c] = p
      /\ \A d \in Calls \ {c} : pc'[d] = pc[d]
  BY MoveEffect
<1>2. /\ cmd'[c] = k /\ owner'[c] = t
      /\ \A d \in Calls \ {c} : cmd'[d] = cmd[d] /\ owner'[d] = owner[d]
  BY DEF TypeOK, ChannelTypeOK
<1>3. t # NoThread /\ result[c] # "SUCCESS"
  BY ThreadsAssumption DEF CallProgress
<1> QED
  BY <1>1, <1>2, <1>3, OwnerInvOne

LEMMA OwnerInvCall ==
  ASSUME TypeOK, OwnerInv, CallProgress, NEW t \in Threads \cup {IoThread},
         NEW c \in Calls, NEW k, NEW a, Call(t, c, k, a),
         Busy(IoThread)' => ioPc' = "callback"
  PROVE  OwnerInv'
<1>1. /\ pc[c] = "idle" /\ UNCHANGED reply
      /\ cmd' = [cmd EXCEPT ![c] = k] /\ k # "handshake"
  BY CommandsAssumption DEF Call, Fresh, channelVars
<1>2. \A d \in Calls \ {c} : cmd'[d] = cmd[d]
  BY <1>1 DEF TypeOK, ChannelTypeOK
<1>3. CASE Return(c, "FAILURE")
  BY <1>1, <1>2, <1>3, OwnerInvReturns
<1>4. CASE /\ pc' = [pc EXCEPT ![c] = "wait"]
           /\ owner' = [owner EXCEPT ![c] = t]
           /\ UNCHANGED result
  BY <1>1, <1>4, OwnerInvBegins
<1> QED
  BY <1>3, <1>4 DEF Call

LEMMA OwnerInvFinish ==
  ASSUME TypeOK, OwnerInv, CallProgress, NEW c \in Calls, Finish(c),
         Busy(IoThread)' => ioPc' = "callback"
  PROVE  OwnerInv'
<1>1. UNCHANGED <<reply, cmd>>
  BY
  DEF Finish, Consume, CheckPending, RemoveTimedOut, Register, Unlisten,
      ChannelStep, channelVars
<1>2. CASE Consume(c)
  BY <1>1, <1>2, OwnerInvMoves DEF Consume, clientVars
<1>3. CASE CheckPending(c) /\ AfterReply(c)
  <2>1. CASE \E r \in {"SUCCESS", "FAILURE"} :
                Return(c, r) /\ (r = "SUCCESS" => ~reply[c].err)
    BY <1>1, <1>3, <2>1, OwnerInvReturns DEF AfterReply
  <2>2. CASE /\ pc' = [pc EXCEPT ![c] =
                          IF cmd[c] = "stop" THEN "unlisten" ELSE "register"]
             /\ cmd[c] \in ListenerCommands \cup {"stop"}
             /\ UNCHANGED <<owner, result>>
    BY <1>1, <1>3, <2>2, OwnerInvMoves DEF CheckPending
  <2> QED
    BY <1>3, <2>1, <2>2 DEF AfterReply
<1>4. CASE CheckPending(c) /\ AfterTimeout(c)
  BY <1>1, <1>4, OwnerInvMoves DEF CheckPending, AfterTimeout
<1>5. CASE RemoveTimedOut(c)
  <2>1. PICK r \in {"TIMEOUT", "FAILURE"} : Return(c, r)
    BY <1>5 DEF RemoveTimedOut
  <2> QED
    BY <1>1, <2>1, OwnerInvReturns
<1>6. CASE Register(c) \/ Unlisten(c)
  <2>1. Return(c, "SUCCESS") /\ reply[c].pending /\ ~reply[c].err
    BY <1>6 DEF Register, Unlisten, CallProgress
  <2> QED
    BY <1>1, <2>1, OwnerInvReturns
<1> QED
  BY <1>2, <1>3, <1>4, <1>5, <1>6 DEF Finish, CheckPending

LEMMA OwnerInvConnect ==
  ASSUME TypeOK, OwnerInv, CallProgress, NEW c \in Calls, Connect(c),
         Busy(IoThread)' => ioPc' = "callback"
  PROVE  OwnerInv'
<1>1. CASE ConnectFails(c)
  BY <1>1, OwnerInvReturns DEF ConnectFails, channelVars
<1>2. CASE ConnectOpens(c)
  <2>1. PICK p : p = "handshake"
    OBVIOUS
  <2>2. /\ pc[c] = "idle" /\ UNCHANGED <<reply, result>>
        /\ pc' = [pc EXCEPT ![c] = p]
        /\ cmd' = [cmd EXCEPT ![c] = p]
        /\ owner' = [owner EXCEPT ![c] = Main]
        /\ p \in {"handshake", "wait"}
    BY <1>2, <2>1 DEF ConnectOpens, MayConnect, Fresh
  <2>3. Main \in Threads \cup {IoThread}
    BY ThreadsAssumption
  <2> QED
    BY <2>2, <2>3, OwnerInvBegins
<1>3. CASE ConnectTerminates(c)
  BY <1>3 DEF ConnectTerminates, frameVars, clientVars, OwnerInv, Busy
<1>4. CASE Handshake(c)
  <2>1. UNCHANGED <<reply, cmd>> /\ pc[c] = "handshake"
    BY <1>4 DEF Handshake, channelVars
  <2>2. CASE pc' = [pc EXCEPT ![c] = "wait"] /\ UNCHANGED <<owner, result>>
    BY <2>1, <2>2, OwnerInvMoves
  <2>3. CASE Return(c, "FAILURE")
    BY <2>1, <2>3, OwnerInvReturns
  <2> QED
    BY <1>4, <2>2, <2>3 DEF Handshake
<1> QED
  BY <1>1, <1>2, <1>3, <1>4 DEF Connect

(* An answer is stored only for a call that has not returned. *)
LEMMA OwnerInvIo ==
  ASSUME TypeOK, MapInv, CallInv, OwnerInv, IoStep,
         Busy(IoThread)' => ioPc' = "callback"
  PROVE  OwnerInv'
<1>1. UNCHANGED <<pc, result>> /\ CallProgress
  BY IoStepEffect DEF CallInv
<1>2. UNCHANGED <<cmd, owner>>
  BY
  DEF IoStep, IoLoop, IoTop, IoExit, IoReceive, IoIdle, IoDrained, IoLookup,
      IoErase, IoProduce, IoNotify, IoCallbackReturn, IoDeregister, IoDangle,
      IoBadSocket, frameVars, clientVars
<1>3. \A c \in Calls : result[c] = "SUCCESS" => reply'[c] = reply[c]
  <2>1. CASE UNCHANGED reply
    BY <2>1
  <2>2. ASSUME NEW r \in Reply, OnStack(channel.call),
               reply' = [reply EXCEPT ![channel.call] = r]
        PROVE  \A c \in Calls : result[c] = "SUCCESS" => reply'[c] = reply[c]
    BY <1>1, <2>2 DEF OnStack, CallProgress, TypeOK, ChannelTypeOK
  <2> QED
    BY <2>1, <2>2, IoStepEffect
<1> QED
  BY <1>1, <1>2, <1>3 DEF OwnerInv, Busy

LEMMA OwnerInvNext ==
  TypeOK /\ MapInv /\ CallInv /\ OwnerInv /\ [Next]_vars => OwnerInv'
<1> SUFFICES ASSUME TypeOK, MapInv, CallInv, OwnerInv, [Next]_vars
             PROVE  OwnerInv'
  OBVIOUS
<1> CallProgress
  BY DEF CallInv
<1>0. Busy(IoThread)' => ioPc' = "callback"
  BY ListenerCalls DEF OwnerInv, Busy
<1>1. CASE UNCHANGED vars
  BY <1>0, <1>1 DEF vars, frameVars, channelVars, clientVars, OwnerInv, Busy
<1>2. ASSUME NEW t \in Threads \cup {IoThread}, NEW c \in Calls,
             RpcMethod(t, c)
      PROVE  OwnerInv'
  BY <1>0, <1>2, RpcMethodIsCall, OwnerInvCall
<1>3. ASSUME NEW t, NEW c, SendKills(t, c) PROVE OwnerInv'
  BY <1>0, <1>3 DEF SendKills, frameVars, clientVars, OwnerInv, Busy
<1>4. CASE Close
  BY <1>0, <1>4
  DEF Close, CloseBegin, CloseEnd, ListenerCloses, frameVars, channelVars,
      clientVars, OwnerInv, Busy
<1>5. CASE AgentStep \/ AgentCloses
  BY <1>0, <1>5
  DEF AgentStep, AgentCloses, frameVars, channelVars, clientVars, OwnerInv,
      Busy
<1> QED
  BY <1>0, <1>1, <1>2, <1>3, <1>4, <1>5, OwnerInvFinish, OwnerInvConnect,
     OwnerInvIo DEF Next

LEMMA OwnerInvInit == Init => OwnerInv
BY ThreadsAssumption DEF Init, ChannelInit, OwnerInv

-----------------------------------------------------------------------------
(* Layer 1: what is in transit. *)

(* A call that was sent keeps its number, command and argument.            *)
CallsKept ==
    \A c \in Calls : pc[c] \notin {"idle", "handshake"} =>
       /\ pc'[c] \notin {"idle", "handshake"}
       /\ seq'[c] = seq[c] /\ cmd'[c] = cmd[c] /\ arg'[c] = arg[c]

(* Nothing is in transit after the step that was not before it.            *)
NothingNew ==
    /\ requests' \subseteq requests
    /\ subs' \subseteq subs
    /\ Objects' \subseteq Objects
    /\ \/ hdr' \in {hdr, NoObject}
       \/ \E o \in Objects : hdr' = AsResponseHeader(o)

(* The connection does not change, or there is none.                       *)
SameConnection == Live' => Live /\ m_seq' \in Nat /\ m_seq <= m_seq'

LEMMA AsHeader ==
  ASSUME NEW o \in Object
  PROVE  /\ AsResponseHeader(o).kind = o.kind
         /\ AsResponseHeader(o).call = o.call
         /\ AsResponseHeader(o).what = o.what
         /\ o.kind = "header" => AsResponseHeader(o) = o
BY DEF AsResponseHeader, Object

LEMMA NoObjectFields ==
  /\ NoObject.kind = "none" /\ NoObject.call = NoCall
  /\ NoObject.what = "reply"
BY DEF NoObject

LEMMA ObjectsType ==
  ASSUME TypeOK
  PROVE  /\ Objects \subseteq Object
         /\ \A o \in Objects : o.call \in Calls
         /\ hdr # NoObject => hdr.call \in Calls
<1>1. wire \in Seq(Object) /\ unpacker \in Seq(Object)
  BY DEF TypeOK, AgentTypeOK, ChannelTypeOK
<1>2. Objects \subseteq Object
  BY <1>1, RangeIs DEF Objects
<1>3. hdr \in Object \cup {NoObject}
  BY DEF TypeOK, ChannelTypeOK
<1> QED
  BY <1>2, <1>3 DEF Object

(* Everything in transit belongs to a call. *)
LEMMA TransitType ==
  ASSUME TypeOK
  PROVE  /\ \A x \in InTransit : x.call \in Calls /\ x.seq \in Seqs
         /\ Talking \subseteq Calls
         /\ Due \subseteq Talking
<1>1. /\ requests \subseteq RequestMessage /\ subs \subseteq RequestMessage
      /\ UnreadHeaders \subseteq Objects
      /\ hdr \in Object \cup {NoObject}
  BY DEF TypeOK, AgentTypeOK, ChannelTypeOK, UnreadHeaders, Objects
<1>2. UnreadHeaders \subseteq Object /\ InHand \subseteq Object
  BY <1>1, ObjectsType, NoObjectFields DEF InHand
<1>3. \A x \in InTransit : x.call \in Calls /\ x.seq \in Seqs
  BY <1>1, <1>2 DEF InTransit, RequestMessage, Object
<1> QED
  BY <1>3 DEF Talking, Due, InTransit

(* Every header in transit after such a step was in transit before.        *)
LEMMA NothingNewHeaders ==
  ASSUME TypeOK, NothingNew
  PROVE  /\ UnreadHeaders' \subseteq UnreadHeaders
         /\ InHand' \subseteq InHand \cup UnreadHeaders
         /\ InTransit' \subseteq InTransit
         /\ Talking' \subseteq Talking
         /\ Due' \subseteq Due
<1>1. UnreadHeaders' \subseteq UnreadHeaders
  BY DEF NothingNew, UnreadHeaders, Objects
<1>2. InHand' \subseteq InHand \cup UnreadHeaders
  <2>1. CASE hdr' \in {hdr, NoObject}
    BY <2>1, NoObjectFields DEF InHand
  <2>2. ASSUME NEW o \in Objects, hdr' = AsResponseHeader(o)
        PROVE  InHand' \subseteq InHand \cup UnreadHeaders
    <3>1. o \in Object
      BY ObjectsType
    <3>2. hdr'.kind = "header" => hdr' = o /\ o.kind = "header"
      BY <2>2, <3>1, AsHeader
    <3> QED
      BY <3>2 DEF InHand, UnreadHeaders, Objects
  <2> QED
    BY <2>1, <2>2 DEF NothingNew
<1>3. InTransit' \subseteq InTransit
  BY <1>1, <1>2 DEF InTransit, NothingNew
<1>4. Talking' \subseteq Talking
  BY <1>3 DEF Talking
<1>5. {h \in UnreadHeaders' : h.what = "reply"}
         \subseteq {h \in UnreadHeaders : h.what = "reply"}
  BY <1>1
<1>6. Due' \subseteq Due
  BY <1>5 DEF Due, NothingNew
<1> QED
  BY <1>1, <1>2, <1>3, <1>4, <1>6

LEMMA TransitInvFrame ==
  ASSUME TypeOK, TransitInv, NothingNew, CallsKept,
         SameConnection \/ ~Live' \/ InTransit = {}
  PROVE  TransitInv'
<1>1. /\ UnreadHeaders' \subseteq UnreadHeaders
      /\ InHand' \subseteq InHand \cup UnreadHeaders
      /\ InTransit' \subseteq InTransit
      /\ requests' \subseteq requests /\ subs' \subseteq subs
  BY NothingNewHeaders DEF NothingNew
<1>2. ASSUME NEW x \in InTransit'
      PROVE  /\ x.seq = seq'[x.call]
             /\ pc'[x.call] \notin {"idle", "handshake"}
             /\ Live' => x.seq < m_seq'
  <2>1. /\ x.call \in Calls /\ x.seq \in Nat /\ x.seq = seq[x.call]
        /\ pc[x.call] \notin {"idle", "handshake"}
        /\ Live => x.seq < m_seq
    BY <1>1, TransitType, SeqsNat DEF TransitInv
  <2>2. m_seq \in Nat /\ InTransit # {}
    BY <1>1 DEF TypeOK, IoTypeOK
  <2>3. SameConnection \/ ~Live'
    BY <2>2
  <2> QED
    BY <2>1, <2>2, <2>3 DEF CallsKept, SameConnection
<1>3. ASSUME NEW o \in Objects' \cup {hdr'}, o # NoObject
      PROVE  pc'[o.call] \notin {"idle", "handshake"}
  <2>1. \E p \in Objects \cup {hdr} : p # NoObject /\ p.call = o.call
    <3>1. CASE o \in Objects'
      BY <3>1, ObjectsType, ObjectNotNone DEF NothingNew
    <3>2. CASE o = hdr' /\ hdr' \in {hdr, NoObject}
      BY <1>3, <3>2
    <3>3. ASSUME o = hdr', NEW p \in Objects, hdr' = AsResponseHeader(p)
          PROVE  \E q \in Objects \cup {hdr} : q # NoObject /\ q.call = o.call
      BY <3>3, ObjectsType, ObjectNotNone, AsHeader
    <3> QED
      BY <1>3, <3>1, <3>2, <3>3 DEF NothingNew
  <2>2. ASSUME NEW p \in Objects \cup {hdr}, p # NoObject
        PROVE  pc'[p.call] \notin {"idle", "handshake"}
    BY <2>2, ObjectsType DEF TransitInv, CallsKept
  <2> QED
    BY <2>1, <2>2
<1>4. \A r \in requests' \cup subs' :
         /\ r.call \in Calls /\ r \in InTransit
         /\ cmd'[r.call] = cmd[r.call] /\ arg'[r.call] = arg[r.call]
  BY <1>1, TransitType DEF TransitInv, CallsKept, InTransit
<1>5. /\ \A r \in requests' \cup subs' : r.cmd = cmd'[r.call]
      /\ \A r \in requests' : r.cmd = "stop" => r.arg = arg'[r.call]
      /\ \A q \in subs' : q.cmd \in ListenerCommands
  BY <1>1, <1>4 DEF TransitInv
<1>6. \A h \in UnreadHeaders' \cup InHand' :
         h.what # "reply" => cmd'[h.call] \in ListenerCommands
  BY <1>1, TransitType DEF TransitInv, CallsKept, InTransit
<1> QED
  BY <1>2, <1>3, <1>5, <1>6 DEF TransitInv

-----------------------------------------------------------------------------
(* What the steps of Next do to the traffic. *)

LEMMA CallsKeptNext ==
  ASSUME TypeOK, [Next]_vars
  PROVE  CallsKept
<1>1. CASE UNCHANGED <<pc, cmd, seq, arg>>
  BY <1>1 DEF CallsKept
<1>2. ASSUME NEW c \in Calls, pc[c] \in {"idle", "handshake"},
             \A d \in Calls \ {c} : /\ pc'[d] = pc[d] /\ seq'[d] = seq[d]
                                    /\ cmd'[d] = cmd[d] /\ arg'[d] = arg[d]
      PROVE  CallsKept
  BY <1>2 DEF CallsKept
<1>3. ASSUME NEW c \in Calls, NEW p, p \notin {"idle", "handshake"},
             pc' = [pc EXCEPT ![c] = p], UNCHANGED <<seq, cmd, arg>>
      PROVE  CallsKept
  BY <1>3 DEF CallsKept, TypeOK, ChannelTypeOK
<1>4. ASSUME NEW t \in Threads \cup {IoThread}, NEW c \in Calls,
             RpcMethod(t, c)
      PROVE  CallsKept
  <2>1. PICK k \in Commands, a \in Seqs : Call(t, c, k, a)
    BY <1>4, RpcMethodIsCall
  <2>2. pc[c] = "idle"
    BY <2>1 DEF Call, Fresh
  <2>3. \E p : pc' = [pc EXCEPT ![c] = p]
    BY <2>1 DEF Call, Return
  <2>4. /\ cmd' = [cmd EXCEPT ![c] = k] /\ arg' = [arg EXCEPT ![c] = a]
        /\ seq' = seq \/ seq' = [seq EXCEPT ![c] = m_seq]
    BY <2>1 DEF Call, SendDataOk, SendDataFails
  <2> QED
    BY <1>2, <2>2, <2>3, <2>4 DEF TypeOK, ChannelTypeOK
<1>5. ASSUME NEW c \in Calls, Finish(c)
      PROVE  CallsKept
  <2>1. UNCHANGED <<seq, cmd, arg>>
    BY <1>5
    DEF Finish, Consume, CheckPending, RemoveTimedOut, Register, Unlisten,
        ChannelStep, clientVars
  <2>2. \E p : /\ p \notin {"idle", "handshake"}
               /\ pc' = [pc EXCEPT ![c] = p]
    <3>1. CASE \E r : Return(c, r)
      BY <3>1 DEF Return
    <3>2. CASE Consume(c)
      BY <3>2 DEF Consume
    <3>3. CASE AfterTimeout(c)
      BY <3>3 DEF AfterTimeout
    <3>4. CASE \E p \in {"unlisten", "register"} : pc' = [pc EXCEPT ![c] = p]
      BY <3>4
    <3> QED
      BY <1>5, <3>1, <3>2, <3>3, <3>4
      DEF Finish, CheckPending, AfterReply, RemoveTimedOut, Register, Unlisten
  <2> QED
    BY <1>3, <2>1, <2>2
<1>6. ASSUME NEW c \in Calls, Connect(c)
      PROVE  CallsKept
  <2>1. CASE ConnectTerminates(c)
    BY <1>1, <2>1 DEF ConnectTerminates, frameVars, clientVars
  <2>2. CASE ConnectFails(c) \/ ConnectOpens(c) \/ Handshake(c)
    <3>1. pc[c] \in {"idle", "handshake"}
      BY <2>2 DEF ConnectFails, ConnectOpens, Handshake, MayConnect, Fresh
    <3>2. /\ \E p : pc' = [pc EXCEPT ![c] = p]
          /\ cmd' = cmd \/ cmd' = [cmd EXCEPT ![c] = "handshake"]
          /\ seq' = seq \/ seq' = [seq EXCEPT ![c] = m_seq]
          /\ arg' = arg
      BY <2>2
      DEF ConnectFails, ConnectOpens, Handshake, Return, SendDataOk,
          SendDataFails
    <3> QED
      BY <1>2, <3>1, <3>2 DEF TypeOK, ChannelTypeOK
  <2> QED
    BY <1>6, <2>1, <2>2 DEF Connect
<1>7. CASE IoStep
  BY <1>1, <1>7
  DEF IoStep, IoLoop, IoTop, IoExit, IoReceive, IoIdle, IoDrained, IoLookup,
      IoErase, IoProduce, IoNotify, IoCallbackReturn, IoDeregister, IoDangle,
      IoBadSocket, frameVars, clientVars
<1>8. CASE Close \/ AgentStep \/ AgentCloses \/ UNCHANGED vars
  BY <1>1, <1>8
  DEF Close, CloseBegin, CloseEnd, ListenerCloses, AgentStep, AgentCloses,
      vars, frameVars, clientVars
<1>9. ASSUME NEW t, NEW c, SendKills(t, c)
      PROVE  CallsKept
  BY <1>1, <1>9 DEF SendKills, frameVars, clientVars
<1> QED
  BY <1>4, <1>5, <1>6, <1>7, <1>8, <1>9 DEF Next

(* What the I/O thread holds was written by the agent before. *)
LEMMA IoNothingNew ==
  ASSUME TypeOK, ThreadInv, IoStep
  PROVE  /\ NothingNew /\ UNCHANGED m_seq
         /\ Live' => Live
<1>1. wire \in Seq(Object) /\ unpacker \in Seq(Object)
  BY DEF TypeOK, AgentTypeOK, ChannelTypeOK
<1>2. CASE IoTop \/ IoIdle \/ IoDrained \/ IoErase
  BY <1>2
  DEF IoTop, IoIdle, IoDrained, IoErase, IoUnchanged, NotProducing, agentVars,
      NothingNew, Objects, Live
<1>3. CASE IoExit
  <2>1. Range(wire') = {}
    BY <1>3, RangeEmpty DEF IoExit, AgentForget
  <2> QED
    BY <1>3, <2>1
    DEF IoExit, AgentForget, IsConnected, NotProducing, NothingNew, Objects,
        Live
<1>4. CASE IoReceive
  <2>1. PICK n \in 1..Len(wire) :
          /\ unpacker' = unpacker \o SubSeq(wire, 1, n)
          /\ wire' = SubSeq(wire, n + 1, Len(wire))
    BY <1>4 DEF IoReceive
  <2>2. Len(wire) \in Nat
    BY <1>1, LenProperties
  <2>3. SubSeq(wire, 1, n) \in Seq(Object) /\ wire' \in Seq(Object)
    BY <1>1, <2>1, <2>2, PieceObjects
  <2>4. Range(SubSeq(wire, 1, n)) \cup Range(wire') = Range(wire)
    BY <1>1, <2>1, <2>3, CutConcat, RangeConcat
  <2>5. Range(unpacker') = Range(unpacker) \cup Range(SubSeq(wire, 1, n))
    BY <1>1, <2>1, <2>3, RangeConcat
  <2> QED
    BY <1>4, <2>4, <2>5
    DEF IoReceive, IoUnchanged, NotProducing, NothingNew, Objects, Live
<1>5. CASE IoLookup
  <2>1. /\ unpacker # <<>> /\ unpacker' = Tail(unpacker)
        /\ hdr' = hdr \/ hdr' = AsResponseHeader(Head(unpacker))
        /\ UNCHANGED <<agentVars, m_socket, m_seq>>
    BY <1>5 DEF IoLookup, IoUnchanged
  <2>2. Head(unpacker) \in Range(unpacker)
        /\ Range(unpacker') \subseteq Range(unpacker)
    BY <1>1, <2>1, RangeTail
  <2> QED
    BY <2>1, <2>2 DEF agentVars, NothingNew, Objects, Live
<1>6. CASE IoProduce
  <2>1. UNCHANGED <<agentVars, m_socket, m_seq>>
    BY <1>6 DEF IoProduce, IoUnchanged
  <2>2. unpacker' = unpacker
           \/ (unpacker # <<>> /\ unpacker' = Tail(unpacker))
    BY <1>6
    DEF IoProduce, Produce, ProduceHeader, ProduceData, ProduceThrows,
        TakesBody, LogProduce, EventProduce, QueryProduce
  <2>3. hdr' \in {hdr, NoObject}
    BY <1>6
    DEF IoProduce, Produce, ProduceHeader, ProduceData, ProduceThrows, Store,
        LogProduce, EventProduce, QueryProduce, Deliver, Discard, BackToDrain
  <2>4. Range(unpacker') \subseteq Range(unpacker)
    BY <1>1, <2>2, RangeTail
  <2> QED
    BY <2>1, <2>4, <2>3 DEF agentVars, NothingNew, Objects, Live
<1>7. CASE IoNotify \/ IoCallbackReturn \/ IoDeregister
  BY <1>7
  DEF IoNotify, IoCallbackReturn, IoDeregister, BackToDrain, IoUnchanged,
      agentVars, NothingNew, Objects, Live
<1>8. CASE IoDangle \/ IoBadSocket
  BY <1>8
  DEF IoDangle, Dangle, IoBadSocket, IoUnchanged, agentVars, NothingNew,
      Objects, Live
<1> QED
  BY <1>2, <1>3, <1>4, <1>5, <1>6, <1>7, <1>8 DEF IoStep, IoLoop

-----------------------------------------------------------------------------
(* What the agent writes. *)

(* Message t of the kind w under the number of request r: a header, and    *)
(* the body it announces.                                                  *)
Message(r, w, t) ==
    \E e, ok \in BOOLEAN :
       \/ /\ t = <<Header(r.call, r.seq, e, w)>>
          /\ w = "reply"
          /\ ~HasBody(r.cmd) \/ (e /\ "bareError" \in Faults)
       \/ /\ t = <<Header(r.call, r.seq, e, w), Body(r.call, w, ok)>>
          /\ w = "reply" => HasBody(r.cmd)

Answered(r) == /\ requests' = requests \ {r}
               /\ subs' \subseteq subs \cup {r}
               /\ r \in subs' \ subs => r.cmd \in ListenerCommands
               /\ \E t : /\ Message(r, "reply", t) /\ wire' = wire \o t
                         /\ IF t[1].err
                            THEN subs' = subs
                            ELSE \A q \in subs' : q = r \/ ~Closes(r, q)

Published(q) == /\ pc[q.call] = "done" \/ "earlyRecord" \in Faults
                /\ requests' = requests /\ subs' \subseteq subs
                /\ \E t, w : /\ w \in {"record", "done"}
                             /\ Message(q, w, t) /\ wire' = wire \o t
                             /\ w = "done" => subs' = subs \ {q}

LEMMA MessageIs ==
  ASSUME NEW r \in RequestMessage, NEW w \in {"reply", "record", "done"},
         NEW t, Message(r, w, t)
  PROVE  /\ t \in Seq(Object) /\ Len(t) \in {1, 2}
         /\ \A i \in 1..Len(t) : t[i].call = r.call /\ t[i].what = w
         /\ t[1].kind = "header" /\ t[1].seq = r.seq
         /\ Len(t) = 2 => t[2].kind = "body" /\ BodyOf(t[2], t[1])
         /\ Len(t) = 2 /\ w = "reply" => HasBody(r.cmd)
         /\ Len(t) = 1 => /\ w = "reply"
                          /\ \/ ~HasBody(r.cmd)
                             \/ t[1].err /\ "bareError" \in Faults
<1>1. PICK e \in BOOLEAN, ok \in BOOLEAN :
        \/ /\ t = <<Header(r.call, r.seq, e, w)>>
           /\ w = "reply"
           /\ ~HasBody(r.cmd) \/ (e /\ "bareError" \in Faults)
        \/ /\ t = <<Header(r.call, r.seq, e, w), Body(r.call, w, ok)>>
           /\ w = "reply" => HasBody(r.cmd)
  BY DEF Message
<1>2. r.call \in Calls /\ r.seq \in Seqs
  BY DEF RequestMessage
<1> DEFINE h == Header(r.call, r.seq, e, w)
           b == Body(r.call, w, ok)
<1>3. h \in Object /\ b \in Object
  BY <1>2, HeaderType, BodyType
<1>4. /\ h.kind = "header" /\ h.call = r.call /\ h.what = w /\ h.seq = r.seq
      /\ h.err = e
      /\ b.kind = "body" /\ b.call = r.call /\ b.what = w
  BY DEF Header, Body
<1>5. BodyOf(b, h)
  BY <1>4 DEF BodyOf
<1> HIDE DEF h, b
<1>6. CASE /\ t = <<h>> /\ w = "reply"
           /\ ~HasBody(r.cmd) \/ (e /\ "bareError" \in Faults)
  <2>1. t \in Seq(Object) /\ Len(t) = 1 /\ t[1] = h
    BY <1>3, <1>6
  <2> QED
    BY <1>4, <1>6, <2>1
<1>7. CASE t = <<h, b>> /\ (w = "reply" => HasBody(r.cmd))
  <2>1. t \in Seq(Object) /\ Len(t) = 2 /\ t[1] = h /\ t[2] = b
    BY <1>3, <1>7
  <2> QED
    BY <1>4, <1>5, <1>7, <2>1
<1> QED
  BY <1>1, <1>6, <1>7 DEF h, b

LEMMA ReplyBodyMessage ==
  ASSUME TypeOK, NEW r \in requests, NEW e \in BOOLEAN, NEW ok \in BOOLEAN,
         NEW s, s = ReplyBody(r, ok)
                   \/ (e /\ s = <<>> /\ "bareError" \in Faults),
         wire' = wire \o <<Header(r.call, r.seq, e, "reply")>> \o s
  PROVE  \E t : Message(r, "reply", t) /\ wire' = wire \o t /\ t[1].err = e
<1>1. r \in RequestMessage /\ wire \in Seq(Object)
  BY DEF TypeOK, AgentTypeOK
<1> DEFINE h == Header(r.call, r.seq, e, "reply")
           b == Body(r.call, "reply", ok)
<1>2. h \in Object /\ b \in Object
  BY <1>1, HeaderType, BodyType DEF RequestMessage
<1>3. <<h>> \in Seq(Object) /\ <<b>> \in Seq(Object)
  BY <1>2
<1>4. wire' = (wire \o <<h>>) \o s
  OBVIOUS
<1>7. <<h>>[1].err = e /\ <<h, b>>[1].err = e
  BY DEF Header
<1> HIDE DEF h, b
<1>5. CASE s = <<>>
  <2>1. wire \o <<h>> \in Seq(Object)
    BY <1>1, <1>3, ConcatObjects
  <2>2. wire' = wire \o <<h>>
    BY <1>4, <1>5, <2>1, EmptyConcat
  <2>3. ~HasBody(r.cmd) \/ (e /\ "bareError" \in Faults)
    BY <1>5 DEF ReplyBody
  <2>4. Message(r, "reply", <<h>>)
    BY <2>3 DEF Message, h
  <2> QED
    BY <1>7, <2>2, <2>4
<1>6. CASE s = <<b>> /\ HasBody(r.cmd)
  <2>1. wire' = wire \o (<<h>> \o <<b>>)
    BY <1>1, <1>3, <1>4, <1>6, ConcatThree
  <2>2. <<h>> \o <<b>> = <<h, b>>
    BY <1>2, JoinObjects
  <2>3. Message(r, "reply", <<h, b>>)
    BY <1>6 DEF Message, h, b
  <2> QED
    BY <1>7, <2>1, <2>2, <2>3
<1> QED
  BY <1>5, <1>6 DEF ReplyBody, b

(* Every step of the agent drops a request, answers one, or publishes.     *)
LEMMA AgentEffect ==
  ASSUME TypeOK, AgentStep
  PROVE  \/ wire' = wire /\ requests' \subseteq requests /\ subs' = subs
         \/ \E r \in requests : Answered(r)
         \/ \E q \in subs : Published(q)
<1>1. ASSUME NEW r \in requests, AgentReply(r)
      PROVE  Answered(r)
  <2>1. \E ok \in BOOLEAN :
          wire' = wire \o <<Header(r.call, r.seq, FALSE, "reply")>>
                       \o ReplyBody(r, ok)
    BY <1>1 DEF AgentReply
  <2>2. \E t : Message(r, "reply", t) /\ wire' = wire \o t /\ ~t[1].err
    BY <2>1, ReplyBodyMessage
  <2>3. \A q \in subs' : q = r \/ ~Closes(r, q)
    BY <1>1, Zenon DEF AgentReply, SubsAfter
  <2> QED
    BY <1>1, <2>2, <2>3 DEF AgentReply, SubsAfter, Answered
<1>2. ASSUME NEW r \in requests, AgentError(r)
      PROVE  Answered(r)
  <2>1. \E s : /\ \/ s = ReplyBody(r, TRUE)
                  \/ s = <<>> /\ "bareError" \in Faults
               /\ wire' = wire \o <<Header(r.call, r.seq, TRUE, "reply")>> \o s
    BY <1>2 DEF AgentError
  <2>2. \E t : Message(r, "reply", t) /\ wire' = wire \o t /\ t[1].err
    BY <2>1, ReplyBodyMessage
  <2> QED
    BY <1>2, <2>2 DEF AgentError, Answered
<1>3. ASSUME NEW q \in subs, AgentRecord(q),
             pc[q.call] = "done" \/ "earlyRecord" \in Faults
      PROVE  Published(q)
  <2>1. PICK ok \in BOOLEAN :
          wire' = wire \o <<Header(q.call, q.seq, FALSE, "record"),
                            Body(q.call, "record", ok)>>
    BY <1>3 DEF AgentRecord
  <2>2. Message(q, "record", <<Header(q.call, q.seq, FALSE, "record"),
                               Body(q.call, "record", ok)>>)
    BY DEF Message
  <2> QED
    BY <1>3, <2>1, <2>2 DEF AgentRecord, Published
<1>4. ASSUME NEW q \in subs, AgentQueryDone(q),
             pc[q.call] = "done" \/ "earlyRecord" \in Faults
      PROVE  Published(q)
  <2>1. Message(q, "done", <<Header(q.call, q.seq, FALSE, "done"),
                             Body(q.call, "done", TRUE)>>)
    BY DEF Message
  <2> QED
    BY <1>4, <2>1 DEF AgentQueryDone, Published
<1> QED
  BY <1>1, <1>2, <1>3, <1>4
  DEF AgentStep, AgentAnswers, AgentPublishes, AgentDrop

(* A message adds its header to what is in transit. *)
LEMMA MessageObjects ==
  ASSUME TypeOK, NEW r \in requests \cup subs,
         NEW w \in {"reply", "record", "done"}, NEW t,
         Message(r, w, t), wire' = wire \o t, UNCHANGED <<unpacker, hdr>>
  PROVE  /\ t \in Seq(Object)
         /\ Incoming' = Incoming \o t
         /\ \A o \in Objects' : \/ o \in Objects
                                \/ /\ o.call = r.call /\ o.what = w
                                   /\ o.kind = "header" => o.seq = r.seq
         /\ \A h \in UnreadHeaders' : \/ h \in UnreadHeaders
                                      \/ /\ h.call = r.call /\ h.seq = r.seq
                                         /\ h.what = w
         /\ InHand' = InHand
<1>1. r \in RequestMessage /\ wire \in Seq(Object) /\ unpacker \in Seq(Object)
  BY DEF TypeOK, AgentTypeOK, ChannelTypeOK
<1>2. /\ t \in Seq(Object) /\ Len(t) \in {1, 2}
      /\ \A i \in 1..Len(t) : t[i].call = r.call /\ t[i].what = w
      /\ t[1].seq = r.seq
      /\ Len(t) = 2 => t[2].kind = "body"
  BY <1>1, MessageIs
<1>3. Incoming' = Incoming \o t
  BY <1>1, <1>2, ConcatThree DEF Incoming
<1>4. Range(wire') = Range(wire) \cup Range(t)
  BY <1>1, <1>2, RangeConcat
<1>5. ASSUME NEW o \in Range(t)
      PROVE  /\ o.call = r.call /\ o.what = w
             /\ o.kind = "header" => o.seq = r.seq
  <2>1. PICK i \in 1..Len(t) : t[i] = o
    BY <1>2, RangeIs
  <2>2. i = 1 \/ (i = 2 /\ Len(t) = 2)
    BY <1>2, <2>1
  <2> QED
    BY <1>2, <2>1, <2>2
<1>6. \A o \in Objects' : o \in Objects \/ o \in Range(t)
  BY <1>4 DEF Objects
<1>7. \A h \in UnreadHeaders' : /\ h.kind = "header"
                                /\ h \in UnreadHeaders \/ h \in Range(t)
  BY <1>6 DEF UnreadHeaders, Objects
<1> QED
  BY <1>2, <1>3, <1>5, <1>6, <1>7 DEF InHand

-----------------------------------------------------------------------------
(* How a call begins: its request is sent, or it fails. *)

(* Only the calls other than c keep their frames. *)
OthersKept(c) ==
    \A d \in Calls \ {c} : /\ pc'[d] = pc[d] /\ cmd'[d] = cmd[d]
                           /\ seq'[d] = seq[d] /\ arg'[d] = arg[d]
                           /\ owner'[d] = owner[d] /\ result'[d] = result[d]

Sends(c) ==
    /\ pc[c] \in {"idle", "handshake"} /\ pc' = [pc EXCEPT ![c] = "wait"]
    /\ OthersKept(c)
    /\ m_seq \in Seqs /\ m_seq' = m_seq + 1
    /\ seq' = [seq EXCEPT ![c] = m_seq]
    /\ m_channels' = [m_channels EXCEPT ![m_seq] = Request(c)]
    /\ \/ m_socket \in {"open", "shut"}
       \/ m_socket = "stale" /\ m_socket' = "stale" /\ "fdReuse" \in Faults
    /\ m_socket = "open" => m_socket' = "open"
    /\ \/ UNCHANGED requests
       \/ /\ m_socket = "open"
          /\ \E r : /\ requests' = requests \cup {r}
                    /\ r.call = c /\ r.seq = m_seq /\ r.cmd = cmd'[c]
                    /\ r.cmd = "stop" => r.arg = arg'[c]
    /\ UNCHANGED <<wire, subs, sent, channelVars, m_thread, m_shutdown,
                   active, closing>>
    /\ result'[c] = result[c]
    /\ pc[c] = "handshake" => cmd'[c] = cmd[c]
    /\ pc[c] = "idle" => /\ cmd'[c] \in Commands
                         /\ cmd'[c] = "stop" => arg'[c] \in StopNumbers
                         /\ closing => \/ "busyClose" \in Faults
                                       \/ owner'[c] = IoThread
                         /\ Connecting => "earlyCall" \in Faults

SendFails(c) ==
    /\ pc[c] \in {"idle", "handshake"} /\ Return(c, "FAILURE")
    /\ OthersKept(c)
    /\ m_seq \in Seqs /\ m_seq' = m_seq + 1
    /\ UNCHANGED <<agentVars, seq, channelVars, m_socket, m_thread, m_shutdown,
                   m_channels, active, closing>>

LEMMA RpcMethodCalls ==
  ASSUME TypeOK, NEW t, NEW c \in Calls, RpcMethod(t, c)
  PROVE  \E k \in Commands, a \in Seqs :
            Call(t, c, k, a) /\ (k = "stop" => a \in StopNumbers)
<1>1. ASSUME NEW k, Call(t, c, k, 0), k # "stop"
      PROVE  \E i \in Commands, a \in Seqs :
                Call(t, c, i, a) /\ (i = "stop" => a \in StopNumbers)
  BY <1>1, SeqsNat DEF Call
<1>2. ASSUME Stop(t, c)
      PROVE  \E i \in Commands, a \in Seqs :
                Call(t, c, i, a) /\ (i = "stop" => a \in StopNumbers)
  <2>1. PICK s \in StopNumbers : Call(t, c, "stop", s)
    BY <1>2 DEF Stop
  <2>2. s \in Seqs
    BY DEF StopNumbers, TypeOK, ChannelTypeOK
  <2>3. "stop" \in Commands
    BY <2>1 DEF Call
  <2> QED
    BY <2>1, <2>2, <2>3
<1> QED
  BY <1>1, <1>2
  DEF RpcMethod, Join, Auth, InstallKey, ListKeys, UseKey, RemoveKey, Members,
      MembersFiltered, Event, Respond, ForceLeave, Tags, Leave, Monitor, Query,
      Stream, Stats, GetCoordinate

LEMMA SendDataEffect ==
  ASSUME TypeOK, NEW c \in Calls, NEW k, NEW a, SendDataOk(c, k, a)
  PROVE  /\ m_seq \in Seqs /\ m_seq' = m_seq + 1
         /\ seq' = [seq EXCEPT ![c] = m_seq]
         /\ m_channels' = [m_channels EXCEPT ![m_seq] = Request(c)]
         /\ \/ m_socket \in {"open", "shut"}
            \/ /\ m_socket = "stale" /\ m_socket' = "stale"
               /\ "fdReuse" \in Faults
         /\ m_socket = "open" => m_socket' = "open"
         /\ \/ UNCHANGED requests
            \/ /\ m_socket = "open"
               /\ \E r : /\ requests' = requests \cup {r}
                         /\ r.call = c /\ r.seq = m_seq /\ r.cmd = k
                         /\ r.arg = a
         /\ UNCHANGED <<wire, subs, sent, m_thread, m_shutdown>>
<1>1. m_seq \in Seqs /\ m_seq' = m_seq + 1
  BY BoundsAssumption DEF SendDataOk, NextSeq, TypeOK, IoTypeOK, Seqs
<1>2. \/ UNCHANGED requests
      \/ /\ m_socket = "open"
         /\ \E r : /\ requests' = requests \cup {r}
                   /\ r.call = c /\ r.seq = m_seq /\ r.cmd = k
                   /\ r.arg = a
  BY DEF SendDataOk
<1>3. /\ \/ m_socket \in {"open", "shut"}
         \/ /\ m_socket = "stale" /\ m_socket' = "stale"
            /\ "fdReuse" \in Faults
      /\ m_socket = "open" => m_socket' = "open"
  <2>1. /\ \/ m_socket \in {"open", "shut"}
           \/ m_socket = "stale" /\ "fdReuse" \in Faults
        /\ m_socket' = IF m_socket = "shut" THEN "reset" ELSE m_socket
    BY DEF SendDataOk
  <2> QED
    BY <2>1
<1>4. /\ seq' = [seq EXCEPT ![c] = m_seq]
      /\ m_channels' = [m_channels EXCEPT ![m_seq] = Request(c)]
      /\ UNCHANGED <<wire, subs, sent, m_thread, m_shutdown>>
  BY DEF SendDataOk, Entered
<1> QED
  BY <1>1, <1>2, <1>3, <1>4

LEMMA CallSends ==
  ASSUME TypeOK, NEW t, NEW c \in Calls, NEW k \in Commands, NEW a \in Seqs,
         Call(t, c, k, a), k = "stop" => a \in StopNumbers
  PROVE  Sends(c) \/ SendFails(c)
<1>1. /\ pc[c] = "idle" /\ UNCHANGED <<channelVars, active, closing>>
      /\ cmd' = [cmd EXCEPT ![c] = k] /\ arg' = [arg EXCEPT ![c] = a]
  BY DEF Call, Fresh
<1>2. cmd'[c] = k /\ arg'[c] = a
  BY <1>1 DEF TypeOK, ChannelTypeOK
<1>3. CASE /\ SendDataOk(c, k, a) /\ pc' = [pc EXCEPT ![c] = "wait"]
           /\ owner' = [owner EXCEPT ![c] = t] /\ UNCHANGED result
  <2>1. seq' = [seq EXCEPT ![c] = m_seq]
    BY <1>3, SendDataEffect
  <2>2. OthersKept(c) /\ result'[c] = result[c]
    BY <1>1, <1>3, <2>1 DEF OthersKept, TypeOK, ChannelTypeOK
  <2>3. /\ closing => "busyClose" \in Faults \/ owner'[c] = IoThread
        /\ Connecting => "earlyCall" \in Faults
    BY <1>3 DEF Call, MayCall, TypeOK
  <2>4. \/ UNCHANGED requests
        \/ /\ m_socket = "open"
           /\ \E r : /\ requests' = requests \cup {r}
                     /\ r.call = c /\ r.seq = m_seq /\ r.cmd = cmd'[c]
                     /\ r.cmd = "stop" => r.arg = arg'[c]
    BY <1>2, <1>3, SendDataEffect
  <2> QED
    BY <1>1, <1>2, <1>3, <2>2, <2>3, <2>4, SendDataEffect DEF Sends
<1>4. CASE SendDataFails /\ Return(c, "FAILURE")
  <2>1. /\ m_seq \in Seqs /\ m_seq' = m_seq + 1
        /\ UNCHANGED <<agentVars, seq, m_socket, m_thread, m_shutdown,
                       m_channels>>
    BY <1>4, BoundsAssumption
    DEF SendDataFails, NextSeq, TypeOK, IoTypeOK, Seqs
  <2>2. OthersKept(c)
    BY <1>1, <1>4, <2>1 DEF Return, OthersKept, TypeOK, ChannelTypeOK
  <2> QED
    BY <1>1, <1>4, <2>1, <2>2 DEF SendFails
<1> QED
  BY <1>3, <1>4 DEF Call

LEMMA MethodSends ==
  ASSUME TypeOK, NEW t \in Threads \cup {IoThread}, NEW c \in Calls,
         RpcMethod(t, c)
  PROVE  Sends(c) \/ SendFails(c)
BY RpcMethodCalls, CallSends

LEMMA HandshakeSends ==
  ASSUME TypeOK, OwnerInv, NEW c \in Calls, Handshake(c)
  PROVE  Sends(c) \/ SendFails(c)
<1>1. /\ pc[c] = "handshake" /\ cmd[c] = "handshake"
      /\ UNCHANGED <<cmd, channelVars, arg, active, closing>>
  BY DEF Handshake, OwnerInv
<1>2. CASE /\ SendDataOk(c, "handshake", 0) /\ pc' = [pc EXCEPT ![c] = "wait"]
           /\ UNCHANGED <<owner, result>>
  <2>1. seq' = [seq EXCEPT ![c] = m_seq]
    BY <1>2, SendDataEffect
  <2>2. OthersKept(c) /\ result'[c] = result[c]
    BY <1>1, <1>2, <2>1 DEF OthersKept, TypeOK, ChannelTypeOK
  <2>4. \/ UNCHANGED requests
        \/ /\ m_socket = "open"
           /\ \E r : /\ requests' = requests \cup {r}
                     /\ r.call = c /\ r.seq = m_seq /\ r.cmd = cmd'[c]
                     /\ r.cmd = "stop" => r.arg = arg'[c]
    BY <1>1, <1>2, SendDataEffect
  <2> QED
    BY <1>1, <1>2, <2>2, <2>4, SendDataEffect DEF Sends
<1>3. CASE SendDataFails /\ Return(c, "FAILURE")
  <2>1. /\ m_seq \in Seqs /\ m_seq' = m_seq + 1
        /\ UNCHANGED <<agentVars, seq, m_socket, m_thread, m_shutdown,
                       m_channels>>
    BY <1>3, BoundsAssumption
    DEF SendDataFails, NextSeq, TypeOK, IoTypeOK, Seqs
  <2>2. OthersKept(c)
    BY <1>1, <1>3, <2>1 DEF Return, OthersKept, TypeOK, ChannelTypeOK
  <2> QED
    BY <1>1, <1>3, <2>1, <2>2 DEF SendFails
<1> QED
  BY <1>2, <1>3 DEF Handshake

-----------------------------------------------------------------------------
(* TransitInv is an invariant. *)

LEMMA SendsEffect ==
  ASSUME TypeOK, NEW c \in Calls, Sends(c)
  PROVE  /\ pc'[c] = "wait" /\ seq'[c] = m_seq
         /\ \A d \in Calls \ {c} : pc'[d] = pc[d] /\ seq'[d] = seq[d]
         /\ m_seq \in Nat /\ m_seq \in Seqs
         /\ Live' => Live
         /\ UNCHANGED <<Objects, Incoming, UnreadHeaders, InHand>>
<1>1. pc'[c] = "wait" /\ seq'[c] = m_seq
  BY DEF Sends, TypeOK, ChannelTypeOK
<1>2. \A d \in Calls \ {c} : pc'[d] = pc[d] /\ seq'[d] = seq[d]
  BY DEF Sends, OthersKept
<1>3. m_seq \in Nat /\ m_seq \in Seqs
  BY SeqsNat DEF Sends
<1>4. Live' => Live
  <2>1. m_socket \in {"open", "shut"} \/ m_socket' = "stale"
    BY DEF Sends
  <2> QED
    BY <2>1 DEF Live
<1>5. UNCHANGED <<wire, unpacker, hdr>>
  BY DEF Sends, channelVars
<1>6. UNCHANGED <<Objects, Incoming, UnreadHeaders, InHand>>
  BY <1>5 DEF Objects, Incoming, UnreadHeaders, InHand
<1> QED
  BY <1>1, <1>2, <1>3, <1>4, <1>6

LEMMA TransitInvSends ==
  ASSUME TypeOK, TransitInv, CallsKept, NEW c \in Calls, Sends(c)
  PROVE  TransitInv'
<1>1. /\ pc'[c] = "wait" /\ seq'[c] = m_seq /\ m_seq \in Nat
      /\ Live' => Live
      /\ UNCHANGED <<Objects, UnreadHeaders, InHand, hdr, subs>>
      /\ m_seq' = m_seq + 1
  BY SendsEffect DEF Sends, channelVars
<1>2. \A r \in requests' : \/ r \in requests
                           \/ /\ r.call = c /\ r.seq = m_seq
                              /\ r.cmd = cmd'[c]
                              /\ r.cmd = "stop" => r.arg = arg'[c]
  BY DEF Sends
<1>3. ASSUME NEW x \in InTransit
      PROVE  /\ x.seq = seq'[x.call]
             /\ pc'[x.call] \notin {"idle", "handshake"}
             /\ cmd'[x.call] = cmd[x.call] /\ arg'[x.call] = arg[x.call]
             /\ Live' => x.seq < m_seq'
  <2>1. /\ x.call \in Calls /\ x.seq \in Nat /\ x.seq = seq[x.call]
        /\ pc[x.call] \notin {"idle", "handshake"}
        /\ Live => x.seq < m_seq
    BY TransitType, SeqsNat DEF TransitInv
  <2> QED
    BY <1>1, <2>1 DEF CallsKept
<1>4. \A x \in InTransit' : x \in InTransit \/ x \in requests' \ requests
  BY <1>1 DEF InTransit
<1>5. \A x \in InTransit' : /\ x.seq = seq'[x.call]
                            /\ pc'[x.call] \notin {"idle", "handshake"}
                            /\ Live' => x.seq < m_seq'
  <2> TAKE x \in InTransit'
  <2>1. CASE x \in InTransit
    BY <1>3, <2>1
  <2>2. CASE x \in requests' \ requests
    <3>1. x.call = c /\ x.seq = m_seq
      BY <1>2, <2>2
    <3> QED
      BY <1>1, <3>1
  <2> QED
    BY <1>4, <2>1, <2>2
<1>6. \A o \in Objects' \cup {hdr'} : o # NoObject =>
         pc'[o.call] \notin {"idle", "handshake"}
  BY <1>1, ObjectsType DEF TransitInv, CallsKept
<1>7. /\ \A r \in requests' \cup subs' : r.cmd = cmd'[r.call]
      /\ \A r \in requests' : r.cmd = "stop" => r.arg = arg'[r.call]
      /\ \A q \in subs' : q.cmd \in ListenerCommands
  <2>1. ASSUME NEW r \in requests \cup subs
        PROVE  /\ r.cmd = cmd'[r.call]
               /\ r \in requests /\ r.cmd = "stop" => r.arg = arg'[r.call]
               /\ r \in subs => r.cmd \in ListenerCommands
    BY <1>3 DEF InTransit, TransitInv
  <2> QED
    BY <1>1, <1>2, <2>1
<1>8. \A h \in UnreadHeaders' \cup InHand' :
         h.what # "reply" => cmd'[h.call] \in ListenerCommands
  BY <1>1, <1>3 DEF InTransit, TransitInv
<1> QED
  BY <1>5, <1>6, <1>7, <1>8 DEF TransitInv

(* The agent answers under the number and for the call of the request. *)
LEMMA TransitInvMessage ==
  ASSUME TypeOK, TransitInv, NEW r \in requests \cup subs,
         NEW w \in {"reply", "record", "done"}, NEW t,
         Message(r, w, t), wire' = wire \o t,
         w # "reply" => r \in subs,
         requests' \subseteq requests, subs' \subseteq subs \cup {r},
         r \in subs' \ subs => r.cmd \in ListenerCommands,
         UNCHANGED <<frameVars, channelVars, ioVars, clientVars>>
  PROVE  TransitInv'
<1>1. UNCHANGED <<pc, cmd, seq, arg, hdr, unpacker, Live, m_seq>>
  BY DEF frameVars, channelVars, ioVars, clientVars, Live
<1>2. /\ \A o \in Objects' : o \in Objects \/ o.call = r.call
      /\ \A h \in UnreadHeaders' : \/ h \in UnreadHeaders
                                   \/ /\ h.call = r.call /\ h.seq = r.seq
                                      /\ h.what = w
      /\ InHand' = InHand
  BY <1>1, MessageObjects
<1>3. /\ r \in InTransit
      /\ r.seq = seq[r.call] /\ pc[r.call] \notin {"idle", "handshake"}
      /\ Live => r.seq < m_seq
      /\ r.cmd = cmd[r.call]
      /\ w # "reply" => r.cmd \in ListenerCommands
  BY DEF TransitInv, InTransit
<1>4. \A x \in InTransit' : x \in InTransit
                               \/ (x.call = r.call /\ x.seq = r.seq)
  BY <1>2, <1>3 DEF InTransit
<1>5. \A x \in InTransit' : /\ x.seq = seq'[x.call]
                            /\ pc'[x.call] \notin {"idle", "handshake"}
                            /\ Live' => x.seq < m_seq'
  BY <1>1, <1>3, <1>4 DEF TransitInv
<1>6. \A o \in Objects' \cup {hdr'} : o # NoObject =>
         pc'[o.call] \notin {"idle", "handshake"}
  BY <1>1, <1>2, <1>3 DEF TransitInv
<1>7. /\ \A p \in requests' \cup subs' : p.cmd = cmd'[p.call]
      /\ \A p \in requests' : p.cmd = "stop" => p.arg = arg'[p.call]
      /\ \A q \in subs' : q.cmd \in ListenerCommands
  <2>1. \A q \in subs' : q \in subs \/ (q = r /\ r \in subs' \ subs)
    OBVIOUS
  <2> QED
    BY <1>1, <1>3, <2>1 DEF TransitInv
<1>8. \A h \in UnreadHeaders' \cup InHand' :
         h.what # "reply" => cmd'[h.call] \in ListenerCommands
  BY <1>1, <1>2, <1>3 DEF TransitInv
<1> QED
  BY <1>5, <1>6, <1>7, <1>8 DEF TransitInv

(* A step that sends nothing and decodes nothing: what is in transit stays *)
(* or is lost with the connection.                                         *)
TrafficKept ==
    /\ wire' \in {wire, <<>>} /\ unpacker' = unpacker
    /\ requests' \in {requests, {}} /\ subs' \in {subs, {}}
    /\ wire' # wire => requests' = {} /\ subs' = {}
    /\ \/ hdr' = hdr /\ ioPc' = ioPc
       \/ hdr' = hdr /\ ioPc' = "top"
       \/ hdr' = NoObject /\ ioPc' = "drain"
    /\ SameConnection \/ ~Live' \/ InTransit = {}

LEMMA NothingInTransit ==
  ASSUME TypeOK, ThreadInv, m_thread # "running"
  PROVE  /\ InTransit = {} /\ Incoming = <<>> /\ wire = <<>>
         /\ unpacker = <<>> /\ ~Live /\ ioPc = "top" /\ hdr = NoObject
         /\ requests = {} /\ subs = {} /\ Objects = {} /\ UnreadHeaders = {}
<1>1. ioPc = "top"
  BY DEF TypeOK, IoTypeOK
<1>2. wire = <<>> /\ unpacker = <<>>
  BY <1>1 DEF ThreadInv
<1>3. ~Live
  BY DEF ThreadInv
<1>4. requests = {} /\ subs = {}
  BY <1>3 DEF ThreadInv, Live
<1>5. hdr = NoObject
  BY <1>1 DEF TypeOK, ChannelTypeOK
<1>6. Objects = {}
  BY <1>2, RangeEmpty DEF Objects
<1>7. UnreadHeaders = {}
  BY <1>2, RangeEmpty DEF UnreadHeaders
<1>8. InHand = {}
  BY <1>5, NoObjectFields DEF InHand
<1>9. Incoming = <<>>
  <2>1. Incoming = <<>> \o <<>>
    BY <1>2 DEF Incoming
  <2> QED
    BY <2>1, EmptySeq, EmptyConcat
<1> QED
  BY <1>1, <1>2, <1>3, <1>4, <1>5, <1>6, <1>7, <1>8, <1>9 DEF InTransit

LEMMA SameConnectionKept ==
  ASSUME TypeOK, UNCHANGED <<m_socket, m_seq>>
  PROVE  SameConnection
BY DEF SameConnection, Live, TypeOK, IoTypeOK

LEMMA SendFailsKept ==
  ASSUME TypeOK, NEW c \in Calls, SendFails(c)
  PROVE  TrafficKept
<1>1. SameConnection
  BY SeqsNat DEF SendFails, SameConnection, Live
<1> QED
  BY <1>1 DEF SendFails, TrafficKept, agentVars, channelVars

LEMMA ConnectKept ==
  ASSUME TypeOK, ThreadInv, NEW c \in Calls,
         ConnectFails(c) \/ ConnectOpens(c) \/ ConnectTerminates(c)
  PROVE  TrafficKept
<1>1. CASE ConnectFails(c)
  BY <1>1
  DEF ConnectFails, AgentForget, TrafficKept, channelVars, Live
<1>2. CASE ConnectOpens(c)
  <2>1. InTransit = {}
    BY <1>2, NothingInTransit DEF ConnectOpens, Joinable
  <2> QED
    BY <1>2, <2>1 DEF ConnectOpens, TrafficKept, agentVars
<1>3. CASE ConnectTerminates(c)
  BY <1>3, SameConnectionKept
  DEF ConnectTerminates, TrafficKept, agentVars, ioVars
<1> QED
  BY <1>1, <1>2, <1>3

LEMMA FinishKept ==
  ASSUME TypeOK, NEW c \in Calls, Finish(c)
  PROVE  TrafficKept
<1>1. UNCHANGED <<agentVars, unpacker, hdr, ioPc, m_socket, m_seq>>
  BY
  DEF Finish, Consume, CheckPending, RemoveTimedOut, Register, Unlisten,
      ChannelStep, channelVars, ioVars
<1> QED
  BY <1>1, SameConnectionKept DEF TrafficKept, agentVars

LEMMA CloseKept ==
  ASSUME TypeOK, ThreadInv, Close
  PROVE  TrafficKept
<1>1. CASE CloseBegin
  BY <1>1, SameConnectionKept
  DEF CloseBegin, TrafficKept, agentVars, channelVars
<1>2. CASE CloseEnd
  <2>1. ~Live'
    BY <1>2 DEF CloseEnd, IsConnected, ThreadInv, Live
  <2> QED
    BY <1>2, <2>1 DEF CloseEnd, TrafficKept, agentVars, channelVars
<1>3. CASE ListenerCloses
  <2>1. SameConnection \/ ~Live'
    BY <1>3, SameConnectionKept DEF ListenerCloses, IsConnected, Live
  <2> QED
    BY <1>3, <2>1 DEF ListenerCloses, BackToDrain, TrafficKept, agentVars
<1> QED
  BY <1>1, <1>2, <1>3 DEF Close

LEMMA AgentClosesKept ==
  ASSUME TypeOK, AgentCloses
  PROVE  TrafficKept
<1>1. SameConnection
  BY DEF AgentCloses, SameConnection, Live, TypeOK, IoTypeOK
<1> QED
  BY <1>1 DEF AgentCloses, TrafficKept, channelVars

(* Every step is one of four kinds. *)
LEMMA TrafficSteps ==
  ASSUME TypeOK, ThreadInv, OwnerInv, [Next]_vars
  PROVE  \/ TrafficKept
         \/ \E c \in Calls : Sends(c)
         \/ AgentStep
         \/ IoStep
<1>1. CASE UNCHANGED vars
  BY <1>1, SameConnectionKept
  DEF vars, agentVars, channelVars, ioVars, TrafficKept
<1>2. ASSUME NEW t, NEW c, SendKills(t, c) PROVE TrafficKept
  BY <1>2, SameConnectionKept DEF SendKills, agentVars, ioVars, TrafficKept
<1> QED
  BY <1>1, <1>2, MethodSends, HandshakeSends, SendFailsKept, ConnectKept,
     FinishKept, CloseKept, AgentClosesKept DEF Next, Connect

LEMMA TrafficKeptNothingNew ==
  ASSUME TypeOK, TrafficKept
  PROVE  NothingNew
<1>1. Range(wire') \subseteq Range(wire)
  BY RangeEmpty DEF TrafficKept
<1> QED
  BY <1>1 DEF TrafficKept, NothingNew, Objects

LEMMA TransitInvAgent ==
  ASSUME TypeOK, TransitInv, CallsKept, AgentStep
  PROVE  TransitInv'
<1>1. UNCHANGED <<frameVars, channelVars, ioVars, clientVars>>
  BY DEF AgentStep
<1>2. CASE wire' = wire /\ requests' \subseteq requests /\ subs' = subs
  <2>1. NothingNew
    BY <1>1, <1>2 DEF channelVars, NothingNew, Objects
  <2>2. SameConnection
    BY <1>1, SameConnectionKept DEF ioVars
  <2> QED
    BY <2>1, <2>2, TransitInvFrame
<1>3. ASSUME NEW r \in requests, Answered(r) PROVE TransitInv'
  <2>1. PICK t : Message(r, "reply", t) /\ wire' = wire \o t
    BY <1>3 DEF Answered
  <2> QED
    BY <1>1, <1>3, <2>1, TransitInvMessage DEF Answered
<1>4. ASSUME NEW q \in subs, Published(q) PROVE TransitInv'
  <2>1. PICK t, w : /\ w \in {"record", "done"}
                    /\ Message(q, w, t) /\ wire' = wire \o t
    BY <1>4 DEF Published
  <2>2. w \in {"reply", "record", "done"}
    BY <2>1
  <2> QED
    BY <1>1, <1>4, <2>1, <2>2, TransitInvMessage DEF Published
<1> QED
  BY <1>2, <1>3, <1>4, AgentEffect

LEMMA TransitInvNext ==
  TypeOK /\ ThreadInv /\ OwnerInv /\ TransitInv /\ [Next]_vars => TransitInv'
<1> SUFFICES ASSUME TypeOK, ThreadInv, OwnerInv, TransitInv, [Next]_vars
             PROVE  TransitInv'
  OBVIOUS
<1>1. CallsKept
  BY CallsKeptNext
<1>2. CASE TrafficKept
  BY <1>1, <1>2, TrafficKeptNothingNew, TransitInvFrame DEF TrafficKept
<1>3. CASE IoStep
  <2>1. SameConnection
    BY <1>3, IoNothingNew DEF SameConnection, TypeOK, IoTypeOK
  <2> QED
    BY <1>1, <1>3, <2>1, IoNothingNew, TransitInvFrame
<1> QED
  BY <1>1, <1>2, <1>3, TrafficSteps, TransitInvSends, TransitInvAgent

LEMMA TransitInvInit == Init => TransitInv
<1> SUFFICES ASSUME Init PROVE TransitInv
  OBVIOUS
<1>1. TypeOK /\ ThreadInv /\ m_thread # "running"
  BY InitType, ThreadInvInit DEF Init, IoInit
<1>2. /\ InTransit = {} /\ Objects = {} /\ hdr = NoObject
      /\ requests = {} /\ subs = {} /\ UnreadHeaders = {}
  BY <1>1, NothingInTransit
<1> QED
  BY <1>2, NoObjectFields DEF TransitInv, InHand

-----------------------------------------------------------------------------
(* Layer 2: the order of what is in transit. *)

(* The objects t lie next to each other in s. *)
Piece(s, t) ==
    \E k \in Nat : /\ k + Len(t) <= Len(s)
                   /\ \A i \in 1..Len(t) : t[i] = s[i + k]

LEMMA PieceSelf == \A s \in Seq(Object) : Piece(s, s)
<1> SUFFICES ASSUME NEW s \in Seq(Object) PROVE Piece(s, s)
  OBVIOUS
<1>1. Len(s) \in Nat
  BY LenProperties
<1>2. 0 + Len(s) <= Len(s) /\ \A i \in 1..Len(s) : s[i] = s[i + 0]
  BY <1>1
<1> QED
  BY <1>2 DEF Piece

LEMMA PieceTail ==
  ASSUME NEW s \in Seq(Object), s # <<>>
  PROVE  Piece(s, Tail(s))
<1>1. /\ 1 + Len(Tail(s)) <= Len(s)
      /\ \A i \in 1..Len(Tail(s)) : Tail(s)[i] = s[i + 1]
  BY TailObjects
<1> QED
  BY <1>1 DEF Piece

LEMMA PiecePrefix ==
  ASSUME NEW s \in Seq(Object), NEW t \in Seq(Object)
  PROVE  Piece(s \o t, s)
<1>1. /\ 0 + Len(s) <= Len(s \o t)
      /\ \A i \in 1..Len(s) : s[i] = (s \o t)[i + 0]
  BY ConcatObjects
<1> QED
  BY <1>1 DEF Piece

LEMMA PieceAnswerFirst ==
  ASSUME NEW s \in Seq(Object), NEW t \in Seq(Object), Piece(s, t),
         AnswerFirst(s)
  PROVE  AnswerFirst(t)
<1>1. PICK k \in Nat : /\ k + Len(t) <= Len(s)
                       /\ \A i \in 1..Len(t) : t[i] = s[i + k]
  BY DEF Piece
<1>2. Len(s) \in Nat /\ Len(t) \in Nat
  BY LenProperties
<1>3. ASSUME NEW i \in 1..Len(t), IsReply(t[i]), NEW j \in 1..(i - 1)
      PROVE  t[j].call # t[i].call
  <2>1. i + k \in 1..Len(s) /\ j + k \in 1..(i + k - 1) /\ j \in 1..Len(t)
    BY <1>1, <1>2
  <2>2. t[i] = s[i + k] /\ t[j] = s[j + k]
    BY <1>1, <2>1
  <2> QED
    BY <1>3, <2>1, <2>2 DEF AnswerFirst
<1> QED
  BY <1>3 DEF AnswerFirst

LEMMA ConcatAnswerFirst ==
  ASSUME NEW s \in Seq(Object), NEW t \in Seq(Object), AnswerFirst(s),
         \A i \in 1..Len(t) : IsReply(t[i]) =>
            i = 1 /\ \A j \in 1..Len(s) : s[j].call # t[i].call
  PROVE  AnswerFirst(s \o t)
<1>1. /\ Len(s \o t) = Len(s) + Len(t) /\ Len(s) \in Nat /\ Len(t) \in Nat
      /\ \A i \in 1..Len(s) + Len(t) :
            (s \o t)[i] = IF i <= Len(s) THEN s[i] ELSE t[i - Len(s)]
  BY ConcatObjects
<1>2. ASSUME NEW i \in 1..Len(s \o t), IsReply((s \o t)[i]),
             NEW j \in 1..(i - 1)
      PROVE  (s \o t)[j].call # (s \o t)[i].call
  <2>1. CASE i <= Len(s)
    BY <1>1, <1>2, <2>1 DEF AnswerFirst
  <2>2. CASE ~(i <= Len(s))
    <3>1. i - Len(s) \in 1..Len(t) /\ (s \o t)[i] = t[i - Len(s)]
      BY <1>1, <2>2
    <3>2. i - Len(s) = 1
      BY <1>2, <3>1
    <3>3. j \in 1..Len(s)
      BY <1>1, <3>2
    <3>4. (s \o t)[j] = s[j]
      BY <1>1, <3>3
    <3> QED
      BY <1>2, <3>1, <3>3, <3>4
  <2> QED
    BY <2>1, <2>2
<1> QED
  BY <1>2 DEF AnswerFirst

LEMMA IncomingType ==
  ASSUME TypeOK
  PROVE  /\ wire \in Seq(Object) /\ unpacker \in Seq(Object)
         /\ Incoming \in Seq(Object) /\ Len(Incoming) \in Nat
         /\ Range(Incoming) = Objects
         /\ \A i \in 1..Len(Incoming) : Incoming[i] \in Objects
         /\ \A o \in Objects : \E i \in 1..Len(Incoming) : Incoming[i] = o
<1>1. wire \in Seq(Object) /\ unpacker \in Seq(Object)
  BY DEF TypeOK, AgentTypeOK, ChannelTypeOK
<1>2. Incoming \in Seq(Object) /\ Range(Incoming) = Objects
  BY <1>1, ConcatObjects, RangeConcat DEF Incoming, Objects
<1> QED
  BY <1>1, <1>2, RangeIs, LenProperties

LEMMA IncomingTypeNext ==
  ASSUME TypeOK'
  PROVE  /\ wire' \in Seq(Object) /\ unpacker' \in Seq(Object)
         /\ Incoming' \in Seq(Object) /\ Len(Incoming') \in Nat
         /\ \A o \in Objects' : \E i \in 1..Len(Incoming') : Incoming'[i] = o
<1>1. wire' \in Seq(Object) /\ unpacker' \in Seq(Object)
  BY DEF TypeOK, AgentTypeOK, ChannelTypeOK
<1>2. Incoming' \in Seq(Object) /\ Range(Incoming') = Objects'
  BY <1>1, ConcatObjects, RangeConcat DEF Incoming, Objects
<1> QED
  BY <1>1, <1>2, RangeIs, LenProperties

(* What the steps of the I/O thread do to the sequence of objects. *)
Decodes == /\ unpacker # <<>> /\ Incoming # <<>>
           /\ unpacker' = Tail(unpacker)
           /\ Incoming' = Tail(Incoming)
           /\ hdr' = AsResponseHeader(Head(Incoming))
           /\ Head(Incoming) = Head(unpacker)

LEMMA IncomingTail ==
  ASSUME TypeOK, unpacker # <<>>, unpacker' = Tail(unpacker), UNCHANGED wire
  PROVE  /\ Incoming # <<>> /\ Incoming' = Tail(Incoming)
         /\ Head(Incoming) = Head(unpacker)
         /\ Piece(Incoming, Incoming')
<1>1. /\ Incoming # <<>> /\ Incoming' = Tail(Incoming)
      /\ Head(Incoming) = Head(unpacker)
  BY IncomingType, HeadTailConcat DEF Incoming
<1> QED
  BY <1>1, IncomingType, PieceTail

LEMMA IoIncoming ==
  ASSUME TypeOK, ThreadInv, IoStep
  PROVE  /\ Piece(Incoming, Incoming')
         /\ hdr' \in {hdr, NoObject} \/ (IoLookup /\ Decodes)
<1>1. wire \in Seq(Object) /\ unpacker \in Seq(Object)
      /\ Incoming \in Seq(Object)
  BY IncomingType
<1>2. CASE IoTop \/ IoIdle \/ IoDrained \/ IoErase
  <2>1. UNCHANGED <<wire, unpacker, hdr>>
    BY <1>2 DEF IoTop, IoIdle, IoDrained, IoErase, NotProducing, agentVars
  <2> QED
    BY <1>1, <2>1, PieceSelf DEF Incoming
<1>3. CASE IoExit
  <2>1. wire' = <<>> /\ unpacker' = unpacker /\ hdr' = hdr
    BY <1>3 DEF IoExit, AgentForget, NotProducing
  <2>2. Incoming' = unpacker
    BY <1>1, <2>1, EmptyConcat DEF Incoming
  <2> QED
    BY <1>1, <2>1, <2>2, PiecePrefix DEF Incoming
<1>4. CASE IoReceive
  <2>1. PICK n \in 1..Len(wire) :
          /\ unpacker' = unpacker \o SubSeq(wire, 1, n)
          /\ wire' = SubSeq(wire, n + 1, Len(wire))
    BY <1>4 DEF IoReceive
  <2>2. Len(wire) \in Nat
    BY <1>1, LenProperties
  <2>3. SubSeq(wire, 1, n) \in Seq(Object) /\ wire' \in Seq(Object)
    BY <1>1, <2>1, <2>2, PieceObjects
  <2>4. SubSeq(wire, 1, n) \o wire' = wire
    BY <1>1, <2>1, CutConcat
  <2>5. Incoming' = Incoming
    <3>1. Incoming' = (unpacker \o SubSeq(wire, 1, n)) \o wire'
      BY <2>1 DEF Incoming
    <3>2. Incoming' = unpacker \o (SubSeq(wire, 1, n) \o wire')
      BY <1>1, <2>3, <3>1, ConcatThree
    <3> QED
      BY <2>4, <3>2 DEF Incoming
  <2>6. hdr' = hdr
    BY <1>4 DEF IoReceive, NotProducing
  <2> QED
    BY <1>1, <2>5, <2>6, PieceSelf
<1>5. CASE IoLookup
  <2>1. /\ unpacker # <<>> /\ unpacker' = Tail(unpacker) /\ UNCHANGED wire
        /\ hdr' = hdr \/ hdr' = AsResponseHeader(Head(unpacker))
    BY <1>5 DEF IoLookup, agentVars
  <2> QED
    BY <1>5, <2>1, IncomingTail DEF Decodes
<1>6. CASE IoProduce
  <2>1. UNCHANGED wire
    BY <1>6 DEF IoProduce, agentVars
  <2>2. unpacker' = unpacker
           \/ (unpacker # <<>> /\ unpacker' = Tail(unpacker))
    BY <1>6
    DEF IoProduce, Produce, ProduceHeader, ProduceData, ProduceThrows,
        TakesBody, LogProduce, EventProduce, QueryProduce
  <2>3. hdr' \in {hdr, NoObject}
    BY <1>6
    DEF IoProduce, Produce, ProduceHeader, ProduceData, ProduceThrows, Store,
        LogProduce, EventProduce, QueryProduce, Deliver, Discard, BackToDrain
  <2>4. CASE unpacker' = unpacker
    BY <1>1, <2>1, <2>3, <2>4, PieceSelf DEF Incoming
  <2> QED
    BY <2>1, <2>2, <2>3, <2>4, IncomingTail
<1>7. CASE IoNotify \/ IoCallbackReturn \/ IoDeregister \/ IoDangle
              \/ IoBadSocket
  <2>1. UNCHANGED <<wire, unpacker>> /\ hdr' \in {hdr, NoObject}
    BY <1>7
    DEF IoNotify, IoCallbackReturn, IoDeregister, IoDangle, Dangle,
        IoBadSocket, BackToDrain, agentVars
  <2> QED
    BY <1>1, <2>1, PieceSelf DEF Incoming
<1> QED
  BY <1>2, <1>3, <1>4, <1>5, <1>6, <1>7 DEF IoStep, IoLoop

LEMMA TrafficKeptIncoming ==
  ASSUME TypeOK, TrafficKept
  PROVE  Piece(Incoming, Incoming')
<1>1. wire \in Seq(Object) /\ unpacker \in Seq(Object)
      /\ Incoming \in Seq(Object)
  BY IncomingType
<1>2. CASE wire' = wire
  BY <1>1, <1>2, PieceSelf DEF TrafficKept, Incoming
<1>3. CASE wire' = <<>>
  <2>1. Incoming' = unpacker
    BY <1>1, <1>3, EmptyConcat DEF TrafficKept, Incoming
  <2> QED
    BY <1>1, <2>1, PiecePrefix DEF Incoming
<1> QED
  BY <1>2, <1>3 DEF TrafficKept

(* OrderInv is an invariant. *)
LEMMA OrderInvPiece ==
  ASSUME TypeOK, TypeOK', OrderInv, NothingNew, Piece(Incoming, Incoming'),
         hdr' \in {hdr, NoObject}
  PROVE  OrderInv'
<1>1. /\ Incoming \in Seq(Object) /\ Len(Incoming) \in Nat
  BY IncomingType
<1>2. /\ Incoming' \in Seq(Object) /\ Len(Incoming') \in Nat
  BY IncomingTypeNext
<1>3. AnswerFirst(Incoming')
  BY <1>1, <1>2, PieceAnswerFirst DEF OrderInv
<1>4. hdr'.call \notin Due'
  BY TransitType, NothingNewHeaders, NoObjectFields, CallsAssumption
  DEF OrderInv
<1>5. PICK k \in Nat : /\ k + Len(Incoming') <= Len(Incoming)
                       /\ \A i \in 1..Len(Incoming') :
                             Incoming'[i] = Incoming[i + k]
  BY DEF Piece
<1>6. ASSUME NEW r \in requests', NEW i \in 1..Len(Incoming')
      PROVE  Incoming'[i].call # r.call
  <2>1. i + k \in 1..Len(Incoming)
    BY <1>1, <1>2, <1>5
  <2> QED
    BY <1>5, <2>1 DEF OrderInv, NothingNew
<1>7. \A r \in requests' : /\ \A p \in requests' : p.call = r.call => p = r
                           /\ \A q \in subs' : q.call # r.call
  BY DEF OrderInv, NothingNew
<1> QED
  BY <1>3, <1>4, <1>6, <1>7 DEF OrderInv

LEMMA OrderInvDecodes ==
  ASSUME TypeOK, TypeOK', OrderInv, NothingNew, Decodes
  PROVE  OrderInv'
<1>1. /\ Incoming \in Seq(Object) /\ Len(Incoming) \in Nat
      /\ Incoming' \in Seq(Object) /\ Incoming # <<>>
      /\ \A o \in Objects' : \E i \in 1..Len(Incoming') : Incoming'[i] = o
  BY IncomingType, IncomingTypeNext DEF Decodes
<1>2. /\ Head(Incoming) = Incoming[1] /\ Head(Incoming) \in Object
      /\ Len(Incoming) \in Nat /\ Len(Incoming) > 0
      /\ Len(Incoming') = Len(Incoming) - 1
      /\ \A i \in 1..Len(Incoming) - 1 : Incoming'[i] = Incoming[i + 1]
  BY <1>1, TailObjects DEF Decodes
<1>3. AnswerFirst(Incoming')
  BY <1>1, PieceTail, PieceAnswerFirst DEF OrderInv, Decodes
<1>4. hdr'.call = Incoming[1].call
  BY <1>2, AsHeader DEF Decodes
<1>5. \A r \in requests' : r.call # Incoming[1].call
  BY <1>2 DEF OrderInv, NothingNew
<1>6. \A o \in UnreadHeaders' : o.what = "reply" => o.call # Incoming[1].call
  <2> SUFFICES ASSUME NEW o \in UnreadHeaders', o.what = "reply"
               PROVE  o.call # Incoming[1].call
    OBVIOUS
  <2>1. PICK i \in 1..Len(Incoming') : Incoming'[i] = o
    BY <1>1 DEF UnreadHeaders, Objects
  <2>2. i + 1 \in 1..Len(Incoming) /\ Incoming[i + 1] = o
        /\ 1 \in 1..(i + 1 - 1)
    BY <1>2, <2>1
  <2>3. IsReply(o)
    BY DEF IsReply, UnreadHeaders
  <2> QED
    BY <2>2, <2>3 DEF OrderInv, AnswerFirst
<1>7. hdr'.call \notin Due'
  BY <1>4, <1>5, <1>6 DEF Due
<1>8. ASSUME NEW r \in requests', NEW i \in 1..Len(Incoming')
      PROVE  Incoming'[i].call # r.call
  BY <1>2 DEF OrderInv, NothingNew
<1>9. \A r \in requests' : /\ \A p \in requests' : p.call = r.call => p = r
                           /\ \A q \in subs' : q.call # r.call
  BY DEF OrderInv, NothingNew
<1> QED
  BY <1>3, <1>7, <1>8, <1>9 DEF OrderInv

LEMMA OrderInvSends ==
  ASSUME TypeOK, TransitInv, OrderInv, NEW c \in Calls, Sends(c)
  PROVE  OrderInv'
<1>1. /\ UNCHANGED <<Incoming, UnreadHeaders, hdr, subs>>
      /\ pc[c] \in {"idle", "handshake"}
      /\ \A i \in 1..Len(Incoming) : Incoming[i] \in Objects
  BY SendsEffect, IncomingType DEF Sends, channelVars
<1>2. requests' = requests \/ \E r : requests' = requests \cup {r} /\ r.call = c
  BY DEF Sends
<1>3. /\ \A o \in Objects : o.call # c
      /\ \A x \in InTransit : x.call # c
      /\ hdr.call # c
  <2>1. \A o \in Objects \cup {hdr} : o # NoObject => o.call # c
    BY <1>1 DEF TransitInv
  <2>2. NoObject \notin Objects /\ NoObject.call # c
    BY ObjectsType, ObjectNotNone, NoObjectFields, CallsAssumption
  <2> QED
    BY <1>1, <2>1, <2>2 DEF TransitInv
<1>4. CASE requests' = requests
  BY <1>1, <1>4 DEF OrderInv, Due
<1>5. ASSUME NEW r, requests' = requests \cup {r}, r.call = c
      PROVE  OrderInv'
  <2>1. hdr'.call \notin Due'
    BY <1>1, <1>3, <1>5 DEF OrderInv, Due
  <2>2. AnswerFirst(Incoming')
    BY <1>1 DEF OrderInv
  <2>3. \A i \in 1..Len(Incoming') : Incoming'[i].call # c
    BY <1>1, <1>3
  <2>4. \A p \in requests \cup subs : p.call # c
    BY <1>3 DEF InTransit
  <2>5. ASSUME NEW p \in requests'
        PROVE  /\ \A i \in 1..Len(Incoming') : Incoming'[i].call # p.call
               /\ \A x \in requests' : x.call = p.call => x = p
               /\ \A q \in subs' : q.call # p.call
    BY <1>1, <1>5, <2>3, <2>4 DEF OrderInv
  <2> QED
    BY <2>1, <2>2, <2>5 DEF OrderInv
<1> QED
  BY <1>2, <1>4, <1>5

LEMMA OrderInvMessage ==
  ASSUME TypeOK, OrderInv, NEW r \in requests \cup subs,
         NEW w \in {"reply", "record", "done"}, NEW t,
         Message(r, w, t), wire' = wire \o t,
         w = "reply" => /\ r \in requests
                        /\ requests' = requests \ {r}
                        /\ subs' \subseteq subs \cup {r},
         w # "reply" => /\ r \in subs
                        /\ requests' = requests /\ subs' \subseteq subs,
         UNCHANGED <<frameVars, channelVars, ioVars, clientVars>>
  PROVE  OrderInv'
<1>1. UNCHANGED <<hdr, unpacker>>
  BY DEF channelVars
<1>2. /\ t \in Seq(Object) /\ Incoming' = Incoming \o t
      /\ \A h \in UnreadHeaders' : \/ h \in UnreadHeaders
                                   \/ h.call = r.call /\ h.what = w
  BY <1>1, MessageObjects
<1>3. r \in RequestMessage
  BY DEF TypeOK, AgentTypeOK
<1>4. /\ Len(t) \in {1, 2}
      /\ \A i \in 1..Len(t) : t[i].call = r.call /\ t[i].what = w
      /\ Len(t) = 2 => t[2].kind = "body"
  BY <1>3, MessageIs
<1>5. Incoming \in Seq(Object) /\ Len(Incoming) \in Nat
  BY IncomingType
<1>6. AnswerFirst(Incoming')
  <2>1. ASSUME NEW i \in 1..Len(t), IsReply(t[i])
        PROVE  i = 1 /\ \A j \in 1..Len(Incoming) : Incoming[j].call # t[i].call
    <3>1. w = "reply" /\ t[i].call = r.call
      BY <1>4, <2>1 DEF IsReply
    <3>2. i = 1
      BY <1>4, <2>1 DEF IsReply
    <3> QED
      BY <3>1, <3>2 DEF OrderInv
  <2> QED
    BY <1>2, <1>5, <2>1, ConcatAnswerFirst DEF OrderInv
<1>7. Due' \subseteq Due
  <2>1. \A h \in UnreadHeaders' :
           h.what = "reply" => h \in UnreadHeaders
                                  \/ (h.call = r.call /\ r \in requests)
    BY <1>2
  <2> QED
    BY <2>1 DEF Due
<1>8. ASSUME NEW p \in requests'
      PROVE  /\ \A i \in 1..Len(Incoming') : Incoming'[i].call # p.call
             /\ \A x \in requests' : x.call = p.call => x = p
             /\ \A q \in subs' : q.call # p.call
  <2>1. p \in requests /\ p.call # r.call
    BY DEF OrderInv
  <2>2. ASSUME NEW i \in 1..Len(Incoming')
        PROVE  Incoming'[i].call # p.call
    <3>1. \/ i \in 1..Len(Incoming) /\ Incoming'[i] = Incoming[i]
          \/ \E j \in 1..Len(t) : Incoming'[i] = t[j]
      <4>1. CASE i <= Len(Incoming)
        BY <1>2, <1>5, <4>1, ConcatObjects
      <4>2. CASE ~(i <= Len(Incoming))
        <5>1. /\ i - Len(Incoming) \in 1..Len(t)
              /\ Incoming'[i] = t[i - Len(Incoming)]
          BY <1>2, <1>5, <4>2, ConcatObjects
        <5> QED
          BY <5>1
      <4> QED
        BY <4>1, <4>2
    <3> QED
      BY <1>4, <2>1, <3>1 DEF OrderInv
  <2> QED
    BY <2>1, <2>2 DEF OrderInv
<1> QED
  BY <1>1, <1>6, <1>7, <1>8 DEF OrderInv

LEMMA OrderInvAgent ==
  ASSUME TypeOK, TypeOK', OrderInv, AgentStep
  PROVE  OrderInv'
<1>1. UNCHANGED <<frameVars, channelVars, ioVars, clientVars>>
  BY DEF AgentStep
<1>2. CASE wire' = wire /\ requests' \subseteq requests /\ subs' = subs
  <2>1. NothingNew /\ hdr' = hdr /\ Incoming' = Incoming
    BY <1>1, <1>2 DEF channelVars, NothingNew, Objects, Incoming
  <2> QED
    BY <2>1, IncomingType, PieceSelf, OrderInvPiece
<1>3. ASSUME NEW r \in requests, Answered(r) PROVE OrderInv'
  <2>1. PICK t : Message(r, "reply", t) /\ wire' = wire \o t
    BY <1>3 DEF Answered
  <2> QED
    BY <1>1, <1>3, <2>1, OrderInvMessage DEF Answered
<1>4. ASSUME NEW q \in subs, Published(q) PROVE OrderInv'
  <2>1. PICK t, w : /\ w \in {"record", "done"}
                    /\ Message(q, w, t) /\ wire' = wire \o t
    BY <1>4 DEF Published
  <2>2. w \in {"reply", "record", "done"} /\ w # "reply"
    BY <2>1
  <2> QED
    BY <1>1, <1>4, <2>1, <2>2, OrderInvMessage DEF Published
<1> QED
  BY <1>2, <1>3, <1>4, AgentEffect

LEMMA OrderInvNext ==
  TypeOK /\ TypeOK' /\ ThreadInv /\ OwnerInv /\ TransitInv /\ OrderInv
     /\ [Next]_vars => OrderInv'
<1> SUFFICES ASSUME TypeOK, TypeOK', ThreadInv, OwnerInv, TransitInv,
                    OrderInv, [Next]_vars
             PROVE  OrderInv'
  OBVIOUS
<1>1. CASE TrafficKept
  <2>1. hdr' \in {hdr, NoObject}
    BY <1>1 DEF TrafficKept
  <2> QED
    BY <1>1, <2>1, TrafficKeptNothingNew, TrafficKeptIncoming, OrderInvPiece
<1>2. CASE IoStep
  BY <1>2, IoNothingNew, IoIncoming, OrderInvPiece, OrderInvDecodes
<1> QED
  BY <1>1, <1>2, TrafficSteps, OrderInvSends, OrderInvAgent

LEMMA OrderInvInit == Init => OrderInv
<1> SUFFICES ASSUME Init PROVE OrderInv
  OBVIOUS
<1>1. TypeOK /\ ThreadInv /\ m_thread # "running"
  BY InitType, ThreadInvInit DEF Init, IoInit
<1>2. /\ hdr = NoObject /\ requests = {} /\ Incoming = <<>>
      /\ UnreadHeaders = {}
  BY <1>1, NothingInTransit
<1>3. AnswerFirst(Incoming)
  BY <1>2 DEF AnswerFirst
<1> QED
  BY <1>2, <1>3 DEF OrderInv, Due

-----------------------------------------------------------------------------
(* Layer 3: headers and their bodies. *)

(* The end of s. *)
Suffix(s, t) ==
    \E k \in Nat : /\ k + Len(t) = Len(s)
                   /\ \A i \in 1..Len(t) : t[i] = s[i + k]

LEMMA PieceFollowed ==
  ASSUME NEW k, NEW s \in Seq(Object), NEW t \in Seq(Object), Piece(s, t),
         Followed(s, k)
  PROVE  Followed(t, k)
<1>1. PICK n \in Nat : /\ n + Len(t) <= Len(s)
                       /\ \A i \in 1..Len(t) : t[i] = s[i + n]
  BY DEF Piece
<1>2. Len(s) \in Nat /\ Len(t) \in Nat
  BY LenProperties
<1>3. ASSUME NEW i \in 1..Len(t), Expects(t[i], k), i # Len(t)
      PROVE  BodyOf(t[i + 1], t[i])
  <2>1. i + 1 \in 1..Len(t) /\ i + n \in 1..Len(s) /\ i + n # Len(s)
        /\ i + 1 + n = i + n + 1
    BY <1>1, <1>2, <1>3
  <2>2. t[i] = s[i + n] /\ t[i + 1] = s[i + n + 1]
    BY <1>1, <2>1
  <2> QED
    BY <1>3, <2>1, <2>2 DEF Followed
<1> QED
  BY <1>3 DEF Followed

LEMMA SuffixPaired ==
  ASSUME NEW k, NEW s \in Seq(Object), NEW t \in Seq(Object), Suffix(s, t),
         Paired(s, k)
  PROVE  Paired(t, k)
<1>1. PICK n \in Nat : /\ n + Len(t) = Len(s)
                       /\ \A i \in 1..Len(t) : t[i] = s[i + n]
  BY DEF Suffix
<1>2. Len(s) \in Nat /\ Len(t) \in Nat
  BY LenProperties
<1>3. Piece(s, t)
  <2>1. n + Len(t) <= Len(s)
    BY <1>1, <1>2
  <2> QED
    BY <1>1, <2>1 DEF Piece
<1>4. Followed(t, k)
  BY <1>3, PieceFollowed DEF Paired
<1>5. t # <<>> => ~Expects(t[Len(t)], k)
  <2> SUFFICES ASSUME t # <<>> PROVE ~Expects(t[Len(t)], k)
    OBVIOUS
  <2>1. Len(t) \in 1..Len(t) /\ Len(t) + n = Len(s) /\ Len(s) > 0
    BY <1>1, <1>2, TailObjects
  <2>2. t[Len(t)] = s[Len(s)] /\ s # <<>>
    BY <1>1, <2>1
  <2> QED
    BY <2>2 DEF Paired
<1> QED
  BY <1>4, <1>5 DEF Paired

LEMMA TailSuffix ==
  ASSUME NEW s \in Seq(Object), s # <<>>
  PROVE  Suffix(s, Tail(s))
<1>1. /\ 1 + Len(Tail(s)) = Len(s)
      /\ \A i \in 1..Len(Tail(s)) : Tail(s)[i] = s[i + 1]
  BY TailObjects
<1> QED
  BY <1>1 DEF Suffix

LEMMA CutSuffix ==
  ASSUME NEW s \in Seq(Object), NEW n \in 1..Len(s)
  PROVE  /\ SubSeq(s, 1, n) \in Seq(Object)
         /\ SubSeq(s, n + 1, Len(s)) \in Seq(Object)
         /\ Piece(s, SubSeq(s, 1, n))
         /\ Suffix(s, SubSeq(s, n + 1, Len(s)))
<1>1. Len(s) \in Nat
  BY LenProperties
<1>2. /\ SubSeq(s, 1, n) \in Seq(Object) /\ Len(SubSeq(s, 1, n)) = n
      /\ \A i \in 1..n : SubSeq(s, 1, n)[i] = s[i + 0]
  BY <1>1, PieceObjects
<1>3. /\ SubSeq(s, n + 1, Len(s)) \in Seq(Object)
      /\ Len(SubSeq(s, n + 1, Len(s))) = Len(s) - n
      /\ \A i \in 1..Len(s) - n : SubSeq(s, n + 1, Len(s))[i] = s[i + n]
  <2>1. /\ SubSeq(s, n + 1, Len(s)) \in Seq(Object)
        /\ Len(SubSeq(s, n + 1, Len(s)))
              = IF n + 1 <= Len(s) THEN Len(s) - (n + 1) + 1 ELSE 0
        /\ \A i \in 1..Len(s) - (n + 1) + 1 :
              SubSeq(s, n + 1, Len(s))[i] = s[n + 1 + i - 1]
    BY <1>1, PieceObjects
  <2>2. \A i \in 1..Len(s) - n : n + 1 + i - 1 = i + n
    BY <1>1
  <2> QED
    BY <1>1, <2>1, <2>2
<1>4. Piece(s, SubSeq(s, 1, n))
  <2>1. 0 + Len(SubSeq(s, 1, n)) <= Len(s)
    BY <1>1, <1>2
  <2> QED
    BY <1>2, <2>1 DEF Piece
<1>5. Suffix(s, SubSeq(s, n + 1, Len(s)))
  <2>1. n + Len(SubSeq(s, n + 1, Len(s))) = Len(s)
    BY <1>1, <1>3
  <2> QED
    BY <1>3, <2>1 DEF Suffix
<1> QED
  BY <1>2, <1>3, <1>4, <1>5

LEMMA ConcatPaired ==
  ASSUME NEW k, NEW s \in Seq(Object), NEW t \in Seq(Object), t # <<>>,
         Paired(s, k), Paired(t, k)
  PROVE  Paired(s \o t, k)
<1>1. /\ Len(s \o t) = Len(s) + Len(t) /\ Len(s) \in Nat /\ Len(t) \in Nat
      /\ \A i \in 1..Len(s) + Len(t) :
            (s \o t)[i] = IF i <= Len(s) THEN s[i] ELSE t[i - Len(s)]
  BY ConcatObjects
<1>2. Len(t) > 0
  BY TailObjects
<1>3. ASSUME NEW i \in 1..Len(s \o t), Expects((s \o t)[i], k),
             i # Len(s \o t)
      PROVE  BodyOf((s \o t)[i + 1], (s \o t)[i])
  <2>1. CASE i < Len(s)
    <3>1. i \in 1..Len(s) /\ i # Len(s) /\ i \in 1..Len(s) + Len(t)
          /\ i + 1 \in 1..Len(s) + Len(t) /\ i <= Len(s) /\ i + 1 <= Len(s)
      BY <1>1, <2>1
    <3>2. (s \o t)[i] = s[i] /\ (s \o t)[i + 1] = s[i + 1]
      BY <1>1, <3>1
    <3> QED
      BY <1>3, <3>1, <3>2 DEF Paired, Followed
  <2>2. CASE i = Len(s)
    <3>1. (s \o t)[i] = s[Len(s)] /\ s # <<>>
      BY <1>1, <1>2, <2>2
    <3> QED
      BY <1>3, <3>1 DEF Paired
  <2>3. CASE i > Len(s)
    <3>1. i - Len(s) \in 1..Len(t) /\ i - Len(s) # Len(t)
          /\ i \in 1..Len(s) + Len(t) /\ i + 1 \in 1..Len(s) + Len(t)
          /\ ~(i <= Len(s)) /\ ~(i + 1 <= Len(s))
          /\ i + 1 - Len(s) = i - Len(s) + 1
      BY <1>1, <1>3, <2>3
    <3>2. (s \o t)[i] = t[i - Len(s)] /\ (s \o t)[i + 1] = t[i - Len(s) + 1]
      BY <1>1, <3>1
    <3> QED
      BY <1>3, <3>1, <3>2 DEF Paired, Followed
  <2>4. i < Len(s) \/ i = Len(s) \/ i > Len(s)
    BY <1>1
  <2> QED
    BY <2>1, <2>2, <2>3, <2>4
<1>4. ~Expects((s \o t)[Len(s \o t)], k)
  <2>1. (s \o t)[Len(s \o t)] = t[Len(t)]
    <3>1. Len(s) + Len(t) \in 1..Len(s) + Len(t)
          /\ ~(Len(s) + Len(t) <= Len(s)) /\ Len(s) + Len(t) - Len(s) = Len(t)
      BY <1>1, <1>2
    <3> QED
      BY <1>1, <3>1
  <2> QED
    BY <2>1 DEF Paired
<1> QED
  BY <1>3, <1>4 DEF Paired, Followed

LEMMA MessagePaired ==
  ASSUME NEW k, NEW r \in RequestMessage,
         NEW w \in {"reply", "record", "done"}, NEW t, Message(r, w, t),
         r.cmd = k[r.call]
  PROVE  t \in Seq(Object) /\ t # <<>> /\ Paired(t, k)
<1>1. /\ t \in Seq(Object) /\ Len(t) \in {1, 2}
      /\ \A i \in 1..Len(t) : t[i].call = r.call /\ t[i].what = w
      /\ t[1].kind = "header"
      /\ Len(t) = 2 => t[2].kind = "body" /\ BodyOf(t[2], t[1])
      /\ Len(t) = 1 => /\ w = "reply"
                       /\ \/ ~HasBody(r.cmd)
                          \/ t[1].err /\ "bareError" \in Faults
  BY MessageIs
<1>2. t # <<>>
  BY <1>1
<1>3. CASE Len(t) = 1
  <2>1. t[1].what = "reply" /\ t[1].call = r.call
    BY <1>1, <1>3
  <2>2. ~Expects(t[1], k)
    BY <1>1, <1>3, <2>1 DEF Expects
  <2> QED
    BY <1>1, <1>2, <1>3, <2>2 DEF Paired, Followed
<1>4. CASE Len(t) = 2
  <2>1. ~Expects(t[2], k)
    BY <1>1, <1>4 DEF Expects
  <2>2. \A i \in 1..Len(t) : i = 1 \/ i = 2
    BY <1>4
  <2>3. Followed(t, k)
    BY <1>1, <1>4, <2>1, <2>2 DEF Followed
  <2> QED
    BY <1>1, <1>2, <1>4, <2>1, <2>3 DEF Paired
<1> QED
  BY <1>1, <1>3, <1>4

(* The commands of calls that begin do not matter. *)
LEMMA PairedKept ==
  ASSUME NEW k, NEW l, NEW s \in Seq(Object),
         \A o \in Range(s) : k[o.call] = l[o.call]
  PROVE  /\ Followed(s, k) => Followed(s, l)
         /\ Paired(s, k) => Paired(s, l)
<1>1. \A i \in 1..Len(s) : Expects(s[i], k) <=> Expects(s[i], l)
  <2>1. ASSUME NEW i \in 1..Len(s)
        PROVE  Expects(s[i], k) <=> Expects(s[i], l)
    <3>1. k[s[i].call] = l[s[i].call]
      BY RangeIs
    <3> QED
      BY <3>1 DEF Expects
  <2> QED
    BY <2>1
<1>2. Followed(s, k) => Followed(s, l)
  BY <1>1 DEF Followed
<1>3. s # <<>> => Len(s) \in 1..Len(s)
  BY TailObjects
<1> QED
  BY <1>1, <1>2, <1>3 DEF Paired

LEMMA CommandsKept ==
  ASSUME TypeOK, TransitInv, CallsKept
  PROVE  /\ \A o \in Objects : cmd'[o.call] = cmd[o.call]
         /\ Expects(hdr, cmd') <=> Expects(hdr, cmd)
<1>1. \A o \in Objects : cmd'[o.call] = cmd[o.call]
  BY ObjectsType, ObjectNotNone DEF TransitInv, CallsKept
<1>2. CASE hdr = NoObject
  <2>1. hdr.kind # "header"
    BY <1>2, NoObjectFields
  <2>2. ~Expects(hdr, cmd) /\ ~Expects(hdr, cmd')
    BY <2>1 DEF Expects
  <2> QED
    BY <1>1, <2>2
<1>3. CASE hdr # NoObject
  <2>1. cmd'[hdr.call] = cmd[hdr.call]
    BY <1>3, ObjectsType DEF TransitInv, CallsKept
  <2> QED
    BY <1>1, <2>1 DEF Expects
<1> QED
  BY <1>1, <1>2, <1>3

(* The clause of PairInv about the header in hand. *)
HandPaired(h, u, k) ==
    Expects(h, k) => /\ u # <<>> => BodyOf(Head(u), h)
                     /\ "splitRead" \notin Faults => u # <<>>

Parted(u, k) == /\ Followed(u, k)
                /\ "splitRead" \notin Faults => Paired(u, k)

LEMMA PairInvIs ==
  PairInv <=> /\ Paired(wire, cmd) /\ Parted(unpacker, cmd)
              /\ ioPc \in {"found", "produce"} =>
                    HandPaired(hdr, unpacker, cmd)
BY DEF PairInv, Parted, HandPaired

LEMMA PairInvIsNext ==
  PairInv' <=> /\ Paired(wire', cmd') /\ Parted(unpacker', cmd')
               /\ ioPc' \in {"found", "produce"} =>
                     HandPaired(hdr', unpacker', cmd')
BY DEF PairInv, Parted, HandPaired

LEMMA EmptyPaired == \A k : Paired(<<>>, k) /\ Parted(<<>>, k)
BY DEF Paired, Followed, Parted

LEMMA TailParted ==
  ASSUME NEW k, NEW u \in Seq(Object), u # <<>>, Parted(u, k)
  PROVE  Parted(Tail(u), k)
BY TailObjects, PieceTail, TailSuffix, PieceFollowed, SuffixPaired DEF Parted

(* A header that is decoded is followed by its body. *)
LEMMA HeadPaired ==
  ASSUME NEW k, NEW u \in Seq(Object), u # <<>>, Parted(u, k)
  PROVE  HandPaired(AsResponseHeader(Head(u)), Tail(u), k)
<1> DEFINE h == AsResponseHeader(Head(u))
<1>1. /\ Head(u) \in Object /\ Head(u) = u[1] /\ Tail(u) \in Seq(Object)
      /\ Len(u) \in Nat /\ Len(u) > 0 /\ Len(Tail(u)) = Len(u) - 1
      /\ \A i \in 1..Len(u) - 1 : Tail(u)[i] = u[i + 1]
  BY TailObjects
<1>2. Expects(h, k) => Expects(u[1], k) /\ h = u[1]
  <2>1. h.kind = u[1].kind /\ (u[1].kind = "header" => h = u[1])
    BY <1>1, AsHeader
  <2> QED
    BY <2>1 DEF Expects
<1> HIDE DEF h
<1>3. ASSUME Expects(h, k), Tail(u) # <<>>
      PROVE  BodyOf(Head(Tail(u)), h)
  <2>1. Head(Tail(u)) = Tail(u)[1] /\ Len(Tail(u)) > 0
    BY <1>1, <1>3, TailObjects
  <2>2. Head(Tail(u)) = u[1 + 1] /\ 1 \in 1..Len(u) /\ 1 # Len(u)
    BY <1>1, <2>1
  <2>3. BodyOf(u[1 + 1], u[1])
    BY <1>2, <1>3, <2>2 DEF Parted, Followed
  <2> QED
    BY <1>2, <1>3, <2>2, <2>3
<1>4. ASSUME Expects(h, k), "splitRead" \notin Faults
      PROVE  Tail(u) # <<>>
  <2>1. Len(u) # 1
    BY <1>2, <1>4 DEF Parted, Paired
  <2>2. Len(Tail(u)) # 0 /\ Len(<<>>) = 0
    BY <1>1, <2>1
  <2> QED
    BY <2>2
<1> QED
  BY <1>3, <1>4 DEF HandPaired, h

(* PairInv is an invariant. *)
LEMMA PairInvKept ==
  ASSUME TypeOK, TransitInv, PairInv, CallsKept,
         wire' \in {wire, <<>>}, unpacker' = unpacker,
         ioPc' \in {"found", "produce"} =>
            hdr' = hdr /\ ioPc \in {"found", "produce"}
  PROVE  PairInv'
<1>1. /\ wire \in Seq(Object) /\ unpacker \in Seq(Object)
      /\ \A o \in Range(wire) \cup Range(unpacker) :
            cmd[o.call] = cmd'[o.call]
      /\ Expects(hdr, cmd') <=> Expects(hdr, cmd)
  BY IncomingType, CommandsKept DEF Objects
<1>2. Paired(wire', cmd') /\ Parted(unpacker', cmd')
  BY <1>1, PairedKept, EmptyPaired, PairInvIs DEF Parted
<1>3. ioPc' \in {"found", "produce"} => HandPaired(hdr', unpacker', cmd')
  BY <1>1, PairInvIs DEF HandPaired
<1> QED
  BY <1>2, <1>3, PairInvIsNext

LEMMA PairInvMessage ==
  ASSUME TypeOK, TransitInv, PairInv, NEW r \in requests \cup subs,
         NEW w \in {"reply", "record", "done"}, NEW t,
         Message(r, w, t), wire' = wire \o t,
         UNCHANGED <<frameVars, channelVars, ioVars, clientVars>>
  PROVE  PairInv'
<1>1. r \in RequestMessage /\ r.cmd = cmd[r.call]
  BY DEF TypeOK, AgentTypeOK, TransitInv
<1>2. wire \in Seq(Object) /\ t \in Seq(Object) /\ t # <<>> /\ Paired(t, cmd)
  BY <1>1, IncomingType, MessagePaired
<1>3. Paired(wire', cmd)
  BY <1>2, ConcatPaired, PairInvIs
<1>4. UNCHANGED <<cmd, unpacker, hdr, ioPc>>
  BY DEF frameVars, channelVars
<1> QED
  BY <1>3, <1>4, PairInvIs, PairInvIsNext

LEMMA PairInvIo ==
  ASSUME TypeOK, ThreadInv, TransitInv, PairInv, CallsKept, IoStep
  PROVE  PairInv'
<1>0. cmd' = cmd
  BY
  DEF IoStep, IoLoop, IoTop, IoExit, IoReceive, IoIdle, IoDrained, IoLookup,
      IoErase, IoProduce, IoNotify, IoCallbackReturn, IoDeregister, IoDangle,
      IoBadSocket, frameVars, clientVars
<1>1. wire \in Seq(Object) /\ unpacker \in Seq(Object)
  BY IncomingType
<1>2. CASE \/ IoTop \/ IoIdle \/ IoDrained \/ IoErase \/ IoExit \/ IoNotify
           \/ IoCallbackReturn \/ IoDeregister \/ IoDangle \/ IoBadSocket
  <2>1. wire' \in {wire, <<>>} /\ unpacker' = unpacker
    BY <1>2
    DEF IoTop, IoIdle, IoDrained, IoErase, IoExit, AgentForget, IoNotify,
        IoCallbackReturn, IoDeregister, IoDangle, Dangle, IoBadSocket,
        agentVars
  <2>2. ioPc' \in {"found", "produce"} =>
           hdr' = hdr /\ ioPc \in {"found", "produce"}
    BY <1>2
    DEF IoTop, IoIdle, IoDrained, IoErase, IoExit, IoNotify, IoCallbackReturn,
        IoDeregister, IoDangle, Dangle, IoBadSocket, BackToDrain, NotProducing
  <2> QED
    BY <2>1, <2>2, PairInvKept
<1>3. CASE IoReceive
  <2>1. PICK n \in 1..Len(wire) :
          /\ ReadsUpTo(n)
          /\ unpacker' = unpacker \o SubSeq(wire, 1, n)
          /\ wire' = SubSeq(wire, n + 1, Len(wire))
    BY <1>3 DEF IoReceive
  <2>2. /\ SubSeq(wire, 1, n) \in Seq(Object) /\ wire' \in Seq(Object)
        /\ Piece(wire, SubSeq(wire, 1, n)) /\ Suffix(wire, wire')
    BY <1>1, <2>1, CutSuffix
  <2>3. unpacker' = SubSeq(wire, 1, n)
    BY <1>3, <2>1, <2>2, EmptyConcat DEF IoReceive, ThreadInv
  <2>4. Paired(wire', cmd)
    BY <1>1, <2>2, SuffixPaired, PairInvIs
  <2>5. Parted(unpacker', cmd)
    <3>1. Followed(unpacker', cmd)
      BY <1>1, <2>2, <2>3, PieceFollowed, PairInvIs DEF Paired
    <3>2. ASSUME "splitRead" \notin Faults PROVE Paired(unpacker', cmd)
      <4>1. n = Len(wire)
        BY <2>1, <3>2 DEF ReadsUpTo
      <4>2. unpacker' = wire
        BY <1>1, <2>3, <4>1, SubSeqFull
      <4> QED
        BY <4>2, PairInvIs
    <3> QED
      BY <3>1, <3>2 DEF Parted
  <2>6. ioPc' = "drain"
    BY <1>3 DEF IoReceive
  <2> QED
    BY <1>0, <2>4, <2>5, <2>6, PairInvIsNext
<1>4. CASE IoLookup
  <2>1. /\ unpacker # <<>> /\ unpacker' = Tail(unpacker) /\ UNCHANGED wire
        /\ \/ ioPc' = "drain"
           \/ hdr' = AsResponseHeader(Head(unpacker))
    BY <1>4 DEF IoLookup, agentVars
  <2>2. Parted(unpacker', cmd)
    BY <1>1, <2>1, TailParted, PairInvIs
  <2>3. ioPc' \in {"found", "produce"} => HandPaired(hdr', unpacker', cmd)
    BY <1>1, <2>1, HeadPaired, PairInvIs
  <2> QED
    BY <1>0, <2>1, <2>2, <2>3, PairInvIs, PairInvIsNext
<1>5. CASE IoProduce
  <2>1. UNCHANGED wire
    BY <1>5 DEF IoProduce, agentVars
  <2>2. unpacker' = unpacker
           \/ (unpacker # <<>> /\ unpacker' = Tail(unpacker))
    BY <1>5
    DEF IoProduce, Produce, ProduceHeader, ProduceData, ProduceThrows,
        TakesBody, LogProduce, EventProduce, QueryProduce
  <2>3. ioPc' \notin {"found", "produce"}
    BY <1>5
    DEF IoProduce, Produce, ProduceHeader, ProduceData, ProduceThrows, Store,
        LogProduce, EventProduce, QueryProduce, Deliver, Discard, BackToDrain
  <2>4. Parted(unpacker', cmd)
    BY <1>1, <2>2, TailParted, PairInvIs
  <2> QED
    BY <1>0, <2>1, <2>3, <2>4, PairInvIs, PairInvIsNext
<1> QED
  BY <1>2, <1>3, <1>4, <1>5 DEF IoStep, IoLoop

LEMMA PairInvNext ==
  TypeOK /\ ThreadInv /\ OwnerInv /\ TransitInv /\ PairInv /\ [Next]_vars
     => PairInv'
<1> SUFFICES ASSUME TypeOK, ThreadInv, OwnerInv, TransitInv, PairInv,
                    [Next]_vars
             PROVE  PairInv'
  OBVIOUS
<1>1. CallsKept
  BY CallsKeptNext
<1>2. CASE TrafficKept
  BY <1>1, <1>2, PairInvKept DEF TrafficKept
<1>3. ASSUME NEW c \in Calls, Sends(c) PROVE PairInv'
  BY <1>1, <1>3, PairInvKept DEF Sends, channelVars
<1>4. CASE AgentStep
  <2>1. UNCHANGED <<frameVars, channelVars, ioVars, clientVars>>
    BY <1>4 DEF AgentStep
  <2>2. CASE wire' = wire
    BY <1>1, <2>1, <2>2, PairInvKept DEF channelVars
  <2>3. ASSUME NEW r \in requests, Answered(r) PROVE PairInv'
    BY <2>1, <2>3, PairInvMessage DEF Answered
  <2>4. ASSUME NEW q \in subs, Published(q) PROVE PairInv'
    <3>1. PICK t, w : /\ w \in {"record", "done"}
                      /\ Message(q, w, t) /\ wire' = wire \o t
      BY <2>4 DEF Published
    <3>2. w \in {"reply", "record", "done"}
      BY <3>1
    <3> QED
      BY <2>1, <3>1, <3>2, PairInvMessage
  <2> QED
    BY <1>4, <2>2, <2>3, <2>4, AgentEffect
<1> QED
  BY <1>1, <1>2, <1>3, <1>4, TrafficSteps, PairInvIo

LEMMA PairInvInit == Init => PairInv
BY EmptyPaired, PairInvIs DEF Init, AgentInit, ChannelInit

-----------------------------------------------------------------------------
(* The first three layers hold in every environment. *)

(* What is proved of every behaviour. *)
Basics == /\ TypeOK /\ MapInv /\ CallInv
          /\ ThreadInv /\ OwnerInv /\ TransitInv /\ OrderInv /\ PairInv

LEMMA BasicsInit == Init => Basics
BY InitType, MapInvInit, CallInvInit, ThreadInvInit, OwnerInvInit,
   TransitInvInit, OrderInvInit, PairInvInit DEF Basics

LEMMA BasicsNext == Basics /\ [Next]_vars => Basics'
BY NextType, MapInvNext, CallInvNext, ThreadInvNext, OwnerInvNext,
   TransitInvNext, OrderInvNext, PairInvNext DEF Basics

LEMMA BasicsCorrect == Spec => []Basics
BY BasicsInit, BasicsNext, PTL DEF Spec

(* What is in transit, from sendData to the end of processRpc's handling   *)
(* of an object, carries the number of the call it belongs to, whatever    *)
(* was retried, lost or closed.                                            *)
THEOREM TransitCorrect == Spec => []TransitInv
<1>1. Basics => TransitInv
  BY DEF Basics
<1> QED
  BY <1>1, BasicsCorrect, PTL

(* The answer to a request precedes everything else under its number, also *)
(* across split reads.                                                     *)
THEOREM OrderCorrect == Spec => []OrderInv
<1>1. Basics => OrderInv
  BY DEF Basics
<1> QED
  BY <1>1, BasicsCorrect, PTL

(* processRpc and produce decode a header and its body in step: the object *)
(* after a header that announces a body is that body, if it has been read. *)
THEOREM PairCorrect == Spec => []PairInv
<1>1. Basics => PairInv
  BY DEF Basics
<1> QED
  BY <1>1, BasicsCorrect, PTL

=============================================================================
