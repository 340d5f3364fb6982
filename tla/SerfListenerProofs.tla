------------------------- MODULE SerfListenerProofs -------------------------
(***************************************************************************)
(* Listeners and the life of channels: a listener hears its own records,   *)
(* an answer finds the call that waits for it, and no channel is used      *)
(* after it is gone.                                                       *)
(***************************************************************************)
EXTENDS SerfNumberProofs

-----------------------------------------------------------------------------
(* More on what steps do. *)

LEMMA DoneStays ==
  ASSUME TypeOK, OwnerInv, [Next]_vars, NEW c \in Calls, pc[c] = "done"
  PROVE  pc'[c] = "done"
<1>1. pc'[c] \notin {"idle", "handshake"} /\ pc'[c] \in CallPcs
  BY CallsKeptNext, NextType DEF CallsKept, TypeOK, ChannelTypeOK
<1>2. ASSUME NEW d \in Calls, Sends(d)
      PROVE  pc'[c] = "done"
  BY <1>2, SendsEntries
<1>3. CASE \A d \in Calls : OnStack(d)' => OnStack(d)
  BY <1>1, <1>3 DEF OnStack, CallPcs
<1> QED
  BY <1>2, <1>3, CallSteps

(* The listener is entered by produce only. *)
LEMMA CallbackSteps ==
  ASSUME TypeOK, OwnerInv, [Next]_vars, ioPc' = "callback"
  PROVE  UNCHANGED <<ioPc, obj, channel, hdr>> \/ (IoStep /\ IoProduce)
<1>1. ASSUME NEW c \in Calls, Sends(c) \/ SendFails(c)
      PROVE  UNCHANGED <<ioPc, obj, channel, hdr>>
  BY <1>1 DEF Sends, SendFails, channelVars
<1>2. ASSUME NEW c \in Calls, Finish(c)
      PROVE  UNCHANGED <<ioPc, obj, channel, hdr>>
  BY <1>2
  DEF Finish, Consume, CheckPending, RemoveTimedOut, Register, Unlisten,
      ChannelStep, channelVars
<1>3. ASSUME NEW c \in Calls,
             ConnectFails(c) \/ ConnectOpens(c) \/ ConnectTerminates(c)
      PROVE  UNCHANGED <<ioPc, obj, channel, hdr>>
  BY <1>3 DEF ConnectFails, ConnectOpens, ConnectTerminates, channelVars
<1>4. ASSUME IoStep, ~IoProduce
      PROVE  UNCHANGED <<ioPc, obj, channel, hdr>>
  BY <1>4
  DEF IoStep, IoLoop, IoTop, IoExit, IoReceive, IoIdle, IoDrained, IoLookup,
      IoErase, IoNotify, IoCallbackReturn, IoDeregister, IoDangle, Dangle,
      IoBadSocket, NotProducing, BackToDrain
<1>5. CASE \/ Close \/ AgentStep \/ AgentCloses \/ UNCHANGED vars
           \/ \E t, c : SendKills(t, c)
  BY <1>5
  DEF Close, CloseBegin, CloseEnd, ListenerCloses, BackToDrain, AgentStep,
      AgentCloses, SendKills, vars, channelVars
<1> QED
  BY <1>1, <1>2, <1>3, <1>4, <1>5, MethodSends, HandshakeSends
  DEF Next, Connect

-----------------------------------------------------------------------------
(* Layer 6: a listener hears its own records. *)

LEMMA ListenerInvNumbers ==
  ASSUME Without({"earlyCall", "fdReuse"}), Basics, NumberInv,
         ListenerInv, [Next]_vars, NEW c \in Talking', NEW d \in Calls,
         OnStack(d)', seq'[d] = seq'[c]
  PROVE  d = c
<1> USE DEF Basics
<1>1. ASSUME NEW e \in Calls, Sends(e)
      PROVE  d = c
  <2>1. /\ c \in Talking \cup {e} /\ Talking \subseteq Calls
        /\ seq'[e] = m_seq /\ m_seq \in Nat
        /\ \A f \in Calls \ {e} : /\ seq'[f] = seq[f]
                                  /\ OnStack(f)' <=> OnStack(f)
    BY <1>1, SendsTalking, TransitType, SendsEntries
  <2>2. c # e => seq[c] < m_seq /\ seq[c] # m_seq
    BY <1>1, <2>1, SendsInOrder, SeqsNat
    DEF TransitInv, Talking, TypeOK, ChannelTypeOK
  <2>3. d # e => seq[d] < m_seq /\ seq[d] # m_seq
    <3>1. ~Stranded
      BY <1>1, SendsInOrder DEF Live, Stranded, IsConnected
    <3> QED
      BY <2>1, <3>1, SeqsNat DEF NumberInv, TypeOK, ChannelTypeOK
  <2> QED
    BY <2>1, <2>2, <2>3 DEF ListenerInv
<1>2. CASE \A e \in Calls : ~Sends(e)
  <2>1. OnStack(d) /\ c \in Talking /\ c \in Calls
    BY <1>2, CallSteps, TalkingSteps, TransitType
  <2>2. /\ pc[c] \notin {"idle", "handshake"}
        /\ pc[d] \notin {"idle", "handshake"}
    BY <2>1 DEF TransitInv, Talking, OnStack
  <2>3. seq'[c] = seq[c] /\ seq'[d] = seq[d]
    BY <2>1, <2>2, CallsKeptNext DEF CallsKept
  <2> QED
    BY <2>1, <2>3 DEF ListenerInv
<1> QED
  BY <1>1, <1>2

LEMMA ListenerInvEntries ==
  ASSUME Without({"earlyCall", "fdReuse"}), Basics, MatchInv, ListenerInv,
         [Next]_vars, NEW c \in Talking',
         m_channels'[seq'[c]].type \in ListenerTypes
  PROVE  m_channels'[seq'[c]].call = c /\ c \notin Due'
<1> USE DEF Basics
<1>1. ASSUME NEW d \in Calls, Sends(d)
      PROVE  m_channels'[seq'[c]].call = c /\ c \notin Due'
  <2>1. c # d
    BY <1>1, SendsEntries, NullTypes
  <2>2. c \in Talking /\ c \in Calls /\ Due' \subseteq Due \cup {d}
    BY <1>1, <2>1, SendsTalking, TransitType
  <2>3. seq[c] < m_seq /\ seq[c] \in Seqs
    BY <1>1, <2>2, SendsInOrder
    DEF TransitInv, Talking, TypeOK, ChannelTypeOK
  <2>4. seq[c] # m_seq
    BY <1>1, <2>3, SendsEntries, SeqsNat
  <2>5. seq'[c] = seq[c] /\ m_channels'[seq[c]] = m_channels[seq[c]]
    BY <1>1, <2>1, <2>2, <2>3, <2>4, SendsEntries
  <2> QED
    BY <2>1, <2>2, <2>5 DEF ListenerInv
<1>2. ASSUME \A d \in Calls : ~Sends(d)
      PROVE  /\ c \in Talking /\ c \in Calls /\ seq'[c] = seq[c]
             /\ seq[c] \in Seqs /\ Due' \subseteq Due
  <2>1. c \in Talking /\ c \in Calls /\ Due' \subseteq Due
    BY <1>2, TalkingSteps, TransitType
  <2>2. pc[c] \notin {"idle", "handshake"}
    BY <2>1 DEF TransitInv, Talking
  <2> QED
    BY <2>1, <2>2, CallsKeptNext DEF CallsKept, TypeOK, ChannelTypeOK
<1>3. ASSUME \A d \in Calls : ~Sends(d),
             m_channels'[seq[c]] \in {m_channels[seq[c]], Null}
      PROVE  m_channels'[seq'[c]].call = c /\ c \notin Due'
  BY <1>2, <1>3, NullTypes DEF ListenerInv
<1>4. ASSUME \A d \in Calls : ~Sends(d), NEW d \in Calls, Register(d)
      PROVE  m_channels'[seq'[c]].call = c /\ c \notin Due'
  <2>1. /\ reply[d].seq = seq[d] /\ seq[d] \in Seqs /\ reply[d].pending
        /\ OnStack(d)
    BY <1>4
    DEF Register, MapInv, AnswersKeepNumbers, OnStack, TypeOK, ChannelTypeOK
  <2>2. CASE seq[d] = seq[c]
    <3>1. d = c
      BY <1>2, <1>4, <2>1, <2>2 DEF ListenerInv
    <3>2. m_channels'[seq[c]].call = c
      BY <1>4, <2>1, <3>1, AddChannelEntries, NullTypes
      DEF Register, AnsweredSeq
    <3>3. c \notin Due
      BY <2>1, <3>1 DEF MatchInv
    <3> QED
      BY <1>2, <1>4, <3>2, <3>3
  <2>3. CASE seq[d] # seq[c]
    <3>1. m_channels'[seq[c]] = m_channels[seq[c]]
      BY <1>2, <1>4, <2>1, <2>3, AddChannelEntries DEF Register, AnsweredSeq
    <3> QED
      BY <1>3, <1>4, <3>1
  <2> QED
    BY <2>2, <2>3
<1>5. ASSUME \A d \in Calls : ~Sends(d), NEW s \in Seqs, RemoveChannel(s)
      PROVE  m_channels'[seq'[c]].call = c /\ c \notin Due'
  BY <1>2, <1>3, <1>5, RemoveChannelEntries
<1>6. ASSUME \A d \in Calls : ~Sends(d), IoErase
      PROVE  m_channels'[seq'[c]].call = c /\ c \notin Due'
  <2>1. m_channels'[seq[c]] \in {m_channels[seq[c]], Null}
    BY <1>2, <1>6 DEF IoErase, Erased, TypeOK, IoTypeOK
  <2> QED
    BY <1>3, <1>6, <2>1
<1>7. ASSUME \A d \in Calls : ~Sends(d), UNCHANGED m_channels
      PROVE  m_channels'[seq'[c]].call = c /\ c \notin Due'
  BY <1>3, <1>7
<1>8. CASE \E d \in Calls : Sends(d)
  BY <1>1, <1>8
<1>9. CASE \A d \in Calls : ~Sends(d)
  BY <1>4, <1>5, <1>6, <1>7, <1>9, EntrySteps DEF Removes
<1> QED
  BY <1>8, <1>9

LEMMA ListenerInvHand ==
  ASSUME Basics, Matches, ListenerInv, [Next]_vars,
         channel'.type \in ListenerTypes
  PROVE  /\ hdr'.kind = "header" /\ hdr'.what # "reply"
         /\ hdr'.call = channel'.call /\ pc'[channel'.call] = "done"
<1> USE DEF Basics
<1>1. CASE UNCHANGED <<channel, hdr>>
  <2>1. channel.call \in Calls
    BY <1>1, InHandRuns
  <2> QED
    BY <1>1, <2>1, DoneStays DEF ListenerInv
<1>2. CASE channel' = Null
  BY <1>2, NullTypes
<1>3. CASE IoLookup /\ ioPc' = "found"
  <2>1. /\ hdr'.kind = "header" /\ hdr'.call \in Talking
        /\ hdr' = Head(unpacker) /\ Head(unpacker) \in UnreadHeaders
        /\ hdr'.what = "reply" => hdr'.call \in Due
    BY <1>3, BodyIgnored DEF Matches
  <2>2. hdr'.seq = seq[hdr'.call] /\ hdr'.call \in Calls
    BY <2>1, TransitType DEF TransitInv, InTransit
  <2>3. channel' = m_channels[hdr'.seq] /\ hdr'.seq \in Seqs
        /\ UNCHANGED pc
    BY <1>3, LookupEffect
  <2>4. channel'.call = hdr'.call /\ hdr'.call \notin Due
    BY <2>1, <2>2, <2>3 DEF ListenerInv
  <2>5. pc[channel'.call] = "done"
    BY <2>3 DEF MapInv, ListenerEntries
  <2> QED
    BY <2>1, <2>3, <2>4, <2>5
<1> QED
  BY <1>1, <1>2, <1>3, HandSteps

LEMMA ListenerInvCallback ==
  ASSUME Basics, ListenerInv, [Next]_vars, ioPc' = "callback"
  PROVE  IF obj' = NoObject THEN channel'.type = "LOG" ELSE BodyOf(obj', hdr')
<1> USE DEF Basics
<1>1. CASE UNCHANGED <<ioPc, obj, channel, hdr>>
  BY <1>1 DEF ListenerInv
<1>2. CASE IoProduce
  <2>1. /\ channel.type # "REQUEST" /\ ioPc = "produce"
        /\ \/ channel.type = "LOG" /\ LogProduce
           \/ channel.type \in {"EVENT", "QUERY"} /\ EventProduce
    BY <1>2
    DEF IoProduce, Produce, ProduceHeader, ProduceData, ProduceThrows, Store,
        BackToDrain, QueryProduce
  <2>2. Expects(hdr, cmd)
    BY <2>1 DEF ListenerInv, ListenerTypes, Expects
  <2>3. unpacker # <<>> => BodyOf(Head(unpacker), hdr)
    BY <2>1, <2>2 DEF PairInv
  <2>4. UNCHANGED <<hdr, channel>>
        /\ \/ obj' = NoObject /\ channel.type = "LOG"
           \/ unpacker # <<>> /\ obj' = Head(unpacker)
    BY <1>2, <2>1 DEF LogProduce, EventProduce, Deliver, Discard, BackToDrain
  <2>5. ~BodyOf(NoObject, hdr)
    BY DEF BodyOf, NoObject
  <2> QED
    BY <2>3, <2>4, <2>5
<1> QED
  BY <1>1, <1>2, CallbackSteps

LEMMA ListenerInvNext ==
  ASSUME Without({"earlyCall", "fdReuse"}), Basics, NumberInv, Matches,
         ListenerInv, [Next]_vars
  PROVE  ListenerInv'
BY ListenerInvNumbers, ListenerInvEntries, ListenerInvHand,
   ListenerInvCallback DEF Matches, ListenerInv

LEMMA ListenerInvInit == Init => ListenerInv
<1> SUFFICES ASSUME Init PROVE ListenerInv
  OBVIOUS
<1>1. TypeOK /\ ThreadInv /\ m_thread # "running"
  BY InitType, ThreadInvInit DEF Init, IoInit
<1>2. Talking = {}
  BY <1>1, NothingInTransit DEF Talking
<1> QED
  BY <1>2, NullTypes DEF Init, ChannelInit, ListenerInv

(* The environments of layer 6. *)
Orderly == Without({"busyClose", "earlyCall", "fdReuse"})

LEMMA OrderlyIs ==
  ASSUME Orderly
  PROVE  Without({"busyClose"}) /\ Without({"earlyCall", "fdReuse"})
BY DEF Orderly, Without

(* If Close waits for the calls of other threads, nobody calls while       *)
(* Connect is in progress, and the number of a closed socket names no      *)
(* other file, no call in progress shares its number with anything else in *)
(* transit, and a listener's channel the I/O thread has found (processRpc) *)
(* is that of the record in hand, whose call has returned.                 *)
THEOREM ListenerCorrect ==
  Without({"busyClose", "earlyCall", "fdReuse"}) => (Spec => []ListenerInv)
<1> SUFFICES ASSUME Orderly PROVE Spec => []ListenerInv
  BY DEF Orderly
<1>1. Basics /\ NumberInv /\ Matches /\ ListenerInv /\ [Next]_vars
         => ListenerInv'
  BY OrderlyIs, ListenerInvNext
<1>2. Spec => []NumberInv /\ []Matches
  BY OrderlyIs, NumberCorrect, MatchesCorrect, PTL
<1> QED
  BY <1>1, <1>2, ListenerInvInit, BasicsCorrect, PTL DEF Spec

(* In the same environments, a listener is called only for its own         *)
(* records, with their bodies (LogChannel, EventChannel and                *)
(* QueryChannel::produce): not for those of an earlier listener with the   *)
(* same number, nor for an answer.                                         *)
THEOREM ListenersHearOwn ==
  Without({"busyClose", "earlyCall", "fdReuse"}) =>
     (Spec => []ListenerHearsOwn)
<1> SUFFICES ASSUME Orderly PROVE Spec => []ListenerHearsOwn
  BY DEF Orderly
<1>1. TypeOK /\ ListenerInv => ListenerHearsOwn
  BY DEF TypeOK, ChannelTypeOK, ListenerInv, ListenerHearsOwn, BodyOf
<1> QED
  BY <1>1, ListenerCorrect, TypeCorrect, PTL DEF Orderly

-----------------------------------------------------------------------------
(* Layer 7: the numbers that Stop may name. *)

(* The connection changes when Connect opens a new one. *)
LEMMA ConnectionSteps ==
  ASSUME TypeOK, ThreadInv, OwnerInv, [Next]_vars
  PROVE  /\ SameConnection \/ ~Live' \/ \E c \in Calls : ConnectOpens(c)
         /\ Joinable => Joinable' \/ CloseEnd
<1>1. ASSUME NEW c \in Calls, Sends(c)
      PROVE  SameConnection /\ UNCHANGED m_thread
  <2>1. UNCHANGED m_thread /\ (Live' => Live)
        /\ m_seq \in Nat /\ m_seq' = m_seq + 1
    BY <1>1, SendsEffect DEF Sends
  <2>2. m_seq' \in Nat /\ m_seq <= m_seq'
    BY <2>1
  <2> QED
    BY <2>1, <2>2 DEF SameConnection
<1>2. ASSUME NEW c \in Calls, SendFails(c)
      PROVE  SameConnection /\ UNCHANGED m_thread
  BY <1>2, SeqsNat DEF SendFails, SameConnection, Live
<1>3. ASSUME UNCHANGED <<m_socket, m_seq, m_thread>>
      PROVE  SameConnection /\ UNCHANGED m_thread
  BY <1>3, SameConnectionKept
<1>4. ASSUME NEW c \in Calls, Finish(c)
      PROVE  SameConnection /\ UNCHANGED m_thread
  BY <1>3, <1>4
  DEF Finish, Consume, CheckPending, RemoveTimedOut, Register, Unlisten,
      ChannelStep, ioVars
<1>5. ASSUME NEW c \in Calls, ConnectFails(c)
      PROVE  ~Live' /\ UNCHANGED m_thread
  BY <1>5 DEF ConnectFails, Live
<1>6. ASSUME NEW c \in Calls, ConnectTerminates(c)
      PROVE  SameConnection /\ UNCHANGED m_thread
  BY <1>3, <1>6 DEF ConnectTerminates, ioVars
<1>7. ASSUME IoStep
      PROVE  SameConnection /\ (Joinable => Joinable')
  <2>1. SameConnection
    BY <1>7, IoNothingNew DEF SameConnection, TypeOK, IoTypeOK
  <2>2. m_thread' = "exited" \/ UNCHANGED m_thread
    BY <1>7
    DEF IoStep, IoLoop, IoTop, IoExit, IoReceive, IoIdle, IoDrained, IoLookup,
        IoErase, IoProduce, IoNotify, IoCallbackReturn, IoDeregister,
        IoDangle, IoBadSocket, IoUnchanged
  <2> QED
    BY <2>1, <2>2 DEF Joinable
<1>8. ASSUME CloseEnd
      PROVE  ~Live'
  BY <1>8 DEF CloseEnd, IsConnected, ThreadInv, Live
<1>9. ASSUME \/ CloseBegin \/ AgentStep \/ UNCHANGED vars
             \/ \E t, c : SendKills(t, c)
      PROVE  SameConnection /\ UNCHANGED m_thread
  BY <1>3, <1>9 DEF CloseBegin, AgentStep, SendKills, vars, ioVars
<1>10. ASSUME AgentCloses
       PROVE  SameConnection /\ UNCHANGED m_thread
  BY <1>10 DEF AgentCloses, SameConnection, Live, TypeOK, IoTypeOK
<1>11. ASSUME NEW c \in Calls, ConnectOpens(c)
       PROVE  Joinable'
  BY <1>11 DEF ConnectOpens, Joinable
<1>12. ASSUME ListenerCloses
       PROVE  (SameConnection \/ ~Live') /\ UNCHANGED m_thread
  <2>1. UNCHANGED <<m_socket, m_thread>>
    BY <1>12 DEF ListenerCloses
  <2>2. IsConnected => UNCHANGED m_seq
    BY <1>12 DEF ListenerCloses
  <2> QED
    BY <1>3, <2>1, <2>2 DEF Live, IsConnected
<1>13. SameConnection \/ ~Live' \/ \E c \in Calls : ConnectOpens(c)
  BY <1>1, <1>2, <1>4, <1>5, <1>6, <1>7, <1>8, <1>9, <1>10, <1>12,
     MethodSends, HandshakeSends DEF Next, Connect, Close
<1>14. Joinable => Joinable' \/ CloseEnd
  BY <1>1, <1>2, <1>4, <1>5, <1>6, <1>7, <1>9, <1>10, <1>11, <1>12,
     MethodSends, HandshakeSends DEF Next, Connect, Close, Joinable
<1> QED
  BY <1>13, <1>14

LEMMA ActiveSteps ==
  ASSUME TypeOK, OwnerInv, [Next]_vars
  PROVE  \/ UNCHANGED active
         \/ \E c \in Calls : Register(c)
         \/ \E c \in Calls : ConnectOpens(c)
<1>1. ASSUME NEW c \in Calls, Sends(c) \/ SendFails(c)
      PROVE  UNCHANGED active
  BY <1>1 DEF Sends, SendFails
<1>2. ASSUME NEW c \in Calls, Finish(c), ~Register(c)
      PROVE  UNCHANGED active
  BY <1>2
  DEF Finish, Consume, CheckPending, RemoveTimedOut, Unlisten, clientVars
<1>3. CASE \/ Close \/ AgentStep \/ AgentCloses \/ IoStep \/ UNCHANGED vars
           \/ \E t, c : SendKills(t, c)
           \/ \E c : ConnectTerminates(c) \/ ConnectFails(c)
  BY <1>3
  DEF Close, CloseBegin, CloseEnd, ListenerCloses, AgentStep, AgentCloses,
      IoStep, SendKills, ConnectTerminates, ConnectFails, vars, clientVars
<1> QED
  BY <1>1, <1>2, <1>3, MethodSends, HandshakeSends DEF Next, Connect

(* What Register adds is the number of the call, which only the call has.  *)
LEMMA RegisterEffect ==
  ASSUME Basics, NumberInv, MatchInv, NEW c \in Calls, Register(c)
  PROVE  /\ OnStack(c) /\ pc[c] = "register" /\ cmd[c] \in ListenerCommands
         /\ seq[c] \in Seqs /\ c \notin Due
         /\ \A d \in Calls : OnStack(d) /\ seq[d] = seq[c] => d = c
         /\ active' = active \cup (IF cmd[c] = "query" THEN {} ELSE {seq[c]})
         /\ pc'[c] = "done" /\ \A d \in Calls \ {c} : pc'[d] = pc[d]
         /\ m_channels'[seq[c]].type \in ListenerTypes
         /\ m_channels'[seq[c]] = Listener(c, cmd[c])
         /\ \A s \in Seqs : s # seq[c] => m_channels'[s] = m_channels[s]
         /\ heap' = heap \cup {c}
         /\ UNCHANGED <<seq, cmd, arg, channel, hdr, ioPc, obj, m_seq,
                        m_socket, m_thread, agentVars, unpacker>>
<1> USE DEF Basics
<1>1. /\ OnStack(c) /\ pc[c] = "register" /\ cmd[c] \in ListenerCommands
      /\ reply[c].pending /\ reply[c].seq = seq[c] /\ seq[c] \in Seqs
  BY
  DEF Register, OwnerInv, MapInv, AnswersKeepNumbers, OnStack, TypeOK,
      ChannelTypeOK
<1>2. c \notin Due /\ \A d \in Calls : OnStack(d) /\ seq[d] = seq[c] => d = c
  BY <1>1 DEF MatchInv, NumberInv
<1>3. active' = active \cup (IF cmd[c] = "query" THEN {} ELSE {seq[c]})
  BY <1>1 DEF Register
<1>4. pc'[c] = "done" /\ \A d \in Calls \ {c} : pc'[d] = pc[d]
  BY DEF Register, Return, TypeOK, ChannelTypeOK
<1>5. /\ m_channels'[seq[c]] = Listener(c, cmd[c])
      /\ m_channels'[seq[c]].type \in ListenerTypes
      /\ \A s \in Seqs : s # seq[c] => m_channels'[s] = m_channels[s]
  BY <1>1, AddChannelEntries, NullTypes DEF Register, AnsweredSeq
<1>6. heap' = heap \cup {c}
  BY NullTypes DEF Register, AddChannel
<1>7. UNCHANGED <<seq, cmd, arg, channel, hdr, ioPc, obj, m_seq, m_socket,
                  m_thread, agentVars, unpacker>>
  BY DEF Register, ChannelStep
<1> QED
  BY <1>1, <1>2, <1>3, <1>4, <1>5, <1>6, <1>7

LEMMA ActiveInvBounds ==
  ASSUME Basics, NumberInv, MatchInv, ActiveInv, [Next]_vars, Live',
         NEW s \in active'
  PROVE  s < m_seq'
<1> USE DEF Basics
<1>1. m_seq \in Nat /\ s \in Nat
  <2>1. active' \subseteq Seqs
    BY NextType DEF TypeOK
  <2> QED
    BY <2>1, SeqsNat DEF TypeOK, IoTypeOK
<1>2. ASSUME NEW c \in Calls, Register(c)
      PROVE  s < m_seq'
  <2>1. Live /\ m_seq' = m_seq /\ OnStack(c) /\ (s \in active \/ s = seq[c])
    BY <1>2, RegisterEffect DEF Live
  <2>2. ~Stranded
    BY <2>1 DEF Live, Stranded, IsConnected
  <2> QED
    BY <2>1, <2>2 DEF ActiveInv, NumberInv
<1>3. ASSUME NEW c \in Calls, ConnectOpens(c)
      PROVE  FALSE
  BY <1>3 DEF ConnectOpens
<1>4. CASE active' = active /\ SameConnection
  <2>1. Live /\ s < m_seq /\ m_seq' \in Nat /\ m_seq <= m_seq'
    BY <1>4 DEF SameConnection, ActiveInv
  <2> QED
    BY <1>1, <2>1
<1> QED
  BY <1>2, <1>3, <1>4, ActiveSteps, ConnectionSteps

LEMMA ActiveInvCalls ==
  ASSUME Without({"earlyCall", "fdReuse"}), Without({"anyStop"}),
         Basics, NumberInv, MatchInv, ActiveInv, [Next]_vars,
         NEW c \in Calls, OnStack(c)'
  PROVE  /\ seq'[c] \notin active'
         /\ cmd'[c] = "stop" => arg'[c] \in active'
         /\ Joinable'
<1> USE DEF Basics
<1>1. ASSUME NEW d \in Calls, Sends(d)
      PROVE  /\ seq'[c] \notin active'
             /\ cmd'[c] = "stop" => arg'[c] \in active'
             /\ Joinable'
  <2>1. active' = active /\ Live /\ Joinable'
    BY <1>1, SendsInOrder DEF Sends, ThreadInv, Joinable
  <2>2. CASE c = d
    <3>1. seq'[c] = m_seq /\ m_seq \in Nat /\ seq'[c] \notin active'
      BY <1>1, <2>1, <2>2, SendsEntries DEF ActiveInv
    <3>2. StopNumbers = active
      BY WithoutOne DEF StopNumbers
    <3>3. cmd'[c] = "stop" => arg'[c] \in active'
      BY <1>1, <2>1, <2>2, <3>2, SendsInOrder DEF Sends
    <3> QED
      BY <2>1, <3>1, <3>3
  <2>3. CASE c # d
    <3>1. OnStack(c) /\ seq'[c] = seq[c]
      BY <1>1, <2>3, SendsEntries
    <3>2. cmd'[c] = cmd[c] /\ arg'[c] = arg[c]
      BY <1>1, <2>3 DEF Sends, OthersKept
    <3> QED
      BY <2>1, <3>1, <3>2 DEF ActiveInv
  <2> QED
    BY <2>2, <2>3
<1>2. CASE \A d \in Calls : ~Sends(d)
  <2>1. OnStack(c)
    BY <1>2, CallSteps
  <2>2. seq'[c] = seq[c] /\ cmd'[c] = cmd[c] /\ arg'[c] = arg[c]
    BY <2>1, CallsKeptNext DEF CallsKept, OnStack
  <2>3. /\ seq[c] \notin active /\ Joinable
        /\ cmd[c] = "stop" => arg[c] \in active
    BY <2>1 DEF ActiveInv
  <2>4. Joinable'
    <3>1. CloseEnd => Stranded
      BY <2>1, ClosedIdle DEF OnStack
    <3>2. CloseEnd => Joinable'
      BY <3>1, <2>3 DEF CloseEnd, Stranded, Joinable
    <3> QED
      BY <2>3, <3>2, ConnectionSteps
  <2>5. ASSUME NEW d \in Calls, Register(d)
        PROVE  seq[c] \notin active' /\ (cmd[c] = "stop" => arg[c] \in active')
    <3>1. seq[c] # seq[d]
      <4>1. c # d
        BY <2>5, RegisterEffect DEF OnStack
      <4> QED
        BY <2>1, <2>5, <4>1, RegisterEffect
    <3>2. active' = active \cup (IF cmd[d] = "query" THEN {} ELSE {seq[d]})
      BY <2>5, RegisterEffect
    <3> QED
      BY <2>3, <3>1, <3>2
  <2>6. ASSUME NEW d \in Calls, ConnectOpens(d)
        PROVE  FALSE
    BY <2>3, <2>6 DEF ConnectOpens
  <2> QED
    BY <2>2, <2>3, <2>4, <2>5, <2>6, ActiveSteps
<1> QED
  BY <1>1, <1>2

LEMMA ActiveInvTalking ==
  ASSUME Without({"earlyCall", "fdReuse"}), Basics, NumberInv, MatchInv,
         ListenerInv, ActiveInv, [Next]_vars, NEW c \in Talking',
         seq'[c] \in active'
  PROVE  cmd'[c] \in {"monitor", "stream"} /\ c \notin Due'
<1> USE DEF Basics
<1>1. ASSUME NEW d \in Calls, Sends(d)
      PROVE  cmd'[c] \in {"monitor", "stream"} /\ c \notin Due'
  <2>1. active' = active /\ Live
    BY <1>1, SendsInOrder DEF Sends
  <2>2. c # d
    <3>1. seq'[d] = m_seq /\ m_seq \in Nat /\ m_seq \notin active
      BY <1>1, <2>1, SendsEntries DEF ActiveInv
    <3> QED
      BY <2>1, <3>1
  <2>3. c \in Talking /\ c \in Calls /\ Due' \subseteq Due \cup {d}
    BY <1>1, <2>2, SendsTalking, TransitType
  <2>4. seq'[c] = seq[c] /\ cmd'[c] = cmd[c]
    BY <1>1, <2>2, <2>3 DEF Sends, OthersKept
  <2> QED
    BY <2>1, <2>2, <2>3, <2>4 DEF ActiveInv
<1>2. CASE \A d \in Calls : ~Sends(d)
  <2>1. c \in Talking /\ c \in Calls /\ Due' \subseteq Due
    BY <1>2, TalkingSteps, TransitType
  <2>2. pc[c] \notin {"idle", "handshake"}
    BY <2>1 DEF TransitInv, Talking
  <2>3. seq'[c] = seq[c] /\ cmd'[c] = cmd[c]
    BY <2>1, <2>2, CallsKeptNext DEF CallsKept
  <2>4. CASE active' = active
    BY <2>1, <2>3, <2>4 DEF ActiveInv
  <2>5. ASSUME NEW d \in Calls, Register(d)
        PROVE  cmd'[c] \in {"monitor", "stream"} /\ c \notin Due'
    <3>1. CASE seq[c] = seq[d]
      <4>1. c = d
        BY <2>1, <2>5, <3>1, RegisterEffect DEF ListenerInv
      <4>2. c \notin Due /\ cmd[c] \in ListenerCommands
        BY <2>5, <4>1, RegisterEffect
      <4>3. CASE seq[c] \in active
        BY <2>1, <2>3, <4>3 DEF ActiveInv
      <4>4. CASE seq[c] \notin active
        <5>1. active' = active \cup (IF cmd[c] = "query" THEN {} ELSE {seq[c]})
          BY <2>5, <4>1, RegisterEffect
        <5>2. cmd[c] # "query"
          BY <2>3, <4>4, <5>1
        <5> QED
          BY <2>1, <2>3, <4>2, <5>2 DEF ListenerCommands
      <4> QED
        BY <4>3, <4>4
    <3>2. CASE seq[c] # seq[d]
      <4>1. active' = active \cup (IF cmd[d] = "query" THEN {} ELSE {seq[d]})
        BY <2>5, RegisterEffect
      <4>2. seq[c] \in active
        BY <2>3, <3>2, <4>1
      <4> QED
        BY <2>1, <2>3, <4>2 DEF ActiveInv
    <3> QED
      BY <3>1, <3>2
  <2>6. ASSUME NEW d \in Calls, ConnectOpens(d)
        PROVE  FALSE
    BY <2>6 DEF ConnectOpens
  <2> QED
    BY <2>4, <2>5, <2>6, ActiveSteps
<1> QED
  BY <1>1, <1>2

LEMMA ActiveInvNext ==
  ASSUME Without({"earlyCall", "fdReuse"}), Without({"anyStop"}),
         Basics, NumberInv, MatchInv, ListenerInv, ActiveInv, [Next]_vars
  PROVE  ActiveInv'
BY ActiveInvBounds, ActiveInvCalls, ActiveInvTalking DEF ActiveInv

(* An answer stays as it is. *)
LEMMA PendingStays ==
  ASSUME Basics, [Next]_vars, NEW c \in Calls, reply[c].pending
  PROVE  reply'[c] = reply[c]
<1> USE DEF Basics
<1>1. CASE IoProduce /\ channel.type = "REQUEST"
  <2>1. ~reply[channel.call].pending
    BY <1>1 DEF IoProduce, CallInv, AnswerInHand
  <2> QED
    BY <1>1, <2>1, StoreEffect
<1> QED
  BY <1>1, ReplySteps

(* A call waits on only if it waited before, or has just been sent. *)
LEMMA WaitingSteps ==
  ASSUME TypeOK, OwnerInv, [Next]_vars, NEW c \in Calls,
         pc'[c] \in {"wait", "check"}, \A d \in Calls : ~Sends(d)
  PROVE  pc[c] \in {"wait", "check"}
<1>1. ASSUME NEW d \in Calls, NEW p, pc' = [pc EXCEPT ![d] = p],
             MovesOn(pc[d], p)
      PROVE  pc[c] \in {"wait", "check"}
  BY <1>1 DEF MovesOn, TypeOK, ChannelTypeOK
<1> QED
  BY <1>1, CallMoves

(* The header in the hand of a listener's channel is that of a call which  *)
(* has returned, and no call in progress has its number.                   *)
LEMMA ListenerHand ==
  ASSUME Basics, ListenerInv, channel.type \in ListenerTypes
  PROVE  /\ hdr \in InHand /\ hdr.call = channel.call /\ hdr.call \in Talking
         /\ channel.call \in Calls /\ seq[channel.call] = hdr.seq
         /\ pc[channel.call] = "done" /\ hdr.what # "reply"
         /\ \A c \in Calls : OnStack(c) => seq[c] # hdr.seq
<1> USE DEF Basics
<1>1. /\ hdr.kind = "header" /\ hdr.call = channel.call
      /\ pc[channel.call] = "done" /\ hdr.what # "reply"
  BY DEF ListenerInv
<1>2. hdr \in InHand /\ hdr \in InTransit /\ channel.call \in Calls
  BY <1>1, InHandRuns DEF InHand, InTransit
<1>3. hdr.call \in Talking /\ seq[channel.call] = hdr.seq
  BY <1>1, <1>2 DEF Talking, TransitInv
<1>4. \A c \in Calls : OnStack(c) => seq[c] # hdr.seq
  BY <1>1, <1>3 DEF ListenerInv, OnStack
<1> QED
  BY <1>1, <1>2, <1>3, <1>4

(* Nothing takes the entry of a call that waits for an answer on its way.  *)
LEMMA WaitInvEntry ==
  ASSUME Basics, NumberInv, Matches, ListenerInv, ActiveInv, [Next]_vars,
         NEW c \in Calls, pc[c] \in {"wait", "check"}, c \in Due,
         \A d \in Calls : ~Sends(d)
  PROVE  m_channels'[seq[c]] = m_channels[seq[c]]
<1> USE DEF Basics
<1>1. OnStack(c) /\ seq[c] \in Seqs
  BY DEF OnStack, TypeOK, ChannelTypeOK
<1>2. ASSUME NEW d \in Calls, Register(d)
      PROVE  m_channels'[seq[c]] = m_channels[seq[c]]
  <2>1. seq[c] # seq[d]
    BY <1>1, <1>2, RegisterEffect DEF Matches
  <2> QED
    BY <1>1, <1>2, <2>1, RegisterEffect DEF Matches
<1>3. ASSUME NEW s \in Seqs, Removes(s)
      PROVE  s # seq[c]
  <2>1. ASSUME NEW d \in Calls, RemoveTimedOut(d), s = seq[d]
        PROVE  s # seq[c]
    <3>1. OnStack(d) /\ d # c
      BY <2>1 DEF RemoveTimedOut, OnStack
    <3> QED
      BY <1>1, <2>1, <3>1 DEF NumberInv
  <2>2. ASSUME NEW d \in Calls, Unlisten(d), s = arg[d]
        PROVE  s # seq[c]
    <3>1. OnStack(d) /\ cmd[d] = "stop"
      BY <2>2 DEF Unlisten, OnStack, OwnerInv
    <3> QED
      BY <1>1, <2>2, <3>1 DEF ActiveInv
  <2>3. ASSUME IoDeregister, s = hdr.seq
        PROVE  s # seq[c]
    <3>1. channel.type \in ListenerTypes
      BY <2>3 DEF IoDeregister, TypeOK, ChannelTypeOK
    <3> QED
      BY <1>1, <2>3, <3>1, ListenerHand
  <2> QED
    BY <1>3, <2>1, <2>2, <2>3 DEF Removes
<1>4. ASSUME NEW s \in Seqs, Removes(s)
      PROVE  m_channels'[seq[c]] = m_channels[seq[c]]
  BY <1>1, <1>3, <1>4, RemoveChannelEntries DEF Removes
<1>5. ASSUME IoErase
      PROVE  m_channels'[seq[c]] = m_channels[seq[c]]
  <2>1. channel.type = "REQUEST" => hdr.call = channel.call
    BY DEF Matches, MatchInv
  <2>2. channel.type = "REQUEST" => channel.call # c
    BY <2>1 DEF OrderInv
  <2>3. channel.type = "REQUEST" => hdr.seq # seq[c]
    BY <1>1, <2>2 DEF NumberInv
  <2> QED
    BY <1>1, <1>5, <2>3 DEF IoErase, Erased, TypeOK, IoTypeOK
<1> QED
  BY <1>2, <1>4, <1>5, EntrySteps

LEMMA WaitInvNext ==
  ASSUME Without({"earlyCall", "fdReuse"}), Basics, NumberInv, Matches,
         ListenerInv, ActiveInv, WaitInv, [Next]_vars
  PROVE  WaitInv'
<1> USE DEF Basics
<1> SUFFICES ASSUME NEW c \in Due', Waiting(c)'
             PROVE  m_channels'[seq'[c]] = Request(c)
  BY DEF WaitInv
<1>1. ASSUME NEW d \in Calls, Sends(d)
      PROVE  m_channels'[seq'[c]] = Request(c)
  <2>1. CASE c = d
    BY <1>1, <2>1, SendsEntries
  <2>2. CASE c # d
    <3>1. c \in Due /\ c \in Talking /\ c \in Calls
      BY <1>1, <2>2, SendsTalking, TransitType
    <3>2. Waiting(c) /\ seq'[c] = seq[c]
      BY <1>1, <2>2, <3>1, SendsEntries DEF Waiting, Sends, channelVars
    <3>3. seq[c] < m_seq /\ seq[c] \in Seqs
      BY <1>1, <3>1, SendsInOrder
      DEF TransitInv, Talking, TypeOK, ChannelTypeOK
    <3>4. seq[c] # m_seq
      BY <1>1, <3>3, SendsEntries, SeqsNat
    <3> QED
      BY <1>1, <3>1, <3>2, <3>3, <3>4, SendsEntries DEF WaitInv
  <2> QED
    BY <2>1, <2>2
<1>2. CASE \A d \in Calls : ~Sends(d)
  <2>1. c \in Due /\ c \in Calls
    BY <1>2, TalkingSteps, TransitType
  <2>2. pc[c] \in {"wait", "check"} /\ ~reply[c].pending
    BY <1>2, <2>1, WaitingSteps, PendingStays DEF Waiting
  <2>3. seq'[c] = seq[c]
    BY <2>1, <2>2, CallsKeptNext DEF CallsKept
  <2> QED
    BY <1>2, <2>1, <2>2, <2>3, WaitInvEntry DEF WaitInv, Waiting
<1> QED
  BY <1>1, <1>2

(* The four invariants of layers 4 to 7, without the environments they     *)
(* exclude.                                                                *)
Tidy == Without({"busyClose", "earlyCall", "fdReuse", "anyStop"})

LEMMA TidyIs ==
  ASSUME Tidy
  PROVE  /\ Orderly /\ Without({"anyStop"})
         /\ Without({"busyClose"}) /\ Without({"earlyCall", "fdReuse"})
BY DEF Tidy, Orderly, Without

Channels == NumberInv /\ Matches /\ ListenerInv /\ ActiveInv /\ WaitInv

LEMMA ChannelsInit == Init => Channels
<1> SUFFICES ASSUME Init PROVE Channels
  OBVIOUS
<1>1. TypeOK /\ ThreadInv /\ m_thread # "running"
  BY InitType, ThreadInvInit DEF Init, IoInit
<1>2. InTransit = {} /\ requests = {} /\ UnreadHeaders = {}
  BY <1>1, NothingInTransit
<1>3. Talking = {} /\ Due = {}
  BY <1>2 DEF Talking, Due
<1>4. ActiveInv /\ WaitInv
  BY <1>3 DEF Init, ChannelInit, ActiveInv, WaitInv, OnStack
<1> QED
  BY <1>4, NumberInvInit, MatchesInit, ListenerInvInit DEF Channels

LEMMA ChannelsCorrect == Tidy => (Spec => []Channels)
<1> SUFFICES ASSUME Tidy PROVE Spec => []Channels
  OBVIOUS
<1>1. Basics /\ Channels /\ [Next]_vars => ActiveInv'
  BY TidyIs, ActiveInvNext DEF Channels, Matches
<1>2. Basics /\ Channels /\ [Next]_vars => WaitInv'
  BY TidyIs, WaitInvNext DEF Channels
<1>3. Spec => []NumberInv /\ []Matches /\ []ListenerInv
  BY TidyIs, NumberCorrect, MatchesCorrect, ListenerCorrect, PTL DEF Orderly
<1>4. Init => ActiveInv /\ WaitInv
  BY ChannelsInit DEF Channels
<1>5. NumberInv /\ Matches /\ ListenerInv /\ ActiveInv /\ WaitInv => Channels
  BY DEF Channels
<1> QED
  BY <1>1, <1>2, <1>3, <1>4, <1>5, BasicsCorrect, PTL DEF Spec

(* If, besides the conditions above, Stop is given numbers of the current  *)
(* connection only, the answer to a call that still waits finds the call's *)
(* channel under its number: no timeout, Stop or end of a query removes    *)
(* it, and no other call or listener is entered there.                     *)
THEOREM AnswersFindCallers ==
  Without({"busyClose", "earlyCall", "fdReuse", "anyStop"}) =>
     (Spec => []AnswerFindsCaller)
<1> SUFFICES ASSUME Tidy PROVE Spec => []AnswerFindsCaller
  BY DEF Tidy
<1>1. Basics /\ Channels => AnswerFindsCaller
  <2> SUFFICES ASSUME Basics, Channels, NEW o \in UnreadHeaders,
                      o.what = "reply", Waiting(o.call)
               PROVE  m_channels[o.seq] = Request(o.call)
    BY DEF AnswerFindsCaller
  <2>1. o.call \in Due /\ o.seq = seq[o.call]
    BY DEF Due, Basics, TransitInv, InTransit
  <2> QED
    BY <2>1 DEF Channels, WaitInv
<1> QED
  BY <1>1, ChannelsCorrect, BasicsCorrect, PTL

-----------------------------------------------------------------------------
(* Layer 8: after the answer to a Stop. *)

(* The number a Stop names is not that of a call whose answer is due.      *)
LEMMA StopNames ==
  ASSUME Basics, ActiveInv, NEW c \in Calls, Stopping(c)
  PROVE  /\ arg[c] \in active /\ arg[c] # seq[c]
         /\ \A r \in requests : r.seq # arg[c]
         /\ \A q \in subs : q.seq = arg[c] => q.cmd # "query"
<1> USE DEF Basics
<1>1. arg[c] \in active /\ arg[c] # seq[c]
  BY DEF ActiveInv, Stopping
<1>2. ASSUME NEW r \in requests PROVE r.seq # arg[c]
  <2>1. r.call \in Due /\ r.call \in Talking /\ r.seq = seq[r.call]
    BY TransitType DEF Due, TransitInv, InTransit
  <2> QED
    BY <1>1, <2>1 DEF ActiveInv
<1>3. ASSUME NEW q \in subs, q.seq = arg[c] PROVE q.cmd # "query"
  <2>1. q.call \in Talking /\ q.seq = seq[q.call] /\ q.cmd = cmd[q.call]
    BY DEF Talking, TransitInv, InTransit
  <2> QED
    BY <1>1, <1>3, <2>1 DEF ActiveInv
<1> QED
  BY <1>1, <1>2, <1>3

(* Steps that bring nothing into transit. *)
Subsides == /\ NothingNew /\ Piece(Incoming, Incoming')
            /\ hdr' \in {hdr, NoObject} \/ Decodes

LEMMA SubsidesOrNot ==
  ASSUME TypeOK, ThreadInv, OwnerInv, [Next]_vars
  PROVE  Subsides \/ AgentStep \/ \E c \in Calls : Sends(c)
<1>1. IoStep => Subsides
  BY IoIncoming, IoNothingNew DEF Subsides
<1>2. TrafficKept => Subsides
  BY TrafficKeptIncoming, TrafficKeptNothingNew DEF TrafficKept, Subsides
<1> QED
  BY <1>1, <1>2, TrafficSteps

LEMMA QuietKept ==
  ASSUME TypeOK, NothingNew, NEW s, Quiet(s)
  PROVE  Quiet(s)'
<1>1. subs' \subseteq subs /\ UnreadHeaders' \subseteq UnreadHeaders
      /\ InHand' \subseteq InHand \cup UnreadHeaders
  BY NothingNewHeaders DEF NothingNew
<1> QED
  BY <1>1 DEF Quiet

LEMMA QuietFromKept ==
  ASSUME TypeOK, TypeOK', NothingNew, NEW k \in Nat,
         k + Len(Incoming') <= Len(Incoming),
         \A i \in 1..Len(Incoming') : Incoming'[i] = Incoming[i + k],
         NEW i \in 1..Len(Incoming'), NEW s, QuietFrom(i + k, s)
  PROVE  QuietFrom(i, s)'
<1>1. Len(Incoming) \in Nat /\ Len(Incoming') \in Nat
  BY IncomingType, IncomingTypeNext
<1>2. ASSUME NEW j \in i..Len(Incoming'), Incoming'[j].kind = "header"
      PROVE  Incoming'[j].seq # s
  <2>1. j \in 1..Len(Incoming') /\ j + k \in (i + k)..Len(Incoming)
    BY <1>1
  <2> QED
    BY <1>2, <2>1 DEF QuietFrom
<1>3. \A q \in subs' : q.seq # s
  BY DEF QuietFrom, NothingNew
<1> QED
  BY <1>2, <1>3 DEF QuietFrom

(* Decoding the answer leaves the rest of what is on its way. *)
LEMMA QuietDecoded ==
  ASSUME TypeOK, TypeOK', NothingNew, Decodes, NEW c \in Calls, NEW s,
         Confirms(hdr', c),
         \A i \in 1..Len(Incoming) :
            Confirms(Incoming[i], c) => QuietFrom(i, s)
  PROVE  Quiet(s)'
<1>1. Incoming \in Seq(Object) /\ Len(Incoming) \in Nat
  BY IncomingType
<1>2. /\ Head(Incoming) = Incoming[1] /\ Head(Incoming) \in Object
      /\ 1 \in 1..Len(Incoming)
  BY <1>1, TailObjects DEF Decodes
<1>3. Confirms(Incoming[1], c) /\ hdr' = Incoming[1]
  BY <1>2, AsHeader DEF Confirms, IsReply, Decodes
<1>4. QuietFrom(1, s)
  BY <1>2, <1>3
<1>5. ASSUME NEW o \in Objects, o.kind = "header"
      PROVE  o.seq # s
  <2>1. PICK i : i \in 1..Len(Incoming) /\ Incoming[i] = o
    BY IncomingType
  <2> QED
    BY <1>4, <1>5, <2>1 DEF QuietFrom
<1>6. \A q \in subs' : q.seq # s
  BY <1>4 DEF QuietFrom, NothingNew
<1>7. \A h \in UnreadHeaders' : h.seq # s
  BY <1>5, NothingNewHeaders DEF UnreadHeaders, Objects
<1>8. \A h \in InHand' : h.seq # s
  <2>1. Incoming[1] \in Objects /\ Incoming[1].kind = "header"
    BY <1>2, <1>3, IncomingType DEF Confirms, IsReply
  <2> QED
    BY <1>3, <1>5, <2>1 DEF InHand
<1> QED
  BY <1>6, <1>7, <1>8 DEF Quiet

(* A call is stopping only if it was before, or has just been sent. *)
LEMMA StoppingSteps ==
  ASSUME TypeOK, OwnerInv, [Next]_vars, NEW c \in Calls, Stopping(c)',
         ~Sends(c)
  PROVE  Stopping(c) /\ UNCHANGED <<arg[c], seq[c], cmd[c]>>
<1>1. ASSUME NEW d \in Calls, Sends(d)
      PROVE  OnStack(c)
  <2>1. c # d
    BY <1>1
  <2> QED
    BY <1>1, <2>1, SendsEntries DEF Stopping
<1>2. OnStack(c)
  BY <1>1, CallSteps DEF Stopping
<1>3. UNCHANGED <<arg[c], seq[c], cmd[c]>>
  BY <1>2, CallsKeptNext DEF CallsKept, OnStack
<1> QED
  BY <1>2, <1>3 DEF Stopping

(* The answer in the I/O thread's hand is stored. *)
LEMMA StopStores ==
  ASSUME Basics, MatchInv, StopInv, [Next]_vars, NEW c \in Calls,
         Stopping(c), reply'[c].pending, ~reply'[c].err
  PROVE  Quiet(arg[c])
<1> USE DEF Basics
<1>1. CASE reply[c].pending
  BY <1>1, PendingStays DEF StopInv
<1>2. CASE ~reply[c].pending
  <2>1. IoProduce /\ channel.type = "REQUEST"
    BY <1>2, ReplySteps
  <2>2. c = channel.call /\ reply'[c].err = hdr.err
    BY <1>2, <2>1, StoreEffect
  <2>3. hdr.kind = "header" /\ hdr.call = c
    BY <2>1, <2>2 DEF MatchInv
  <2>4. hdr.what = "reply"
    BY <2>3 DEF TransitInv, InHand, Stopping, ListenerCommands
  <2>5. Confirms(hdr, c)
    BY <2>2, <2>3, <2>4 DEF Confirms, IsReply
  <2> QED
    BY <2>5 DEF StopInv
<1> QED
  BY <1>1, <1>2

(* What StopInv says of one call that stops number s. *)
StopsQuietly(c, s) ==
    /\ reply[c].pending /\ ~reply[c].err => Quiet(s)
    /\ Confirms(hdr, c) => Quiet(s)
    /\ \A i \in 1..Len(Incoming) : Confirms(Incoming[i], c) => QuietFrom(i, s)

LEMMA StopInvNextIs ==
  ASSUME \A c \in Calls : Stopping(c)' =>
            \E s : s = arg'[c] /\ StopsQuietly(c, s)'
  PROVE  StopInv'
BY DEF StopsQuietly, StopInv, Quiet, QuietFrom

LEMMA StopSubsides ==
  ASSUME Basics, TypeOK', MatchInv, StopInv, [Next]_vars, Subsides,
         NEW c \in Calls, Stopping(c), NEW s, s = arg[c]
  PROVE  StopsQuietly(c, s)'
<1> USE DEF Basics
<1>1. StopsQuietly(c, s)
  BY DEF StopInv, StopsQuietly
<1>2. Quiet(s) => Quiet(s)'
  BY QuietKept DEF Subsides
<1>3. reply'[c].pending /\ ~reply'[c].err => Quiet(s)'
  BY <1>2, StopStores
<1>4. ASSUME Confirms(hdr', c) PROVE Quiet(s)'
  <2>1. CASE hdr' = hdr
    BY <1>1, <1>2, <1>4, <2>1 DEF StopsQuietly
  <2>2. CASE hdr' = NoObject
    BY <1>4, <2>2, NoObjectFields DEF Confirms, IsReply
  <2>3. CASE Decodes
    BY <1>1, <1>4, <2>3, QuietDecoded DEF StopsQuietly, Subsides
  <2> QED
    BY <2>1, <2>2, <2>3 DEF Subsides
<1>5. ASSUME NEW i \in 1..Len(Incoming'), Confirms(Incoming'[i], c)
      PROVE  QuietFrom(i, s)'
  <2>1. Len(Incoming) \in Nat /\ Len(Incoming') \in Nat
    BY IncomingType, IncomingTypeNext
  <2>2. PICK k \in Nat : /\ k + Len(Incoming') <= Len(Incoming)
                         /\ \A j \in 1..Len(Incoming') :
                               Incoming'[j] = Incoming[j + k]
    BY DEF Subsides, Piece
  <2>3. i + k \in 1..Len(Incoming) /\ Incoming'[i] = Incoming[i + k]
    BY <2>1, <2>2
  <2>4. QuietFrom(i + k, s)
    BY <1>1, <1>5, <2>3 DEF StopsQuietly
  <2> QED
    BY <2>2, <2>4, QuietFromKept DEF Subsides
<1> QED
  BY <1>3, <1>4, <1>5 DEF StopsQuietly

(* The agent writes message t of r. *)
LEMMA StopMessage ==
  ASSUME TypeOK, NEW c \in Calls, NEW s, StopsQuietly(c, s),
         NEW r \in requests \cup subs,
         NEW w \in {"reply", "record", "done"}, NEW t,
         Message(r, w, t), wire' = wire \o t,
         r.seq # s \/ (w # "reply" /\ r \in subs),
         subs' \subseteq subs \/ (r.seq # s /\ subs' \subseteq subs \cup {r}),
         w = "reply" /\ r.call = c /\ ~t[1].err => \A q \in subs' : q.seq # s,
         UNCHANGED <<frameVars, channelVars>>
  PROVE  StopsQuietly(c, s)'
<1>1. UNCHANGED <<reply, unpacker, hdr>>
  BY DEF channelVars
<1>2. /\ t \in Seq(Object) /\ Incoming' = Incoming \o t
      /\ \A h \in UnreadHeaders' : \/ h \in UnreadHeaders
                                   \/ h.seq = r.seq
      /\ InHand' = InHand
  BY <1>1, MessageObjects
<1>3. /\ r \in RequestMessage
      /\ \A i \in 1..Len(t) : t[i].call = r.call /\ t[i].what = w
      /\ t[1].seq = r.seq /\ Len(t) \in {1, 2}
      /\ Len(t) = 2 => t[2].kind = "body"
  <2>1. r \in RequestMessage
    BY DEF TypeOK, AgentTypeOK
  <2> QED
    BY <2>1, MessageIs
<1>4. ASSUME \A q \in subs : q.seq # s
      PROVE  r.seq # s /\ \A q \in subs' : q.seq # s
  BY <1>4
<1>5. ASSUME Quiet(s) PROVE Quiet(s)'
  BY <1>2, <1>4, <1>5 DEF Quiet
<1>6. /\ Incoming \in Seq(Object) /\ Len(Incoming) \in Nat
      /\ Len(Incoming') = Len(Incoming) + Len(t)
      /\ \A i \in 1..Len(Incoming) + Len(t) :
            Incoming'[i] = IF i <= Len(Incoming) THEN Incoming[i]
                                                 ELSE t[i - Len(Incoming)]
  BY <1>2, IncomingType, ConcatObjects
<1>7. ASSUME r.seq # s, NEW j \in 1..Len(Incoming'), j > Len(Incoming),
             Incoming'[j].kind = "header"
      PROVE  Incoming'[j].seq # s
  <2>1. Incoming'[j] = t[j - Len(Incoming)] /\ j - Len(Incoming) \in {1, 2}
        /\ j - Len(Incoming) <= Len(t)
    BY <1>3, <1>6, <1>7
  <2> QED
    BY <1>3, <1>7, <2>1
<1>8. ASSUME NEW i \in 1..Len(Incoming), QuietFrom(i, s)
      PROVE  QuietFrom(i, s)'
  <2>1. r.seq # s /\ \A q \in subs' : q.seq # s
    BY <1>4, <1>8 DEF QuietFrom
  <2>2. ASSUME NEW j \in i..Len(Incoming'), Incoming'[j].kind = "header"
        PROVE  Incoming'[j].seq # s
    <3>1. CASE j <= Len(Incoming)
      <4>1. j \in i..Len(Incoming) /\ Incoming'[j] = Incoming[j]
        BY <1>6, <3>1
      <4> QED
        BY <1>8, <2>2, <4>1 DEF QuietFrom
    <3>2. CASE j > Len(Incoming)
      <4>1. j \in 1..Len(Incoming')
        BY <1>6, <3>2
      <4> QED
        BY <1>7, <2>1, <2>2, <3>2, <4>1
    <3> QED
      BY <1>6, <3>1, <3>2
  <2> QED
    BY <2>1, <2>2 DEF QuietFrom
<1>9. ASSUME NEW i \in 1..Len(Incoming'), Confirms(Incoming'[i], c)
      PROVE  QuietFrom(i, s)'
  <2>1. CASE i <= Len(Incoming)
    <3>1. i \in 1..Len(Incoming) /\ Incoming'[i] = Incoming[i]
      BY <1>6, <2>1
    <3> QED
      BY <1>8, <1>9, <3>1 DEF StopsQuietly
  <2>2. CASE i > Len(Incoming)
    <3>1. i - Len(Incoming) \in 1..Len(t)
          /\ Incoming'[i] = t[i - Len(Incoming)]
      BY <1>3, <1>6, <2>2
    <3>2. i - Len(Incoming) = 1
      <4>1. i - Len(Incoming) = 1 \/ (i - Len(Incoming) = 2 /\ Len(t) = 2)
        BY <1>3, <3>1
      <4>2. t[i - Len(Incoming)].kind = "header"
        BY <1>9, <3>1 DEF Confirms, IsReply
      <4> QED
        BY <1>3, <4>1, <4>2
    <3>3. w = "reply" /\ r.call = c /\ ~t[1].err
      BY <1>3, <1>9, <3>1, <3>2 DEF Confirms, IsReply
    <3>4. r.seq # s /\ \A q \in subs' : q.seq # s
      BY <3>3
    <3>5. ASSUME NEW j \in i..Len(Incoming'), Incoming'[j].kind = "header"
          PROVE  Incoming'[j].seq # s
      <4>1. j \in 1..Len(Incoming') /\ j > Len(Incoming)
        BY <1>3, <1>6, <2>2
      <4> QED
        BY <1>7, <3>4, <3>5, <4>1
    <3> QED
      BY <3>4, <3>5 DEF QuietFrom
  <2> QED
    BY <1>6, <2>1, <2>2
<1>10. /\ reply'[c].pending /\ ~reply'[c].err => Quiet(s)'
       /\ Confirms(hdr', c) => Quiet(s)'
  BY <1>1, <1>5 DEF StopsQuietly
<1> QED
  BY <1>9, <1>10 DEF StopsQuietly

LEMMA StopAgent ==
  ASSUME Without({"lateRecord"}), Basics, MatchInv, ActiveInv, StopInv,
         AgentStep, NEW c \in Calls, Stopping(c), NEW s, s = arg[c]
  PROVE  StopsQuietly(c, s)'
<1> USE DEF Basics
<1>1. StopsQuietly(c, s) /\ UNCHANGED <<frameVars, channelVars>>
  BY DEF StopInv, StopsQuietly, AgentStep
<1>2. CASE wire' = wire /\ requests' \subseteq requests /\ subs' = subs
  <2>1. UNCHANGED <<Incoming, UnreadHeaders, InHand, reply, hdr, subs>>
    BY <1>1, <1>2 DEF Incoming, UnreadHeaders, InHand, channelVars
  <2> QED
    BY <1>1, <2>1 DEF StopsQuietly, Quiet, QuietFrom
<1>3. ASSUME NEW r \in requests, Answered(r)
      PROVE  StopsQuietly(c, s)'
  <2>1. PICK t : /\ Message(r, "reply", t) /\ wire' = wire \o t
                 /\ t[1].err \/ \A q \in subs' : q = r \/ ~Closes(r, q)
    BY <1>3, Zenon DEF Answered
  <2>2. r.seq # s /\ subs' \subseteq subs \cup {r}
    BY <1>3, StopNames DEF Answered
  <2>3. ASSUME r.call = c, ~t[1].err, NEW q \in subs'
        PROVE  q.seq # s
    <3>1. CASE q = r
      BY <2>2, <3>1
    <3>2. CASE q # r
      <4>1. q \in subs /\ ~Closes(r, q)
        BY <2>1, <2>2, <2>3, <3>2
      <4>2. r.cmd = "stop" /\ r.arg = s /\ "lateRecord" \notin Faults
        BY <2>3, WithoutOne DEF TransitInv, Stopping
      <4>3. q.seq = s => q.cmd = "query"
        BY <4>1, <4>2 DEF Closes
      <4> QED
        BY <4>1, <4>3, StopNames
    <3> QED
      BY <3>1, <3>2
  <2> QED
    BY <1>1, <2>1, <2>2, <2>3, StopMessage
<1>4. ASSUME NEW q \in subs, Published(q)
      PROVE  StopsQuietly(c, s)'
  <2>1. PICK t, w : /\ w \in {"record", "done"}
                    /\ Message(q, w, t) /\ wire' = wire \o t
    BY <1>4, Zenon DEF Published
  <2>2. subs' \subseteq subs
    BY <1>4 DEF Published
  <2> QED
    BY <1>1, <2>1, <2>2, StopMessage
<1> QED
  BY <1>2, <1>3, <1>4, AgentEffect

LEMMA StopSends ==
  ASSUME Basics, StopInv, NEW d \in Calls, Sends(d),
         NEW c \in Calls, Stopping(c), c # d, NEW s, s = arg[c]
  PROVE  StopsQuietly(c, s)'
<1> USE DEF Basics
<1>1. UNCHANGED <<Incoming, UnreadHeaders, InHand, reply, hdr, subs>>
  BY SendsEffect DEF Sends, channelVars
<1> QED
  BY <1>1 DEF StopInv, StopsQuietly, Quiet, QuietFrom

(* A call that has just been sent has no answer yet. *)
LEMMA StopBegins ==
  ASSUME Basics, NEW c \in Calls, Sends(c), NEW s
  PROVE  StopsQuietly(c, s)'
<1> USE DEF Basics
<1>1. UNCHANGED <<Incoming, reply, hdr>>
  BY SendsEffect DEF Sends, channelVars
<1>2. pc[c] \in {"idle", "handshake"}
  BY DEF Sends
<1>3. ~reply[c].pending
  BY <1>2 DEF MapInv, AnswersKeepNumbers
<1>4. ~Confirms(hdr, c)
  BY <1>2, NoObjectFields, CallsAssumption DEF TransitInv, Confirms
<1>5. \A i \in 1..Len(Incoming) : ~Confirms(Incoming[i], c)
  <2>1. \A o \in Objects : o.call # c
    BY <1>2, ObjectsType DEF TransitInv, NoObject, Object
  <2> QED
    BY <2>1, IncomingType DEF Confirms
<1> QED
  BY <1>1, <1>3, <1>4, <1>5 DEF StopsQuietly

LEMMA StopInvNext ==
  ASSUME Without({"lateRecord"}), Basics, TypeOK', MatchInv, ActiveInv,
         StopInv, [Next]_vars
  PROVE  StopInv'
<1> USE DEF Basics
<1> SUFFICES ASSUME NEW c \in Calls, Stopping(c)'
             PROVE  \E s : s = arg'[c] /\ StopsQuietly(c, s)'
  BY StopInvNextIs
<1>1. PICK s : s = arg'[c]
  OBVIOUS
<1>2. CASE Sends(c)
  BY <1>1, <1>2, StopBegins
<1>3. CASE ~Sends(c)
  <2>1. Stopping(c) /\ s = arg[c]
    BY <1>1, <1>3, StoppingSteps
  <2>2. ASSUME NEW d \in Calls, Sends(d) PROVE StopsQuietly(c, s)'
    BY <1>3, <2>1, <2>2, StopSends
  <2> QED
    BY <1>1, <2>1, <2>2, StopSubsides, StopAgent, SubsidesOrNot
<1> QED
  BY <1>2, <1>3

(* The environments of StopInv. *)
Quieting == Without({"busyClose", "earlyCall", "fdReuse", "anyStop",
                     "lateRecord"})

LEMMA QuietingIs ==
  ASSUME Quieting
  PROVE  Tidy /\ Without({"lateRecord"})
BY DEF Quieting, Tidy, Without

LEMMA StopInvInit == Init => StopInv
BY DEF Init, ChannelInit, StopInv, Stopping, OnStack

(* If, besides the conditions above, the agent sends no record of a stream *)
(* after its answer to the Stop, nothing under the number that Stop names  *)
(* follows that answer: when it is decoded, and until SerfClient::Stop has *)
(* removed the listener, the I/O thread has none of its records in hand.   *)
THEOREM StopCorrect ==
  Without({"busyClose", "earlyCall", "fdReuse", "anyStop",
           "lateRecord"}) => (Spec => []StopInv)
<1> SUFFICES ASSUME Quieting PROVE Spec => []StopInv
  BY DEF Quieting
<1>1. Basics /\ Basics' /\ Channels /\ StopInv /\ [Next]_vars => StopInv'
  BY QuietingIs, StopInvNext DEF Basics, Channels, Matches
<1>2. Spec => []Channels
  BY QuietingIs, ChannelsCorrect
<1> QED
  BY <1>1, <1>2, StopInvInit, BasicsCorrect, PTL DEF Spec

(* A listener channel in the I/O thread's hand is deleted by the end of    *)
(* its query only.                                                         *)
LEMMA HeldChannelStays ==
  ASSUME Basics, Channels, StopInv, [Next]_vars,
         channel.type \in ListenerTypes, channel.call \in heap
  PROVE  channel.call \in heap' \/ IoDeregister
<1> USE DEF Basics
<1>1. /\ hdr \in InHand /\ seq[channel.call] = hdr.seq
      /\ \A c \in Calls : OnStack(c) => seq[c] # hdr.seq
  BY ListenerHand DEF Channels
<1>2. ASSUME NEW c \in Calls, Sends(c) \/ Register(c)
      PROVE  channel.call \in heap'
  BY <1>2, RegisterEffect DEF Sends, channelVars, Channels, Matches
<1>3. ASSUME NEW s \in Seqs, Removes(s), channel.call \notin heap'
      PROVE  IoDeregister
  <2>1. /\ m_channels[s].type \in ListenerTypes
        /\ m_channels[s].call = channel.call
    BY <1>3 DEF Removes, RemoveChannel
  <2>2. s = hdr.seq
    BY <1>1, <2>1 DEF MapInv, ListenerEntries
  <2>3. ASSUME NEW c \in Calls, RemoveTimedOut(c), s = seq[c]
        PROVE  FALSE
    BY <1>1, <2>2, <2>3 DEF RemoveTimedOut, OnStack
  <2>4. ASSUME NEW c \in Calls, Unlisten(c), s = arg[c]
        PROVE  FALSE
    <3>1. Stopping(c) /\ reply[c].pending /\ ~reply[c].err
      BY <2>4 DEF Unlisten, Stopping, OnStack, OwnerInv, CallInv, CallProgress
    <3>2. Quiet(s)
      BY <2>4, <3>1 DEF StopInv
    <3> QED
      BY <1>1, <2>2, <3>2 DEF Quiet
  <2> QED
    BY <1>3, <2>3, <2>4 DEF Removes
<1>4. IoErase => heap' = heap
  BY DEF IoErase, NotProducing
<1> QED
  BY <1>2, <1>3, <1>4, EntrySteps

(* In the same environments, no listener channel is deleted, by Stop or by *)
(* a call that gives up, while the I/O thread has it in hand or is inside  *)
(* its listener (removeChannel against processRpc).                        *)
THEOREM DeletedOutOfUse ==
  Without({"busyClose", "earlyCall", "fdReuse", "anyStop",
           "lateRecord"}) => (Spec => DeletedNotInUse)
<1> SUFFICES ASSUME Quieting PROVE Spec => DeletedNotInUse
  BY DEF Quieting
<1>1. Basics /\ Channels /\ StopInv /\ [Next]_vars =>
         [\A c \in heap \ heap' :
             ~(/\ ioPc \in {"found", "produce", "callback"}
               /\ channel = Listener(c, cmd[c]))]_vars
  <2> SUFFICES ASSUME Basics, Channels, StopInv, [Next]_vars,
                      NEW c \in heap \ heap',
                      ioPc \in {"found", "produce", "callback"},
                      channel = Listener(c, cmd[c])
               PROVE  FALSE
    OBVIOUS
  <2>1. channel.type \in ListenerTypes /\ channel.call = c
    BY NullTypes
  <2>2. IoDeregister
    BY <2>1, HeldChannelStays
  <2> QED
    BY <2>2 DEF IoDeregister
<1>2. Spec => []Channels /\ []StopInv
  BY QuietingIs, ChannelsCorrect, StopCorrect, PTL DEF Quieting
<1> QED
  BY <1>1, <1>2, BasicsCorrect, PTL DEF Spec, DeletedNotInUse

-----------------------------------------------------------------------------
(* Layer 9: no channel is used after its frame returned or it was deleted. *)

(* A call that was sent moves on by steps of its own only. *)
LEMMA FinishSteps ==
  ASSUME TypeOK, OwnerInv, [Next]_vars, NEW c \in Calls, OnStack(c),
         pc'[c] # pc[c]
  PROVE  Finish(c)
<1>1. ASSUME NEW d \in Calls, Sends(d) \/ SendFails(d)
      PROVE  FALSE
  <2>1. c # d
    BY <1>1 DEF Sends, SendFails, OnStack
  <2> QED
    BY <1>1, <2>1 DEF Sends, SendFails, OthersKept
<1>2. ASSUME NEW d \in Calls, Finish(d)
      PROVE  Finish(c)
  <2>1. CASE c # d
    <3>1. pc'[c] = pc[c]
      BY <1>2, <2>1
      DEF Finish, Consume, CheckPending, AfterReply, AfterTimeout,
          RemoveTimedOut, Register, Unlisten, Return, TypeOK, ChannelTypeOK
    <3> QED
      BY <3>1
  <2> QED
    BY <1>2, <2>1
<1>3. ASSUME NEW d \in Calls,
             ConnectFails(d) \/ ConnectOpens(d) \/ ConnectTerminates(d)
      PROVE  FALSE
  <2>1. pc[d] = "idle"
    BY <1>3
    DEF ConnectFails, ConnectOpens, ConnectTerminates, MayConnect, Fresh
  <2>2. pc'[c] = pc[c]
    BY <1>3, <2>1
    DEF ConnectFails, ConnectOpens, ConnectTerminates, Return, frameVars,
        OnStack, TypeOK, ChannelTypeOK
  <2> QED
    BY <2>2
<1>4. CASE \/ Close \/ AgentStep \/ AgentCloses \/ IoStep \/ UNCHANGED vars
           \/ \E t, d : SendKills(t, d)
  <2>1. pc' = pc
    BY <1>4
    DEF Close, CloseBegin, CloseEnd, ListenerCloses, AgentStep, AgentCloses,
        SendKills, IoStep, IoLoop, IoTop, IoExit, IoReceive, IoIdle,
        IoDrained, IoLookup, IoErase, IoProduce, IoNotify, IoCallbackReturn,
        IoDeregister, IoDangle, IoBadSocket, vars, frameVars
  <2> QED
    BY <2>1
<1> QED
  BY <1>1, <1>2, <1>3, <1>4, MethodSends, HandshakeSends DEF Next, Connect

(* A wait ends in Consume only. *)
LEMMA WaitEnds ==
  ASSUME TypeOK, OwnerInv, [Next]_vars, NEW c \in Calls, pc[c] = "wait",
         pc'[c] # "wait"
  PROVE  Consume(c)
<1>1. Finish(c)
  BY FinishSteps DEF OnStack
<1> QED
  BY <1>1 DEF Finish, CheckPending, RemoveTimedOut, Register, Unlisten

(* The I/O thread comes to a channel by a lookup only. *)
LEMMA FoundSteps ==
  ASSUME TypeOK, OwnerInv, [Next]_vars, ioPc' \in {"found", "produce"}
  PROVE  \/ ioPc \in {"found", "produce"} /\ UNCHANGED <<hdr, channel>>
         \/ IoStep /\ IoLookup /\ ioPc' = "found"
<1>1. ASSUME NEW c \in Calls, Sends(c) \/ SendFails(c)
      PROVE  UNCHANGED <<ioPc, channel, hdr>>
  BY <1>1 DEF Sends, SendFails, channelVars
<1>2. ASSUME NEW c \in Calls, Finish(c)
      PROVE  UNCHANGED <<ioPc, channel, hdr>>
  BY <1>2
  DEF Finish, Consume, CheckPending, RemoveTimedOut, Register, Unlisten,
      ChannelStep, channelVars
<1>3. ASSUME NEW c \in Calls,
             ConnectFails(c) \/ ConnectOpens(c) \/ ConnectTerminates(c)
      PROVE  UNCHANGED <<ioPc, channel, hdr>>
  BY <1>3 DEF ConnectFails, ConnectOpens, ConnectTerminates, channelVars
<1>4. ASSUME IoStep, ~IoProduce, ~IoLookup
      PROVE  ioPc \in {"found", "produce"} /\ UNCHANGED <<hdr, channel>>
  BY <1>4
  DEF IoStep, IoLoop, IoTop, IoExit, IoReceive, IoIdle, IoDrained,
      IoErase, IoNotify, IoCallbackReturn, IoDeregister, IoDangle, Dangle,
      IoBadSocket, NotProducing, BackToDrain, TypeOK, IoTypeOK
<1>5. ~IoProduce
  BY DEF IoProduce, Produce, ProduceHeader, ProduceData, ProduceThrows, Store,
         LogProduce, EventProduce, QueryProduce, Deliver, Discard, BackToDrain
<1>6. IoLookup => ioPc' = "found"
  BY DEF IoLookup
<1>7. CASE \/ Close \/ AgentStep \/ AgentCloses \/ UNCHANGED vars
           \/ \E t, c : SendKills(t, c)
  BY <1>7
  DEF Close, CloseBegin, CloseEnd, ListenerCloses, BackToDrain, AgentStep,
      AgentCloses, SendKills, vars, channelVars
<1> QED
  BY <1>1, <1>2, <1>3, <1>4, <1>5, <1>6, <1>7, MethodSends, HandshakeSends
  DEF Next, Connect

LEMMA AnswerDueIs ==
  ASSUME TypeOK, NEW c \in Calls
  PROVE  AnswerDue(c) <=> \/ c \in Due
                          \/ /\ ioPc \in {"found", "produce"}
                             /\ hdr.call = c /\ hdr.what = "reply"
<1>1. wire \in Seq(Object) /\ unpacker \in Seq(Object)
  BY IncomingType
<1>2. Objects = Range(wire) \cup Range(unpacker)
  BY DEF Objects
<1>3. c \in Due <=> \/ \E r \in requests : r.call = c
                    \/ \E o \in Range(wire) \cup Range(unpacker) :
                          o.kind = "header" /\ o.what = "reply" /\ o.call = c
  BY DEF Due, UnreadHeaders
<1>4. ASSUME NEW s \in Seq(Object)
      PROVE  (\E o \in Range(s) :
                 o.kind = "header" /\ o.what = "reply" /\ o.call = c)
             <=> \E i \in 1..Len(s) :
                    s[i].kind = "header" /\ s[i].call = c /\ s[i].what = "reply"
  BY RangeIs
<1> QED
  BY <1>1, <1>3, <1>4 DEF AnswerDue

AnswersDue == \A c \in Calls :
                 AnswerDue(c) => \/ c \in Due
                                 \/ /\ ioPc \in {"found", "produce"}
                                    /\ hdr.call = c /\ hdr.what = "reply"

LEMMA AnswersDueNext == TypeOK' => AnswersDue'
<1>1. TypeOK => AnswersDue
  BY AnswerDueIs DEF AnswersDue
<1> QED
  BY <1>1, PTL

Patience == Without({"busyClose", "earlyCall", "fdReuse", "anyStop",
                     "lateRecord", "lateAnswer", "reentrant",
                     "earlyRecord"})

LEMMA PatienceIs ==
  ASSUME Patience
  PROVE  /\ Quieting /\ "lateAnswer" \notin Faults
         /\ "reentrant" \notin Faults /\ "earlyRecord" \notin Faults
BY DEF Patience, Quieting, Without

LEMMA IoThreadFree ==
  ASSUME TypeOK, OwnerInv, "reentrant" \notin Faults, ~Busy(IoThread),
         [Next]_vars
  PROVE  ~Busy(IoThread)'
<1>1. ASSUME NEW c \in Calls, NEW t, t # IoThread,
             UNCHANGED owner \/ owner' = [owner EXCEPT ![c] = t]
      PROVE  ~Busy(IoThread)'
  BY <1>1 DEF Busy, TypeOK
<1>2. ASSUME NEW c \in Calls, NEW r, Return(c, r)
      PROVE  ~Busy(IoThread)'
  BY <1>1, <1>2, ThreadsAssumption DEF Return
<1>3. ASSUME NEW t, NEW c \in Calls, NEW k, NEW a, Call(t, c, k, a)
      PROVE  ~Busy(IoThread)'
  <2>1. t # IoThread
    BY <1>3 DEF Call, MayCall
  <2> QED
    BY <1>1, <1>2, <1>3, <2>1 DEF Call
<1>4. ASSUME NEW t, NEW c \in Calls, RpcMethod(t, c)
      PROVE  ~Busy(IoThread)'
  BY <1>3, <1>4, RpcMethodCalls
<1>5. ASSUME NEW c \in Calls, Finish(c)
      PROVE  ~Busy(IoThread)'
  BY <1>1, <1>2, <1>5, ThreadsAssumption
  DEF Finish, Consume, CheckPending, AfterReply, AfterTimeout, RemoveTimedOut,
      Register, Unlisten, clientVars
<1>6. ASSUME NEW c \in Calls, Connect(c)
      PROVE  ~Busy(IoThread)'
  BY <1>1, <1>2, <1>6, ThreadsAssumption
  DEF Connect, ConnectFails, ConnectOpens, ConnectTerminates, Handshake,
      clientVars
<1>7. CASE \/ Close \/ AgentStep \/ AgentCloses \/ IoStep \/ UNCHANGED vars
           \/ \E t, d : SendKills(t, d)
  BY <1>7
  DEF Busy, Close, CloseBegin, CloseEnd, ListenerCloses, AgentStep,
      AgentCloses, SendKills, IoStep, vars, clientVars
<1> QED
  BY <1>4, <1>5, <1>6, <1>7 DEF Next

(* A call gives up only when no answer is on its way to it. *)
LEMMA GivesUpInTime ==
  ASSUME Patience, Basics, Matches, PatienceInv, [Next]_vars, NEW c \in Calls,
         pc'[c] \in {"check", "remove"}, ~reply'[c].pending
  PROVE  ~AnswerDue(c)'
<1> USE DEF Basics
<1>1. ~Sends(c)
  BY SendsEntries
<1>2. ~reply[c].pending
  BY PendingStays
<1>3. ~AnswerDue(c)
  <2>1. pc[c] \in {"wait", "check", "remove"}
    <3>1. ASSUME NEW d \in Calls, Sends(d) PROVE pc[c] \in {"check", "remove"}
      BY <1>1, <3>1, SendsEntries
    <3>2. ASSUME NEW d \in Calls, NEW p, pc' = [pc EXCEPT ![d] = p],
                 MovesOn(pc[d], p)
          PROVE  pc[c] \in {"wait", "check", "remove"}
      BY <3>2 DEF MovesOn, TypeOK, ChannelTypeOK
    <3> QED
      BY <3>1, <3>2, CallMoves
  <2>2. CASE pc[c] = "wait"
    <3>1. Consume(c)
      BY <2>2, WaitEnds
    <3>2. TimesOut(c)
      BY <1>2, <3>1 DEF Consume, ConsumeReturns
    <3> QED
      BY <3>2, PatienceIs DEF TimesOut, PatienceInv
  <2>3. CASE pc[c] \in {"check", "remove"}
    BY <1>2, <2>3 DEF PatienceInv
  <2> QED
    BY <2>1, <2>2, <2>3
<1>4. c \notin Due
  BY <1>3, AnswerDueIs
<1>5. c \notin Due'
  BY <1>1, <1>4, TalkingSteps
<1>6. ~(ioPc' \in {"found", "produce"} /\ hdr'.call = c /\ hdr'.what = "reply")
  <2> SUFFICES ASSUME ioPc' \in {"found", "produce"}, hdr'.call = c,
                      hdr'.what = "reply"
               PROVE  FALSE
    OBVIOUS
  <2>1. CASE ioPc \in {"found", "produce"} /\ UNCHANGED hdr
    BY <1>3, <2>1, AnswerDueIs
  <2>2. CASE IoLookup /\ ioPc' = "found"
    BY <1>4, <2>2, BodyIgnored DEF Matches
  <2> QED
    BY <2>1, <2>2, FoundSteps
<1>7. TypeOK'
  BY NextType
<1>8. AnswerDue(c)' => \/ c \in Due'
                       \/ /\ ioPc' \in {"found", "produce"}
                          /\ hdr'.call = c /\ hdr'.what = "reply"
  BY <1>7, AnswersDueNext DEF AnswersDue
<1> QED
  BY <1>5, <1>6, <1>8

(* A record or the end of a query in transit is that of a listener that is *)
(* registered, or was.                                                     *)
LEMMA RecordsAfterReturn ==
  ASSUME Patience, Basics, PatienceInv, [Next]_vars,
         NEW h \in UnreadHeaders' \cup InHand', h.what # "reply"
  PROVE  pc'[h.call] = "done"
<1> USE DEF Basics
<1>1. ASSUME h \in UnreadHeaders \cup InHand
      PROVE  pc'[h.call] = "done"
  <2>1. pc[h.call] = "done" /\ h.call \in Calls
    BY <1>1, TransitType DEF PatienceInv, InTransit
  <2> QED
    BY <2>1, DoneStays
<1>2. CASE NothingNew
  BY <1>1, <1>2, NothingNewHeaders
<1>3. ASSUME NEW d \in Calls, Sends(d)
      PROVE  pc'[h.call] = "done"
  BY <1>1, <1>3, SendsEffect
<1>4. ASSUME AgentStep, NEW q \in requests \cup subs,
             NEW w \in {"reply", "record", "done"}, NEW t, Message(q, w, t),
             wire' = wire \o t, w # "reply" => pc[q.call] = "done"
      PROVE  pc'[h.call] = "done"
  <2>1. UNCHANGED <<pc, unpacker, hdr>>
    BY <1>4 DEF AgentStep, frameVars, channelVars
  <2>2. h \in UnreadHeaders \cup InHand \/ (h.call = q.call /\ h.what = w)
    BY <1>4, <2>1, MessageObjects
  <2> QED
    BY <1>1, <1>4, <2>1, <2>2
<1>5. CASE AgentStep
  <2>1. CASE wire' = wire
    <3>1. UnreadHeaders' = UnreadHeaders /\ InHand' = InHand
      BY <1>5, <2>1 DEF AgentStep, UnreadHeaders, InHand, channelVars
    <3> QED
      BY <1>1, <3>1
  <2>2. ASSUME NEW r \in requests, Answered(r)
        PROVE  pc'[h.call] = "done"
    <3>1. PICK t : Message(r, "reply", t) /\ wire' = wire \o t
      BY <2>2, Zenon DEF Answered
    <3> QED
      BY <1>4, <1>5, <3>1
  <2>3. ASSUME NEW q \in subs, Published(q)
        PROVE  pc'[h.call] = "done"
    <3>1. PICK t, w : /\ w \in {"record", "done"}
                      /\ Message(q, w, t) /\ wire' = wire \o t
      BY <2>3, Zenon DEF Published
    <3>2. pc[q.call] = "done"
      BY <2>3, PatienceIs DEF Published
    <3> QED
      BY <1>4, <1>5, <3>1, <3>2
  <2> QED
    BY <1>5, <2>1, <2>2, <2>3, AgentEffect
<1> QED
  BY <1>2, <1>3, <1>5, SubsidesOrNot DEF Subsides

(* The call whose channel the I/O thread has in hand waits. *)
LEMMA AnsweredWaits ==
  ASSUME Patience, Basics, Matches, PatienceInv, [Next]_vars,
         channel'.type = "REQUEST"
  PROVE  pc'[channel'.call] = "wait"
<1> USE DEF Basics
<1>1. CASE UNCHANGED <<channel, hdr>>
  <2>1. /\ channel.call \in Calls /\ pc[channel.call] = "wait"
        /\ ioPc \in {"found", "produce", "notify"}
        /\ channel = Request(channel.call)
    BY <1>1, InHandRuns
    DEF PatienceInv, TypeOK, ChannelTypeOK, Pointer, Request, Null
  <2>2. ~Consume(channel.call)
    <3> SUFFICES ASSUME Consume(channel.call) PROVE FALSE
      OBVIOUS
    <3>1. ioPc # "notify" /\ (reply[channel.call].pending
                                 \/ TimesOut(channel.call))
      BY <2>1 DEF Consume, ConsumeReturns, MutexFree
    <3>2. ~reply[channel.call].pending
      BY <1>1, <2>1, <3>1 DEF CallInv, AnswerInHand
    <3>3. hdr.kind = "header" /\ hdr.call = channel.call
      BY <1>1 DEF Matches, MatchInv
    <3>4. hdr.what = "reply"
      BY <2>1, <3>3 DEF PatienceInv, InHand
    <3>5. AnswerDue(channel.call)
      BY <2>1, <3>1, <3>3, <3>4, AnswerDueIs
    <3> QED
      BY <3>1, <3>2, <3>5, PatienceIs DEF TimesOut, PatienceInv
  <2> QED
    BY <1>1, <2>1, <2>2, WaitEnds
<1>2. CASE channel' = Null
  BY <1>2, NullTypes
<1>3. CASE IoLookup /\ ioPc' = "found"
  <2>1. /\ Head(unpacker) \in UnreadHeaders /\ hdr' = Head(unpacker)
        /\ hdr'.call \in Talking
        /\ hdr'.what = "reply" => hdr'.call \in Due
    BY <1>3, BodyIgnored DEF Matches
  <2>2. channel' = m_channels[hdr'.seq] /\ hdr'.seq \in Seqs /\ UNCHANGED pc
    BY <1>3, LookupEffect
  <2>3. hdr'.seq = seq[hdr'.call] /\ hdr'.call \in Calls
    BY <2>1, TransitType DEF TransitInv, InTransit
  <2>4. channel'.call = hdr'.call
    BY <2>1, <2>2, <2>3 DEF Matches, MatchInv
  <2>5. pc[hdr'.call] \in {"wait", "check", "remove"}
        /\ ~reply[hdr'.call].pending
    BY <2>2, <2>4 DEF MapInv, RequestEntries
  <2>6. hdr'.what = "reply"
    BY <2>1, <2>5 DEF PatienceInv
  <2>7. AnswerDue(hdr'.call)
    BY <2>1, <2>3, <2>6, AnswerDueIs
  <2>8. pc[hdr'.call] = "wait"
    BY <2>3, <2>5, <2>7 DEF PatienceInv
  <2> QED
    BY <2>2, <2>4, <2>8
<1> QED
  BY <1>1, <1>2, <1>3, HandSteps

LEMMA ListenerLives ==
  ASSUME Basics, Channels, StopInv, PatienceInv, [Next]_vars,
         channel'.type \in ListenerTypes
  PROVE  channel'.call \in heap'
<1> USE DEF Basics
<1>1. CASE UNCHANGED <<channel, hdr>>
  <2>1. ~IoDeregister
    <3> SUFFICES ASSUME IoDeregister PROVE FALSE
      OBVIOUS
    <3>1. channel' = Null
      BY DEF IoDeregister, BackToDrain
    <3> QED
      BY <3>1, NullTypes
  <2> QED
    BY <1>1, <2>1, HeldChannelStays DEF PatienceInv
<1>2. CASE channel' = Null
  BY <1>2, NullTypes
<1>3. CASE IoLookup /\ ioPc' = "found"
  BY <1>3, LookupEffect DEF MapInv, ListenerEntries
<1> QED
  BY <1>1, <1>2, <1>3, HandSteps

LEMMA PatienceInvNext ==
  ASSUME Patience, Basics, Channels, StopInv, PatienceInv, [Next]_vars
  PROVE  PatienceInv'
<1> USE DEF Basics
<1>1. ~Busy(IoThread)'
  BY IoThreadFree, PatienceIs DEF PatienceInv
<1>2. Matches
  BY DEF Channels
<1>3. \A c \in Calls : pc'[c] \in {"check", "remove"} /\ ~reply'[c].pending
                          => ~AnswerDue(c)'
  BY <1>2, GivesUpInTime
<1>4. \A h \in UnreadHeaders' \cup InHand' :
         h.what # "reply" => pc'[h.call] = "done"
  BY RecordsAfterReturn
<1>5. /\ channel'.type = "REQUEST" => pc'[channel'.call] = "wait"
      /\ channel'.type \in ListenerTypes => channel'.call \in heap'
  BY <1>2, AnsweredWaits, ListenerLives
<1> QED
  BY <1>1, <1>3, <1>4, <1>5 DEF PatienceInv

LEMMA PatienceInvInit == Init => PatienceInv
<1> SUFFICES ASSUME Init PROVE PatienceInv
  OBVIOUS
<1>1. TypeOK /\ ThreadInv /\ m_thread # "running"
  BY InitType, ThreadInvInit DEF Init, IoInit
<1>2. UnreadHeaders = {} /\ InHand = {}
  BY <1>1, NothingInTransit DEF InTransit
<1>3. ~Busy(IoThread)
  BY ThreadsAssumption DEF Busy, Init
<1> QED
  BY <1>2, <1>3, NullTypes DEF Init, ChannelInit, PatienceInv

LEMMA PatienceInvCorrect ==
  Patience => (Spec => [](Channels /\ StopInv /\ PatienceInv))
<1> SUFFICES ASSUME Patience
             PROVE  Spec => [](Channels /\ StopInv /\ PatienceInv)
  OBVIOUS
<1>1. Basics /\ Channels /\ StopInv /\ PatienceInv /\ [Next]_vars
         => PatienceInv'
  BY PatienceInvNext
<1>2. Spec => []Channels /\ []StopInv
  BY PatienceIs, QuietingIs, ChannelsCorrect, StopCorrect, PTL DEF Quieting
<1> QED
  BY <1>1, <1>2, PatienceInvInit, BasicsCorrect, PTL DEF Spec

(* Only a channel that is gone makes the behaviour dangle. *)
LEMMA FateSteps ==
  ASSUME TypeOK, OwnerInv, [Next]_vars, fate # "dangling", fate' = "dangling"
  PROVE  IoDangle
<1>1. ASSUME NEW c \in Calls, Sends(c) \/ SendFails(c)
      PROVE  UNCHANGED fate
  BY <1>1 DEF Sends, SendFails, channelVars
<1>2. ASSUME NEW c \in Calls, Finish(c)
      PROVE  UNCHANGED fate
  BY <1>2
  DEF Finish, Consume, CheckPending, RemoveTimedOut, Register, Unlisten,
      ChannelStep, channelVars
<1>3. ASSUME NEW c \in Calls,
             ConnectFails(c) \/ ConnectOpens(c) \/ ConnectTerminates(c)
      PROVE  fate' # "dangling"
  BY <1>3 DEF ConnectFails, ConnectOpens, ConnectTerminates, channelVars
<1>4. ASSUME IoStep, ~IoDangle
      PROVE  fate' # "dangling"
  BY <1>4
  DEF IoStep, IoLoop, IoTop, IoExit, IoReceive, IoIdle, IoDrained, IoLookup,
      IoErase, IoProduce, Produce, ProduceHeader, ProduceData, ProduceThrows,
      Store, LogProduce, EventProduce, QueryProduce, Deliver, Discard,
      IoNotify, IoCallbackReturn, IoDeregister, IoBadSocket, NotProducing
<1>5. CASE \/ Close \/ AgentStep \/ AgentCloses \/ UNCHANGED vars
           \/ \E t, c : SendKills(t, c)
  BY <1>5
  DEF Close, CloseBegin, CloseEnd, ListenerCloses, AgentStep, AgentCloses,
      SendKills, vars, channelVars
<1> QED
  BY <1>1, <1>2, <1>3, <1>4, <1>5, MethodSends, HandshakeSends
  DEF Next, Connect

(* In an environment with none of the behaviours below, the I/O thread     *)
(* never touches a channel that is gone: the frame of a call it answers    *)
(* stays until produce has released the channel's mutex, and a listener    *)
(* channel it holds is deleted by nobody else (processRpc, produce).       *)
THEOREM NeverDangles ==
  Without({"busyClose", "earlyCall", "fdReuse", "anyStop",
           "lateRecord", "lateAnswer", "reentrant", "earlyRecord"}) =>
     (Spec => []NoDangling)
<1> SUFFICES ASSUME Patience PROVE Spec => []NoDangling
  BY DEF Patience
<1>1. Basics /\ PatienceInv /\ NoDangling /\ [Next]_vars => NoDangling'
  <2> SUFFICES ASSUME Basics, PatienceInv, fate # "dangling", [Next]_vars,
                      fate' = "dangling"
               PROVE  FALSE
    BY DEF NoDangling
  <2> USE DEF Basics
  <2>1. IoDangle
    BY FateSteps
  <2>2. channel \in Pointer \ {Null}
    BY <2>1 DEF IoDangle, TypeOK, ChannelTypeOK
  <2>3. Alive(channel)
    BY <2>2 DEF PatienceInv, Alive, OnStack, Pointer
  <2> QED
    BY <2>1, <2>3 DEF IoDangle
<1>2. Init => NoDangling
  BY DEF Init, ChannelInit, NoDangling
<1> QED
  BY <1>1, <1>2, PatienceInvCorrect, BasicsCorrect, PTL DEF Spec

=============================================================================
