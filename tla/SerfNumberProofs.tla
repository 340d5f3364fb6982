-------------------------- MODULE SerfNumberProofs --------------------------
(***************************************************************************)
(* Sequence numbers: which call a number belongs to while something is in  *)
(* transit under it, and that what is stored for a call is its own answer. *)
(***************************************************************************)
EXTENDS SerfTrafficProofs

(* What calls do to the map, one lemma per kind of step.                   *)

LEMMA WithoutOne == \A F, f : Without(F) /\ f \in F => f \notin Faults
BY DEF Without

(* RemoveChannel empties one entry. *)
LEMMA RemoveChannelEntries ==
  ASSUME TypeOK, NEW s, RemoveChannel(s)
  PROVE  /\ \A z \in Seqs : m_channels'[z] \in {m_channels[z], Null}
         /\ \A z \in Seqs : z # s => m_channels'[z] = m_channels[z]
BY DEF RemoveChannel, TypeOK, IoTypeOK

LEMMA AddChannelEntries ==
  ASSUME TypeOK, NEW s \in Seqs, NEW p, AddChannel(s, p)
  PROVE  /\ m_channels'[s] = p
         /\ \A z \in Seqs : z # s => m_channels'[z] = m_channels[z]
BY DEF AddChannel, TypeOK, IoTypeOK

LEMMA NullTypes ==
  /\ Null.type # "REQUEST" /\ Null.type \notin ListenerTypes
  /\ \A c : Request(c).type = "REQUEST" /\ Request(c).call = c
  /\ \A c : Request(c).type \notin ListenerTypes
  /\ \A c, k : Listener(c, k).type \in ListenerTypes
               /\ Listener(c, k).type # "REQUEST" /\ Listener(c, k).call = c
BY DEF Null, Request, Listener, ListenerType, ListenerTypes

(* A channel in hand means that the I/O thread runs. *)
LEMMA InHandRuns ==
  ASSUME TypeOK, channel.type = "REQUEST" \/ channel.type \in ListenerTypes
  PROVE  /\ m_thread = "running" /\ channel # Null /\ hdr # NoObject
         /\ ioPc \in {"found", "produce", "notify", "callback", "deregister"}
         /\ channel.call \in Calls /\ hdr \in Object /\ hdr.seq \in Seqs
         /\ channel.type = "REQUEST" => ioPc \in {"found", "produce", "notify"}
<1>1. channel # Null
  BY NullTypes
<1>2. /\ ioPc \notin {"top", "read", "drain"} /\ hdr # NoObject
      /\ ioPc \in IoPcs /\ channel \in Pointer
      /\ hdr \in Object \cup {NoObject}
      /\ ioPc \in {"callback", "deregister"} => channel.type \in ListenerTypes
  BY <1>1 DEF TypeOK, ChannelTypeOK
<1>3. m_thread = "running"
  BY <1>2 DEF TypeOK, IoTypeOK
<1>4. /\ channel.call \in Calls
      /\ channel.type = "REQUEST" => channel.type \notin ListenerTypes
  BY <1>1, <1>2, EntryTypes
<1>5. hdr \in Object /\ hdr.seq \in Seqs
  BY <1>2 DEF Object
<1> QED
  BY <1>1, <1>2, <1>3, <1>4, <1>5 DEF IoPcs

-----------------------------------------------------------------------------
(* Layer 4: calls in progress have numbers of their own. *)

LEMMA StrandedStays ==
  ASSUME TypeOK, [Next]_vars, Stranded
  PROVE  Stranded'
<1> m_socket = "none" /\ m_thread # "none"
  BY DEF Stranded, IsConnected, Joinable
<1> SUFFICES m_socket' = "none" /\ m_thread' # "none"
  BY DEF Stranded, IsConnected, Joinable
<1>1. ASSUME NEW t \in Threads \cup {IoThread}, NEW c \in Calls, RpcMethod(t, c)
      PROVE  UNCHANGED <<m_socket, m_thread>>
  BY <1>1, RpcMethodIsCall DEF Call, SendDataOk, SendDataFails
<1>2. ASSUME NEW t, NEW c, SendKills(t, c)
      PROVE  UNCHANGED <<m_socket, m_thread>>
  BY <1>2 DEF SendKills, ioVars
<1>3. ASSUME NEW c, Finish(c) PROVE UNCHANGED <<m_socket, m_thread>>
  BY <1>3
  DEF Finish, Consume, CheckPending, RemoveTimedOut, Register, Unlisten,
      ChannelStep, ioVars
<1>4. ASSUME NEW c, Connect(c) PROVE m_socket' = "none" /\ UNCHANGED m_thread
  BY <1>4
  DEF Connect, ConnectFails, ConnectOpens, ConnectTerminates, Handshake,
      Joinable, SendDataOk, SendDataFails, ioVars
<1>5. CASE Close
  BY <1>5 DEF Close, CloseBegin, CloseEnd, ListenerCloses, IsConnected
<1>6. CASE IoStep
  BY <1>6
  DEF IoStep, IoLoop, IoTop, IoExit, IoReceive, IoIdle, IoDrained, IoLookup,
      IoErase, IoProduce, IoNotify, IoCallbackReturn, IoDeregister, IoDangle,
      IoBadSocket, IoUnchanged, IsConnected
<1>7. CASE AgentStep \/ AgentCloses \/ UNCHANGED vars
  BY <1>7 DEF AgentStep, AgentCloses, vars, ioVars
<1> QED
  BY <1>1, <1>2, <1>3, <1>4, <1>5, <1>6, <1>7 DEF Next

(* A call that returns leaves no more calls behind than there were. *)
LEMMA ReturnsInCall ==
  ASSUME TypeOK, NEW c, NEW r, Return(c, r), InCall'
  PROVE  InCall
BY ThreadsAssumption DEF Return, InCall, TypeOK

(* When Close is over no call is in progress: not those of the application *)
(* threads, for which it waited, and not one of a listener, because the    *)
(* I/O thread has been joined.                                             *)
LEMMA ClosedIdle ==
  ASSUME TypeOK, OwnerInv, NumberInv, CloseEnd
  PROVE  Stranded \/ \A c \in Calls : pc[c] \in {"idle", "done"}
<1>1. ~InCall
  BY DEF NumberInv, CloseEnd
<1>2. Busy(IoThread) => m_thread = "running"
  BY DEF OwnerInv, Busy, TypeOK, IoTypeOK
<1>3. Busy(IoThread) => Stranded
  BY <1>2 DEF CloseEnd, Stranded, Joinable
<1>4. \A c \in Calls : owner[c] = NoThread \/ Busy(IoThread)
  BY <1>1 DEF InCall, Busy, TypeOK
<1> QED
  BY <1>3, <1>4 DEF OwnerInv

LEMMA NumberInvFrame ==
  ASSUME TypeOK, NumberInv, UNCHANGED <<pc, seq, m_channels, channel, hdr>>,
         ioPc' = "found" => ioPc = "found",
         Live' => Live /\ m_seq' \in Nat /\ m_seq <= m_seq',
         closing' => ~InCall', Stranded => Stranded',
         \/ m_seq' \in Nat /\ m_seq <= m_seq'
         \/ Stranded
         \/ \A c \in Calls : pc[c] \in {"idle", "done"}
  PROVE  NumberInv'
<1>1. m_seq \in Nat /\ seq \in [Calls -> Seqs] /\ hdr \in Object \cup {NoObject}
  BY DEF TypeOK, IoTypeOK, ChannelTypeOK
<1>2. /\ hdr.seq \in Nat
      /\ \A c \in Calls : seq[c] \in Nat
  <2>1. NoObject.seq = 0 /\ \A o \in Object : o.seq \in Seqs
    BY DEF Object, NoObject
  <2> QED
    BY <1>1, <2>1, SeqsNat
<1>4. \A c \in Calls : OnStack(c)' => OnStack(c)
  BY DEF OnStack
<1>5. \A c \in Calls : OnStack(c)' => seq'[c] < m_seq' \/ Stranded'
  BY <1>1, <1>2, <1>4 DEF NumberInv, OnStack
<1>6. \A c \in Calls : OnStack(c)' =>
         /\ m_channels'[seq'[c]] \in {Null, Request(c)}
         /\ \A d \in Calls : OnStack(d)' /\ seq'[d] = seq'[c] => d = c
         /\ c # channel'.call /\ channel'.type = "REQUEST" =>
               seq'[c] # hdr'.seq
  BY <1>4 DEF NumberInv
<1>7. Live' /\ channel'.type = "REQUEST" => hdr'.seq < m_seq'
  BY <1>1, <1>2 DEF NumberInv
<1>8. ioPc' = "found" /\ channel'.type = "REQUEST" =>
         m_channels'[hdr'.seq].type \notin ListenerTypes
  BY DEF NumberInv
<1> QED
  BY <1>5, <1>6, <1>7, <1>8 DEF NumberInv

(* A new number is larger than all in use, and nobody looks it up. *)
LEMMA SendsEntries ==
  ASSUME TypeOK, NEW c \in Calls, Sends(c)
  PROVE  /\ m_channels'[m_seq] = Request(c)
         /\ \A s \in Seqs : s # m_seq => m_channels'[s] = m_channels[s]
         /\ pc[c] \in {"idle", "handshake"} /\ pc'[c] = "wait"
         /\ seq'[c] = m_seq /\ m_seq \in Seqs /\ m_seq \in Nat
         /\ m_seq' = m_seq + 1
         /\ \A d \in Calls \ {c} : pc'[d] = pc[d] /\ seq'[d] = seq[d]
         /\ ~OnStack(c)
         /\ \A d \in Calls \ {c} : OnStack(d)' <=> OnStack(d)
<1>1. /\ pc[c] \in {"idle", "handshake"} /\ pc'[c] = "wait"
      /\ seq'[c] = m_seq /\ m_seq \in Seqs /\ m_seq \in Nat
      /\ m_seq' = m_seq + 1
      /\ \A d \in Calls \ {c} : pc'[d] = pc[d] /\ seq'[d] = seq[d]
  BY SendsEffect DEF Sends
<1>2. /\ m_channels'[m_seq] = Request(c)
      /\ \A s \in Seqs : s # m_seq => m_channels'[s] = m_channels[s]
  BY <1>1 DEF Sends, TypeOK, IoTypeOK
<1>3. ~OnStack(c) /\ \A d \in Calls \ {c} : OnStack(d)' <=> OnStack(d)
  BY <1>1 DEF OnStack
<1> QED
  BY <1>1, <1>2, <1>3

LEMMA SendsLive ==
  ASSUME TypeOK, ThreadInv, NEW c \in Calls, Sends(c),
         channel.type = "REQUEST" \/ channel.type \in ListenerTypes
  PROVE  Live
BY InHandRuns DEF Sends, ThreadInv, Live

LEMMA NumberInvSends ==
  ASSUME TypeOK, ThreadInv, OwnerInv, NumberInv, Without({"busyClose"}),
         NEW c \in Calls, Sends(c)
  PROVE  NumberInv'
<1>1. /\ m_channels'[m_seq] = Request(c)
      /\ \A s \in Seqs : s # m_seq => m_channels'[s] = m_channels[s]
      /\ pc[c] \in {"idle", "handshake"} /\ pc'[c] = "wait"
      /\ seq'[c] = m_seq /\ m_seq \in Seqs /\ m_seq \in Nat
      /\ m_seq' = m_seq + 1
      /\ \A d \in Calls \ {c} : pc'[d] = pc[d] /\ seq'[d] = seq[d]
      /\ ~OnStack(c)
      /\ \A d \in Calls \ {c} : OnStack(d)' <=> OnStack(d)
  BY SendsEntries
<1>2. UNCHANGED <<channel, hdr, ioPc, closing>>
  BY DEF Sends, channelVars
<1>3. closing' => ~InCall'
  <2>1. \A d \in Calls \ {c} : owner'[d] = owner[d]
    BY DEF Sends, OthersKept
  <2>2. CASE pc[c] = "idle"
    <3>1. closing => owner'[c] \notin Threads
      BY <2>2, WithoutOne, ThreadsAssumption DEF Sends
    <3> QED
      BY <1>2, <2>1, <3>1 DEF NumberInv, InCall
  <2>3. CASE pc[c] = "handshake"
    BY <1>2, <2>3, ThreadsAssumption DEF NumberInv, InCall, OwnerInv
  <2> QED
    BY <1>1, <2>2, <2>3
<1>4. channel.type = "REQUEST" => hdr.seq < m_seq /\ hdr.seq \in Nat
                                     /\ hdr.seq \in Seqs
  BY InHandRuns, SendsLive, SeqsNat DEF NumberInv
<1>5. seq \in [Calls -> Seqs] /\ ~Stranded
  BY DEF TypeOK, ChannelTypeOK, Sends, Stranded, IsConnected
<1>6. ASSUME NEW d \in Calls \ {c}, OnStack(d)'
      PROVE  /\ seq'[d] < m_seq' /\ seq'[d] # m_seq
             /\ m_channels'[seq'[d]] \in {Null, Request(d)}
             /\ \A e \in Calls : OnStack(e)' /\ seq'[e] = seq'[d] => e = d
             /\ d # channel'.call /\ channel'.type = "REQUEST" =>
                   seq'[d] # hdr'.seq
  <2>1. OnStack(d) /\ seq[d] < m_seq /\ seq[d] \in Seqs /\ seq[d] \in Nat
    BY <1>1, <1>5, <1>6, SeqsNat DEF NumberInv
  <2>2. seq[d] # m_seq /\ seq[d] < m_seq + 1
    BY <1>1, <2>1
  <2> QED
    BY <1>1, <1>2, <2>1, <2>2 DEF NumberInv
<1>7. /\ seq'[c] < m_seq'
      /\ m_channels'[seq'[c]] \in {Null, Request(c)}
      /\ \A e \in Calls : OnStack(e)' /\ seq'[e] = seq'[c] => e = c
      /\ channel'.type = "REQUEST" => seq'[c] # hdr'.seq
  <2>1. seq'[c] < m_seq'
    BY <1>1
  <2>2. \A e \in Calls : OnStack(e)' /\ seq'[e] = seq'[c] => e = c
    BY <1>1, <1>6
  <2>3. channel'.type = "REQUEST" => seq'[c] # hdr'.seq
    BY <1>1, <1>2, <1>4
  <2> QED
    BY <1>1, <2>1, <2>2, <2>3
<1>8. channel'.type = "REQUEST" => hdr'.seq < m_seq'
  BY <1>1, <1>2, <1>4
<1>9. ioPc' = "found" /\ channel'.type = "REQUEST" =>
         m_channels'[hdr'.seq].type \notin ListenerTypes
  <2>1. channel.type = "REQUEST" => m_channels'[hdr.seq] = m_channels[hdr.seq]
    BY <1>1, <1>4
  <2> QED
    BY <1>2, <2>1 DEF NumberInv
<1> QED
  BY <1>3, <1>6, <1>7, <1>8, <1>9 DEF NumberInv

(* A call moves on or returns, and entries may be emptied. *)
LEMMA NumberInvMoves ==
  ASSUME TypeOK, NumberInv, NEW c \in Calls, NEW p,
         pc' = [pc EXCEPT ![c] = p], OnStack(c)' => OnStack(c),
         closing' => ~InCall', Stranded => Stranded',
         \A s \in Seqs : m_channels'[s] \in {m_channels[s], Null},
         UNCHANGED <<seq, channel, hdr>>,
         m_seq' \in Nat /\ m_seq <= m_seq',
         ioPc' = "found" => ioPc = "found",
         Live' => Live \/ channel.type # "REQUEST"
  PROVE  NumberInv'
<1>1. \A d \in Calls \ {c} : pc'[d] = pc[d]
  BY DEF TypeOK, ChannelTypeOK
<1>2. \A d \in Calls : OnStack(d)' => OnStack(d)
  BY <1>1 DEF OnStack
<1>4. seq \in [Calls -> Seqs] /\ (channel.type = "REQUEST" => hdr.seq \in Seqs)
  BY InHandRuns DEF TypeOK, ChannelTypeOK
<1>5. m_seq \in Nat /\ Seqs \subseteq Nat
  BY SeqsNat DEF TypeOK, IoTypeOK
<1>6. ASSUME NEW d \in Calls, OnStack(d)'
      PROVE  seq'[d] < m_seq' \/ Stranded'
  <2>1. seq[d] < m_seq \/ Stranded
    BY <1>2, <1>6 DEF NumberInv
  <2>2. seq[d] \in Nat /\ seq'[d] = seq[d]
    BY <1>4, <1>5
  <2> QED
    BY <2>1, <2>2, <1>5
<1>7. \A d \in Calls : OnStack(d)' =>
         /\ m_channels'[seq'[d]] \in {Null, Request(d)}
         /\ \A e \in Calls : OnStack(e)' /\ seq'[e] = seq'[d] => e = d
         /\ d # channel'.call /\ channel'.type = "REQUEST" =>
               seq'[d] # hdr'.seq
  BY <1>2, <1>4 DEF NumberInv
<1>8. ASSUME Live', channel'.type = "REQUEST"  PROVE  hdr'.seq < m_seq'
  <2>1. hdr.seq < m_seq
    BY <1>8 DEF NumberInv
  <2>2. hdr.seq \in Nat /\ hdr'.seq = hdr.seq
    BY <1>4, <1>5, <1>8
  <2> QED
    BY <2>1, <2>2, <1>5
<1>9. ioPc' = "found" /\ channel'.type = "REQUEST" =>
         m_channels'[hdr'.seq].type \notin ListenerTypes
  BY <1>4, NullTypes DEF NumberInv
<1> QED
  BY <1>6, <1>7, <1>8, <1>9 DEF NumberInv

LEMMA NumberInvRegister ==
  ASSUME TypeOK, MapInv, CallInv, NumberInv, NEW c \in Calls, Register(c),
         Stranded => Stranded'
  PROVE  NumberInv'
<1>1. /\ pc[c] = "register" /\ OnStack(c)
      /\ reply[c].pending /\ reply[c].seq = seq[c] /\ seq[c] \in Seqs
  BY DEF Register, MapInv, AnswersKeepNumbers, OnStack, TypeOK, ChannelTypeOK
<1>2. /\ \A s \in Seqs : s # seq[c] => m_channels'[s] = m_channels[s]
      /\ pc' = [pc EXCEPT ![c] = "done"]
      /\ UNCHANGED <<seq, channel, hdr, closing, m_seq, ioPc, Live>>
  BY <1>1, AddChannelEntries
  DEF Register, AnsweredSeq, Return, ChannelStep, Live
<1>3. /\ \A d \in Calls \ {c} : pc'[d] = pc[d]
      /\ pc'[c] = "done"
  BY <1>2 DEF TypeOK, ChannelTypeOK
<1>4. \A d \in Calls : OnStack(d)' => OnStack(d) /\ d # c /\ seq[d] # seq[c]
  <2>1. \A d \in Calls : OnStack(d)' => OnStack(d) /\ d # c
    BY <1>3 DEF OnStack
  <2> QED
    BY <1>1, <2>1 DEF NumberInv
<1>5. closing' => ~InCall'
  BY <1>2, ReturnsInCall DEF Register, NumberInv
<1>6. seq \in [Calls -> Seqs]
  BY DEF TypeOK, ChannelTypeOK
<1>7. \A d \in Calls : OnStack(d)' =>
         /\ seq'[d] < m_seq' \/ Stranded'
         /\ m_channels'[seq'[d]] \in {Null, Request(d)}
         /\ \A e \in Calls : OnStack(e)' /\ seq'[e] = seq'[d] => e = d
         /\ d # channel'.call /\ channel'.type = "REQUEST" =>
               seq'[d] # hdr'.seq
  BY <1>2, <1>4, <1>6 DEF NumberInv
<1>8. ioPc = "found" /\ channel.type = "REQUEST" => hdr.seq # seq[c]
  <2> SUFFICES ASSUME ioPc = "found", channel.type = "REQUEST"
               PROVE  hdr.seq # seq[c]
    OBVIOUS
  <2>1. ~reply[channel.call].pending
    BY DEF CallInv, AnswerInHand
  <2>2. c # channel.call
    BY <1>1, <2>1
  <2> QED
    BY <1>1, <2>2 DEF NumberInv
<1>9. ioPc' = "found" /\ channel'.type = "REQUEST" =>
         m_channels'[hdr'.seq].type \notin ListenerTypes
  BY <1>2, <1>8, InHandRuns DEF NumberInv
<1> QED
  BY <1>2, <1>5, <1>7, <1>9 DEF NumberInv

LEMMA NumberInvEmptied ==
  ASSUME TypeOK, NumberInv,
         \A s \in Seqs : m_channels'[s] \in {m_channels[s], Null},
         UNCHANGED <<pc, seq, m_seq, owner, closing>>, Stranded => Stranded',
         UNCHANGED <<channel, hdr>> \/ channel' = Null,
         ioPc' = "found" => ioPc = "found",
         Live' => Live
  PROVE  NumberInv'
<1>1. \A d \in Calls : OnStack(d)' => OnStack(d)
  BY DEF OnStack
<1>2. closing' => ~InCall'
  BY DEF NumberInv, InCall
<1>3. seq \in [Calls -> Seqs] /\ (channel.type = "REQUEST" => hdr.seq \in Seqs)
  BY InHandRuns DEF TypeOK, ChannelTypeOK
<1>4. \A d \in Calls : OnStack(d)' =>
         /\ seq'[d] < m_seq' \/ Stranded'
         /\ m_channels'[seq'[d]] \in {Null, Request(d)}
         /\ \A e \in Calls : OnStack(e)' /\ seq'[e] = seq'[d] => e = d
         /\ d # channel'.call /\ channel'.type = "REQUEST" =>
               seq'[d] # hdr'.seq
  BY <1>1, <1>3, NullTypes DEF NumberInv
<1>5. /\ Live' /\ channel'.type = "REQUEST" => hdr'.seq < m_seq'
      /\ ioPc' = "found" /\ channel'.type = "REQUEST" =>
            m_channels'[hdr'.seq].type \notin ListenerTypes
  BY <1>3, NullTypes DEF NumberInv
<1> QED
  BY <1>2, <1>4, <1>5 DEF NumberInv

(* The entry the I/O thread finds under the number of an object. *)
LEMMA LookupEffect ==
  ASSUME TypeOK, IoLookup, ioPc' = "found"
  PROVE  /\ unpacker # <<>> /\ Head(unpacker) \in Range(unpacker)
         /\ Head(unpacker) \in Object
         /\ hdr' = AsResponseHeader(Head(unpacker))
         /\ hdr'.seq \in Seqs
         /\ channel' = m_channels[hdr'.seq]
         /\ UNCHANGED <<pc, seq, cmd, m_channels, m_seq, reply, heap>>
         /\ Head(unpacker).kind = "header" => hdr' = Head(unpacker)
         /\ Head(unpacker).kind = "body" => hdr'.seq = 0
         /\ Head(unpacker).kind \in {"header", "body"}
<1> DEFINE h == AsResponseHeader(Head(unpacker))
<1>1. /\ unpacker # <<>> /\ hdr' = h /\ channel' = m_channels[h.seq]
      /\ UNCHANGED <<pc, seq, cmd, m_channels, m_seq, reply, heap>>
  BY DEF IoLookup, frameVars, IoUnchanged
<1>2. Head(unpacker) \in Object /\ Head(unpacker) \in Range(unpacker)
  BY <1>1, IncomingType, TailObjects, RangeTail
<1>3. h \in Object /\ (Head(unpacker).kind = "header" => h = Head(unpacker))
  BY <1>2, AsHeaderType, AsHeader
<1>4. Head(unpacker).kind = "body" => h.seq = 0
  BY DEF AsResponseHeader
<1>5. h.seq \in Seqs /\ Head(unpacker).kind \in {"header", "body"}
  BY <1>2, <1>3 DEF Object
<1> QED
  BY <1>1, <1>2, <1>3, <1>4, <1>5

LEMMA NumberInvLookup ==
  ASSUME TypeOK, MapInv, NumberInv, IoLookup, UNCHANGED <<closing, owner>>,
         Stranded => Stranded'
  PROVE  NumberInv'
<1>1. CASE ioPc' # "found"
  <2>1. /\ UNCHANGED <<pc, seq, m_channels, channel, hdr, m_seq, Live>>
        /\ ioPc' # "found" /\ m_seq \in Nat
    BY <1>1
    DEF IoLookup, frameVars, IoUnchanged, Live, TypeOK, IoTypeOK
  <2> QED
    BY <2>1, NumberInvEmptied
<1>2. CASE ioPc' = "found"
  <2>1. /\ hdr'.seq \in Seqs /\ channel' = m_channels[hdr'.seq]
        /\ UNCHANGED <<pc, seq, m_channels, m_seq, Live>>
    BY <1>2, LookupEffect DEF IoLookup, IoUnchanged, Live
  <2>2. ASSUME channel'.type = "REQUEST"
        PROVE  /\ channel'.call \in Calls /\ OnStack(channel'.call)
               /\ seq[channel'.call] = hdr'.seq
    <3>1. m_channels[hdr'.seq] \in Pointer
      BY <2>1 DEF TypeOK, IoTypeOK
    <3>2. channel'.call \in Calls
      BY <2>1, <2>2, <3>1, EntryTypes
    <3> QED
      BY <2>1, <2>2, <3>2 DEF MapInv, RequestEntries, OnStack
  <2>3. \A d \in Calls : OnStack(d)' <=> OnStack(d)
    BY <2>1 DEF OnStack
  <2>4. \A d \in Calls : OnStack(d)' =>
           /\ seq'[d] < m_seq' \/ Stranded'
           /\ m_channels'[seq'[d]] \in {Null, Request(d)}
           /\ \A e \in Calls : OnStack(e)' /\ seq'[e] = seq'[d] => e = d
           /\ d # channel'.call /\ channel'.type = "REQUEST" =>
                 seq'[d] # hdr'.seq
    BY <2>1, <2>2, <2>3 DEF NumberInv
  <2>5. channel'.type = "REQUEST" => /\ Live => hdr'.seq < m_seq'
                                     /\ channel'.type \notin ListenerTypes
    BY <2>1, <2>2, EntryTypes
    DEF NumberInv, ListenerTypes, Stranded, IsConnected, Live
  <2>6. closing' => ~InCall'
    BY <2>1 DEF NumberInv, InCall
  <2> QED
    BY <2>1, <2>4, <2>5, <2>6 DEF NumberInv
<1> QED
  BY <1>1, <1>2

LEMMA NumberInvIo ==
  ASSUME TypeOK, MapInv, ThreadInv, NumberInv, IoStep, Stranded => Stranded'
  PROVE  NumberInv'
<1>1. UNCHANGED <<pc, seq, m_seq, owner, closing>> /\ (Live' => Live)
  BY IoNothingNew
  DEF IoStep, IoLoop, IoTop, IoExit, IoReceive, IoIdle, IoDrained, IoLookup,
      IoErase, IoProduce, IoNotify, IoCallbackReturn, IoDeregister, IoDangle,
      IoBadSocket, frameVars, clientVars
<1>2. CASE IoLookup
  BY <1>1, <1>2, NumberInvLookup
<1>3. CASE IoErase
  <2>1. \A s \in Seqs : m_channels'[s] \in {m_channels[s], Null}
    BY <1>3 DEF IoErase, Erased, TypeOK, IoTypeOK
  <2> QED
    BY <1>1, <1>3, <2>1, NumberInvEmptied DEF IoErase, NotProducing
<1>4. CASE IoDeregister
  <2>1. \A s \in Seqs : m_channels'[s] \in {m_channels[s], Null}
    BY <1>4, RemoveChannelEntries DEF IoDeregister
  <2> QED
    BY <1>1, <1>4, <2>1, NumberInvEmptied DEF IoDeregister, BackToDrain
<1>5. CASE \/ IoTop \/ IoExit \/ IoReceive \/ IoIdle \/ IoDrained \/ IoNotify
           \/ IoCallbackReturn \/ IoDangle \/ IoBadSocket \/ IoProduce
  <2>1. UNCHANGED m_channels
    BY <1>5
    DEF IoTop, IoExit, IoReceive, IoIdle, IoDrained, IoNotify,
        IoCallbackReturn, IoDangle, IoBadSocket, IoProduce, IoUnchanged
  <2>2. UNCHANGED <<channel, hdr>> \/ channel' = Null
    BY <1>5
    DEF IoTop, IoExit, IoReceive, IoIdle, IoDrained, IoNotify,
        IoCallbackReturn, IoDangle, Dangle, IoBadSocket, IoProduce, Produce,
        ProduceHeader, ProduceData, ProduceThrows, Store, LogProduce,
        EventProduce, QueryProduce, Deliver, Discard, BackToDrain,
        NotProducing
  <2>3. ioPc' = "found" => ioPc = "found"
    BY <1>5
    DEF IoTop, IoExit, IoReceive, IoIdle, IoDrained, IoNotify,
        IoCallbackReturn, IoDangle, Dangle, IoBadSocket, IoProduce, Produce,
        ProduceHeader, ProduceData, ProduceThrows, Store, LogProduce,
        EventProduce, QueryProduce, Deliver, Discard, BackToDrain
  <2> QED
    BY <1>1, <2>1, <2>2, <2>3, NumberInvEmptied
<1> QED
  BY <1>2, <1>3, <1>4, <1>5 DEF IoStep, IoLoop

LEMMA NumberInvCalls ==
  ASSUME Basics, NumberInv, Without({"busyClose"}), NEW c \in Calls,
         Sends(c) \/ SendFails(c), Stranded => Stranded'
  PROVE  NumberInv'
<1> USE DEF Basics
<1>1. CASE Sends(c)
  BY <1>1, NumberInvSends
<1>2. CASE SendFails(c)
  <2>1. /\ pc' = [pc EXCEPT ![c] = "done"] /\ ~OnStack(c)'
        /\ UNCHANGED <<seq, channel, hdr, closing, m_channels, ioPc, Live>>
    BY <1>2 DEF SendFails, Return, OnStack, TypeOK, ChannelTypeOK,
                channelVars, Live
  <2>2. m_seq' \in Nat /\ m_seq <= m_seq'
    BY <1>2, SeqsNat DEF SendFails
  <2>3. closing' => ~InCall'
    BY <1>2, <2>1, ReturnsInCall DEF SendFails, NumberInv
  <2> QED
    BY <2>1, <2>2, <2>3, NumberInvMoves
<1> QED
  BY <1>1, <1>2

LEMMA NumberInvFinish ==
  ASSUME Basics, NumberInv, NEW c \in Calls, Finish(c), Stranded => Stranded'
  PROVE  NumberInv'
<1> USE DEF Basics
<1>0. m_seq \in Nat /\ seq[c] \in Seqs
  BY DEF TypeOK, IoTypeOK, ChannelTypeOK
<1>1. CASE Consume(c) \/ CheckPending(c)
  <2>1. /\ OnStack(c)
        /\ UNCHANGED <<seq, channel, hdr, closing, m_channels, ioPc, Live,
                       m_seq>>
    BY <1>1 DEF Consume, CheckPending, OnStack, channelVars, ioVars,
                clientVars, Live
  <2>2. closing' => ~InCall'
    <3>1. owner' = owner \/ \E r : Return(c, r)
      BY <1>1 DEF Consume, CheckPending, AfterReply, AfterTimeout, clientVars
    <3> QED
      BY <2>1, <3>1, ReturnsInCall DEF NumberInv, InCall
  <2>3. PICK p : pc' = [pc EXCEPT ![c] = p]
    BY <1>1 DEF Consume, CheckPending, AfterReply, AfterTimeout, Return
  <2>4. m_seq' \in Nat /\ m_seq <= m_seq'
    BY <1>0, <2>1
  <2> QED
    BY <2>1, <2>2, <2>3, <2>4, NumberInvMoves
<1>2. CASE RemoveTimedOut(c) \/ Unlisten(c)
  <2>1. /\ pc' = [pc EXCEPT ![c] = "done"] /\ ~OnStack(c)'
        /\ UNCHANGED <<seq, channel, hdr, closing, ioPc, Live, m_seq>>
    BY <1>2 DEF RemoveTimedOut, Unlisten, Return, ChannelStep, OnStack, TypeOK,
                ChannelTypeOK, Live
  <2>2. \E s : RemoveChannel(s)
    BY <1>2 DEF RemoveTimedOut, Unlisten
  <2>3. \A s \in Seqs : m_channels'[s] \in {m_channels[s], Null}
    BY <2>2, RemoveChannelEntries
  <2>4. m_seq' \in Nat /\ m_seq <= m_seq'
    BY <1>0, <2>1
  <2>5. closing' => ~InCall'
    BY <1>2, <2>1, ReturnsInCall DEF RemoveTimedOut, Unlisten, NumberInv
  <2>6. PICK p : p = "done"
    OBVIOUS
  <2> QED
    BY <2>1, <2>3, <2>4, <2>5, <2>6, NumberInvMoves
<1> QED
  BY <1>1, <1>2, NumberInvRegister DEF Finish

LEMMA NumberInvConnect ==
  ASSUME Basics, NumberInv, Without({"busyClose"}), NEW c \in Calls, Connect(c),
         Stranded => Stranded'
  PROVE  NumberInv'
<1> USE DEF Basics
<1>0. m_seq \in Nat
  BY DEF TypeOK, IoTypeOK
<1>1. CASE ConnectFails(c)
  <2>1. /\ pc' = [pc EXCEPT ![c] = "done"] /\ ~OnStack(c)' /\ ~Live'
        /\ UNCHANGED <<seq, channel, hdr, closing, m_channels, ioPc, m_seq>>
    BY <1>1 DEF ConnectFails, Return, OnStack, TypeOK, ChannelTypeOK,
                channelVars, Live
  <2>2. m_seq' \in Nat /\ m_seq <= m_seq'
    BY <1>0, <2>1
  <2>3. closing' => ~InCall'
    BY <1>1, <2>1, ReturnsInCall DEF ConnectFails, NumberInv
  <2>4. PICK p : p = "done"
    OBVIOUS
  <2> QED
    BY <2>1, <2>2, <2>3, <2>4, NumberInvMoves
<1>2. CASE ConnectOpens(c)
  <2>1. PICK p : p = "handshake"
    OBVIOUS
  <2>2. /\ pc' = [pc EXCEPT ![c] = p] /\ ~OnStack(c)' /\ ~closing'
        /\ UNCHANGED <<seq, channel, hdr, closing, m_channels, m_seq>>
        /\ ioPc' = "top"
    BY <1>2, <2>1, ThreadsAssumption
    DEF ConnectOpens, MayConnect, MayCall, OnStack, TypeOK, ChannelTypeOK
  <2>3. channel.type # "REQUEST"
    BY <1>2, InHandRuns DEF ConnectOpens, Joinable
  <2>4. m_seq' \in Nat /\ m_seq <= m_seq'
    BY <1>0, <2>2
  <2> QED
    BY <2>2, <2>3, <2>4, NumberInvMoves
<1>3. CASE ConnectTerminates(c)
  <2>1. UNCHANGED <<pc, seq, m_channels, channel, hdr, ioPc, m_seq, Live,
                    closing, owner>>
    BY <1>3 DEF ConnectTerminates, frameVars, ioVars, clientVars, Live
  <2> QED
    BY <1>0, <2>1, NumberInvFrame DEF NumberInv, InCall
<1>4. CASE Handshake(c)
  BY <1>4, HandshakeSends, NumberInvCalls
<1> QED
  BY <1>1, <1>2, <1>3, <1>4 DEF Connect

LEMMA NumberInvClose ==
  ASSUME Basics, NumberInv, Without({"busyClose"}), Close,
         Stranded => Stranded'
  PROVE  NumberInv'
<1> USE DEF Basics
<1>0. m_seq \in Nat
  BY DEF TypeOK, IoTypeOK
<1>1. CASE CloseBegin
  <2>2. closing' => ~InCall'
    BY <1>1, WithoutOne DEF CloseBegin, InCall
  <2>3. UNCHANGED <<pc, seq, m_channels, channel, hdr, ioPc, m_seq, Live>>
    BY <1>1 DEF CloseBegin, frameVars, channelVars, Live
  <2> QED
    BY <1>0, <2>2, <2>3, NumberInvFrame
<1>2. CASE CloseEnd
  <2>1. Stranded \/ \A c \in Calls : pc[c] \in {"idle", "done"}
    BY <1>2, ClosedIdle
  <2>2. ~Live'
    BY <1>2 DEF CloseEnd, IsConnected, ThreadInv, Live
  <2>3. UNCHANGED <<pc, seq, m_channels, channel, hdr, ioPc>> /\ ~closing'
    BY <1>2 DEF CloseEnd, frameVars, channelVars
  <2> QED
    BY <2>1, <2>2, <2>3, NumberInvFrame
<1>3. CASE ListenerCloses
  <2>1. UNCHANGED <<pc, seq, owner, closing, m_channels, Live>>
    BY <1>3 DEF ListenerCloses, frameVars, clientVars, Live
  <2>2. CASE IsConnected
    BY <1>3, <2>1, <2>2, NumberInvEmptied DEF ListenerCloses, BackToDrain
  <2>3. CASE ~IsConnected
    <3>1. Stranded /\ ~Live
      BY <1>3, <2>3
      DEF ListenerCloses, Stranded, IsConnected, Live, Joinable, TypeOK, IoTypeOK
    <3> QED
      BY <1>3, <2>1, <2>3, <3>1, NumberInvFrame
      DEF ListenerCloses, NumberInv, InCall
  <2> QED
    BY <2>2, <2>3
<1> QED
  BY <1>1, <1>2, <1>3 DEF Close

LEMMA NumberInvNext ==
  Without({"busyClose"}) /\ Basics /\ NumberInv /\ [Next]_vars => NumberInv'
<1> SUFFICES ASSUME Without({"busyClose"}), Basics, NumberInv, [Next]_vars
             PROVE  NumberInv'
  OBVIOUS
<1> USE DEF Basics
<1>0. m_seq \in Nat
  BY DEF TypeOK, IoTypeOK
<1> Stranded => Stranded'
  BY StrandedStays
<1>1. ASSUME UNCHANGED <<pc, seq, m_channels, channel, hdr, ioPc, m_seq,
                         closing, owner>>, Live' => Live
      PROVE  NumberInv'
  BY <1>0, <1>1, NumberInvFrame DEF NumberInv, InCall
<1>2. ASSUME NEW t, NEW c, SendKills(t, c) PROVE NumberInv'
  BY <1>1, <1>2 DEF SendKills, frameVars, ioVars, clientVars, Live
<1>3. CASE AgentStep \/ AgentCloses \/ UNCHANGED vars
  BY <1>1, <1>3
  DEF AgentStep, AgentCloses, vars, frameVars, channelVars, ioVars,
      clientVars, Live
<1> QED
  BY <1>2, <1>3, MethodSends, NumberInvCalls, NumberInvFinish,
     NumberInvConnect, NumberInvClose, NumberInvIo DEF Next

LEMMA NumberInvInit == Init => NumberInv
BY NullTypes
DEF Init, ChannelInit, IoInit, NumberInv, OnStack

(* If Close waits for the calls of other threads, every call in progress   *)
(* has a number of its own on this connection, and what m_channels holds   *)
(* under it is the call's own channel or nothing (sendData, processRpc),   *)
(* although m_seq starts from 0 again and m_channels is never emptied.     *)
THEOREM NumberCorrect == Without({"busyClose"}) => (Spec => []NumberInv)
<1> SUFFICES ASSUME Without({"busyClose"}) PROVE Spec => []NumberInv
  OBVIOUS
<1>1. Basics /\ NumberInv /\ [Next]_vars => NumberInv'
  BY NumberInvNext
<1> QED
  BY <1>1, NumberInvInit, BasicsCorrect, PTL DEF Spec

-----------------------------------------------------------------------------
(* What happens to an entry of m_channels, in any step: nothing, unless a  *)
(* request is sent, a listener registered, an entry erased or removed.     *)
Removes(s) ==
    /\ RemoveChannel(s)
    /\ \/ \E c \in Calls : \/ RemoveTimedOut(c) /\ s = seq[c]
                           \/ Unlisten(c) /\ s = arg[c]
       \/ IoDeregister /\ s = hdr.seq

LEMMA EntrySteps ==
  ASSUME TypeOK, OwnerInv, [Next]_vars
  PROVE  \/ UNCHANGED <<m_channels, heap>>
         \/ \E c \in Calls : Sends(c)
         \/ \E c \in Calls : Register(c)
         \/ \E s \in Seqs : Removes(s)
         \/ IoErase
<1>1. ASSUME NEW c \in Calls, SendFails(c)
      PROVE  UNCHANGED <<m_channels, heap>>
  BY <1>1 DEF SendFails, channelVars
<1>2. ASSUME NEW c \in Calls, Finish(c)
      PROVE  \/ UNCHANGED <<m_channels, heap>>
             \/ Register(c)
             \/ \E s \in Seqs : Removes(s)
  <2>1. seq[c] \in Seqs /\ arg[c] \in Seqs
    BY DEF TypeOK, ChannelTypeOK
  <2>2. CASE RemoveTimedOut(c)
    <3>1. RemoveChannel(seq[c])
      BY <2>2 DEF RemoveTimedOut, SentSeq
    <3>2. \E d \in Calls : RemoveTimedOut(d) /\ seq[c] = seq[d]
      BY <2>2
    <3>3. Removes(seq[c])
      BY <3>1, <3>2 DEF Removes
    <3> QED
      BY <2>1, <3>3
  <2>3. CASE Unlisten(c)
    BY <2>1, <2>3 DEF Unlisten, Removes
  <2> QED
    BY <1>2, <2>2, <2>3
    DEF Finish, Consume, CheckPending, channelVars, ioVars
<1>3. ASSUME NEW c \in Calls,
             ConnectFails(c) \/ ConnectOpens(c) \/ ConnectTerminates(c)
      PROVE  UNCHANGED <<m_channels, heap>>
  BY <1>3
  DEF ConnectFails, ConnectOpens, ConnectTerminates, channelVars, ioVars
<1>4. ASSUME IoStep
      PROVE  \/ UNCHANGED <<m_channels, heap>>
             \/ IoErase
             \/ \E s \in Seqs : Removes(s)
  <2>1. CASE IoDeregister
    <3>1. hdr.seq \in Seqs
      BY <2>1, InHandRuns DEF IoDeregister, TypeOK, ChannelTypeOK
    <3> QED
      BY <2>1, <3>1 DEF IoDeregister, Removes
  <2>2. CASE IoProduce
    <3>1. UNCHANGED m_channels
      BY <2>2 DEF IoProduce, IoUnchanged
    <3>2. UNCHANGED heap
      BY <2>2
      DEF IoProduce, Produce, ProduceHeader, ProduceData, ProduceThrows,
          Store, LogProduce, EventProduce, QueryProduce, Deliver, Discard
    <3> QED
      BY <3>1, <3>2
  <2> QED
    BY <1>4, <2>1, <2>2
    DEF IoStep, IoLoop, IoTop, IoExit, IoReceive, IoIdle, IoDrained, IoLookup,
        IoNotify, IoCallbackReturn, IoDangle, Dangle, IoBadSocket,
        NotProducing, IoUnchanged
<1>5. ASSUME Close
      PROVE  UNCHANGED <<m_channels, heap>>
  BY <1>5 DEF Close, CloseBegin, CloseEnd, ListenerCloses, channelVars
<1>6. CASE AgentStep \/ AgentCloses \/ UNCHANGED vars
  BY <1>6 DEF AgentStep, AgentCloses, vars, channelVars, ioVars
<1>7. ASSUME NEW t, NEW c, SendKills(t, c) PROVE UNCHANGED <<m_channels, heap>>
  BY <1>7 DEF SendKills, ioVars
<1> QED
  BY <1>1, <1>2, <1>3, <1>4, <1>5, <1>6, <1>7, MethodSends, HandshakeSends
  DEF Next, Connect

LEMMA LeaksOnlyReusedNext ==
  ASSUME Without({"busyClose"}), Basics, NumberInv, [Next]_vars,
         NEW c \in heap \cap heap', Listed(c), ~Listed(c)'
  PROVE  m_seq = seq[c] /\ m_seq' = m_seq + 1
<1> USE DEF Basics
<1> DEFINE p == Listener(c, cmd[c])
<1>1. PICK s \in Seqs : m_channels[s] = p
  BY DEF Listed
<1>2. /\ p.type \in ListenerTypes /\ p.call = c /\ p # Null
      /\ p.type # "REQUEST" /\ c \in Calls
  BY NullTypes DEF TypeOK, ChannelTypeOK
<1>3. seq[c] = s /\ pc[c] = "done"
  BY <1>1, <1>2 DEF MapInv, ListenerEntries
<1>4. cmd'[c] = cmd[c]
  BY <1>2, <1>3, CallsKeptNext DEF CallsKept
<1>5. m_channels'[s] # p
  BY <1>4 DEF Listed
<1> HIDE DEF p
<1>6. ASSUME NEW d \in Calls, Sends(d)
      PROVE  m_seq = seq[c] /\ m_seq' = m_seq + 1
  BY <1>1, <1>3, <1>5, <1>6, SendsEntries
<1>7. ASSUME NEW d \in Calls, Register(d)
      PROVE  FALSE
  <2>1. OnStack(d) /\ reply[d].seq = seq[d] /\ seq[d] \in Seqs
    BY <1>7
    DEF Register, MapInv, AnswersKeepNumbers, OnStack, TypeOK, ChannelTypeOK
  <2>2. m_channels[seq[d]] \in {Null, Request(d)}
    BY <2>1 DEF NumberInv
  <2>3. seq[d] # s
    BY <1>1, <1>2, <2>2, NullTypes
  <2>4. m_channels'[s] = m_channels[s]
    BY <1>7, <2>1, <2>3, AddChannelEntries DEF Register, AnsweredSeq
  <2> QED
    BY <1>1, <1>5, <2>4
<1>8. ASSUME NEW z \in Seqs, RemoveChannel(z)
      PROVE  FALSE
  <2>1. z = s
    BY <1>1, <1>5, <1>8, RemoveChannelEntries
  <2>2. heap' = heap \ {c}
    BY <1>1, <1>2, <1>8, <2>1 DEF RemoveChannel
  <2> QED
    BY <2>2
<1>9. ASSUME IoErase
      PROVE  FALSE
  <2>1. /\ ioPc = "found"
        /\ m_channels' = IF channel.type = "REQUEST"
                         THEN [m_channels EXCEPT ![hdr.seq] = Null]
                         ELSE m_channels
    BY <1>9 DEF IoErase, Erased
  <2>2. channel.type = "REQUEST" => hdr.seq # s
    BY <1>1, <1>2, <2>1 DEF NumberInv
  <2>3. m_channels'[s] = m_channels[s]
    BY <2>1, <2>2 DEF TypeOK, IoTypeOK
  <2> QED
    BY <1>1, <1>5, <2>3
<1> QED
  BY <1>1, <1>5, <1>6, <1>7, <1>8, <1>9, EntrySteps DEF Removes

(* If Close waits for the calls of other threads, the channel of a         *)
(* listener is lost only to a call of a later connection that is handed    *)
(* the number the listener is registered under (addChannel in sendData     *)
(* overwrites the entry; m_channels is never cleared).                     *)
THEOREM LeaksOnReuse == Without({"busyClose"}) => (Spec => LeaksOnlyReused)
<1> SUFFICES ASSUME Without({"busyClose"}) PROVE Spec => LeaksOnlyReused
  OBVIOUS
<1>1. Basics /\ NumberInv /\ [Next]_vars =>
         [\A c \in heap \cap heap' :
             Listed(c) /\ ~Listed(c)' => m_seq = seq[c] /\ m_seq' = m_seq + 1]_vars
  BY LeaksOnlyReusedNext
<1> QED
  BY <1>1, NumberCorrect, BasicsCorrect, PTL DEF Spec, LeaksOnlyReused

-----------------------------------------------------------------------------
(* What a step does to calls, to what is in transit, to the channel in     *)
(* hand and to the replies.                                                *)

(* The methods' program counter. *)
MovesOn(a, b) ==
    \/ a = "wait" /\ b = "check"
    \/ a = "check" /\ b \in {"done", "register", "unlisten", "remove"}
    \/ a \in {"remove", "register", "unlisten"} /\ b = "done"
    \/ a \in {"idle", "handshake"} /\ b \in {"handshake", "done"}

LEMMA CallMoves ==
  ASSUME TypeOK, OwnerInv, [Next]_vars
  PROVE  \/ \E c \in Calls : Sends(c)
         \/ UNCHANGED pc
         \/ \E c \in Calls, p \in CallPcs : /\ pc' = [pc EXCEPT ![c] = p]
                                           /\ MovesOn(pc[c], p)
<1> DEFINE Moves == \E c \in Calls, p \in CallPcs : /\ pc' = [pc EXCEPT ![c] = p]
                                                 /\ MovesOn(pc[c], p)
<1>0. {"done", "handshake", "check", "register", "unlisten", "remove"}
         \subseteq CallPcs
  BY DEF CallPcs
<1>1. ASSUME NEW c \in Calls, SendFails(c)
      PROVE  Moves
  BY <1>0, <1>1 DEF SendFails, Return, MovesOn
<1>2. ASSUME NEW c \in Calls, Finish(c)
      PROVE  Moves
  <2>1. CASE Consume(c)
    BY <1>0, <2>1 DEF Consume, MovesOn
  <2>2. CASE CheckPending(c)
    <3>1. PICK p \in {"done", "register", "unlisten", "remove"} :
            pc' = [pc EXCEPT ![c] = p]
      BY <2>2 DEF CheckPending, AfterReply, AfterTimeout, Return
    <3> QED
      BY <1>0, <2>2, <3>1 DEF CheckPending, MovesOn
  <2>3. CASE RemoveTimedOut(c) \/ Register(c) \/ Unlisten(c)
    BY <1>0, <2>3 DEF RemoveTimedOut, Register, Unlisten, Return, MovesOn
  <2> QED
    BY <1>2, <2>1, <2>2, <2>3 DEF Finish
<1>3. ASSUME NEW c \in Calls, ConnectFails(c) \/ ConnectOpens(c)
      PROVE  Moves
  <2>1. pc[c] = "idle"
    BY <1>3 DEF ConnectFails, ConnectOpens, MayConnect, Fresh
  <2>2. PICK p \in {"done", "handshake"} : pc' = [pc EXCEPT ![c] = p]
    BY <1>3 DEF ConnectFails, ConnectOpens, Return
  <2> QED
    BY <1>0, <2>1, <2>2 DEF MovesOn
<1>4. ASSUME \/ Close \/ AgentStep \/ AgentCloses \/ IoStep \/ UNCHANGED vars
             \/ \E t, c : SendKills(t, c)
             \/ \E c : ConnectTerminates(c)
      PROVE  UNCHANGED pc
  BY <1>4
  DEF Close, CloseBegin, CloseEnd, ListenerCloses, AgentStep, AgentCloses,
      IoStep, IoLoop, IoTop, IoExit, IoReceive, IoIdle, IoDrained, IoLookup,
      IoErase, IoProduce, IoNotify, IoCallbackReturn, IoDeregister, IoDangle,
      IoBadSocket, SendKills, ConnectTerminates, vars, frameVars
<1> HIDE DEF Moves
<1>5. (\E c \in Calls : Sends(c)) \/ UNCHANGED pc \/ Moves
  BY <1>1, <1>2, <1>3, <1>4, MethodSends, HandshakeSends DEF Next, Connect
<1> QED
  BY <1>5 DEF Moves

LEMMA CallSteps ==
  ASSUME TypeOK, OwnerInv, [Next]_vars
  PROVE  \/ \E c \in Calls : Sends(c)
         \/ \A c \in Calls : OnStack(c)' => OnStack(c)
<1>1. CASE UNCHANGED pc
  BY <1>1 DEF OnStack
<1>2. ASSUME NEW c \in Calls, NEW p, pc' = [pc EXCEPT ![c] = p],
             MovesOn(pc[c], p)
      PROVE  \A d \in Calls : OnStack(d)' => OnStack(d)
  BY <1>2 DEF MovesOn, OnStack, TypeOK, ChannelTypeOK
<1> QED
  BY <1>1, <1>2, CallMoves

(* Only a call that sends its request joins those that talk or are due. *)
LEMMA SendsTalking ==
  ASSUME TypeOK, NEW c \in Calls, Sends(c)
  PROVE  Talking' \subseteq Talking \cup {c} /\ Due' \subseteq Due \cup {c}
<1>1. UNCHANGED <<UnreadHeaders, InHand, subs>>
  BY SendsEffect DEF Sends
<1>2. \A r \in requests' : r \in requests \/ r.call = c
  BY DEF Sends
<1>3. \A x \in InTransit' : x \in InTransit \/ x.call = c
  BY <1>1, <1>2 DEF InTransit
<1> QED
  BY <1>1, <1>2, <1>3 DEF Talking, Due

LEMMA AgentTalking ==
  ASSUME TypeOK, AgentStep
  PROVE  Talking' \subseteq Talking /\ Due' \subseteq Due
<1>0. UNCHANGED <<unpacker, hdr>>
  BY DEF AgentStep, channelVars
<1>1. ASSUME NEW r \in requests \cup subs,
             NEW w \in {"reply", "record", "done"}, NEW t,
             Message(r, w, t), wire' = wire \o t,
             requests' \subseteq requests, subs' \subseteq subs \cup {r},
             w = "reply" => r \in requests
      PROVE  Talking' \subseteq Talking /\ Due' \subseteq Due
  <2>1. \A h \in UnreadHeaders' : \/ h \in UnreadHeaders
                                  \/ h.call = r.call /\ h.what = w
    BY <1>0, <1>1, MessageObjects
  <2>2. UNCHANGED InHand
    BY <1>0 DEF InHand
  <2>3. \A x \in InTransit' : x \in InTransit \/ x.call = r.call
    BY <1>1, <2>1, <2>2 DEF InTransit
  <2>4. r.call \in Talking /\ (w = "reply" => r.call \in Due)
    BY <1>1 DEF Talking, InTransit, Due
  <2>5. \A h \in UnreadHeaders' : h.what = "reply" => h.call \in Due
    BY <2>1, <2>4 DEF Due
  <2> QED
    BY <1>1, <2>3, <2>4, <2>5 DEF Talking, Due
<1>2. CASE wire' = wire /\ requests' \subseteq requests /\ subs' = subs
  <2>1. NothingNew
    BY <1>0, <1>2 DEF NothingNew, Objects
  <2> QED
    BY <2>1, NothingNewHeaders
<1>3. ASSUME NEW r \in requests, Answered(r)
      PROVE  Talking' \subseteq Talking /\ Due' \subseteq Due
  BY <1>1, <1>3 DEF Answered
<1>4. ASSUME NEW q \in subs, Published(q)
      PROVE  Talking' \subseteq Talking /\ Due' \subseteq Due
  <2>1. PICK t, w : /\ w \in {"record", "done"}
                    /\ Message(q, w, t) /\ wire' = wire \o t
    BY <1>4 DEF Published
  <2>2. w \in {"reply", "record", "done"} /\ w # "reply"
    BY <2>1
  <2> QED
    BY <1>1, <1>4, <2>1, <2>2 DEF Published
<1> QED
  BY <1>2, <1>3, <1>4, AgentEffect

LEMMA TalkingSteps ==
  ASSUME TypeOK, ThreadInv, OwnerInv, [Next]_vars
  PROVE  \/ \E c \in Calls : /\ Sends(c) /\ Talking' \subseteq Talking \cup {c}
                             /\ Due' \subseteq Due \cup {c}
         \/ /\ Talking' \subseteq Talking /\ Due' \subseteq Due
            /\ \A c \in Calls : ~Sends(c)
<1>1. CASE \E c \in Calls : Sends(c)
  BY <1>1, SendsTalking
<1>2. CASE \A c \in Calls : ~Sends(c)
  BY <1>2, TrafficSteps, TrafficKeptNothingNew, IoNothingNew,
     NothingNewHeaders, AgentTalking
<1> QED
  BY <1>1, <1>2

LEMMA HandSteps ==
  ASSUME TypeOK, OwnerInv, [Next]_vars
  PROVE  \/ UNCHANGED <<channel, hdr>>
         \/ channel' = Null
         \/ IoStep /\ IoLookup /\ ioPc' = "found"
<1>1. ASSUME NEW c \in Calls, Sends(c) \/ SendFails(c)
      PROVE  UNCHANGED <<channel, hdr>>
  BY <1>1 DEF Sends, SendFails, channelVars
<1>2. ASSUME NEW c \in Calls, Finish(c)
      PROVE  UNCHANGED <<channel, hdr>>
  BY <1>2
  DEF Finish, Consume, CheckPending, RemoveTimedOut, Register, Unlisten,
      ChannelStep, channelVars
<1>3. ASSUME NEW c \in Calls,
             ConnectFails(c) \/ ConnectOpens(c) \/ ConnectTerminates(c)
      PROVE  UNCHANGED <<channel, hdr>>
  BY <1>3 DEF ConnectFails, ConnectOpens, ConnectTerminates, channelVars
<1>4. ASSUME IoStep, ~IoLookup
      PROVE  UNCHANGED <<channel, hdr>> \/ channel' = Null
  BY <1>4
  DEF IoStep, IoLoop, IoTop, IoExit, IoReceive, IoIdle, IoDrained,
      IoErase, IoProduce, IoNotify, IoCallbackReturn, IoDeregister,
      IoDangle, Dangle, IoBadSocket, NotProducing, Produce, ProduceHeader,
      ProduceData, ProduceThrows, Store, LogProduce, EventProduce,
      QueryProduce, Deliver, Discard, BackToDrain
<1>5. ASSUME IoLookup
      PROVE  UNCHANGED <<channel, hdr>> \/ ioPc' = "found"
  BY <1>5 DEF IoLookup
<1>6. CASE \/ Close \/ AgentStep \/ AgentCloses \/ UNCHANGED vars
           \/ \E t, c : SendKills(t, c)
  BY <1>6
  DEF Close, CloseBegin, CloseEnd, ListenerCloses, BackToDrain, AgentStep,
      AgentCloses, SendKills, vars, channelVars
<1> QED
  BY <1>1, <1>2, <1>3, <1>4, <1>5, <1>6, MethodSends, HandshakeSends
  DEF Next, Connect

LEMMA ReplySteps ==
  ASSUME TypeOK, OwnerInv, [Next]_vars
  PROVE  UNCHANGED reply \/ (IoStep /\ IoProduce /\ channel.type = "REQUEST")
<1>1. ASSUME NEW c \in Calls, Sends(c) \/ SendFails(c)
      PROVE  UNCHANGED reply
  BY <1>1 DEF Sends, SendFails, channelVars
<1>2. ASSUME NEW c \in Calls, Finish(c)
      PROVE  UNCHANGED reply
  BY <1>2
  DEF Finish, Consume, CheckPending, RemoveTimedOut, Register, Unlisten,
      ChannelStep, channelVars
<1>3. ASSUME NEW c \in Calls,
             ConnectFails(c) \/ ConnectOpens(c) \/ ConnectTerminates(c)
      PROVE  UNCHANGED reply
  BY <1>3 DEF ConnectFails, ConnectOpens, ConnectTerminates, channelVars
<1>4. ASSUME IoStep, ~IoProduce
      PROVE  UNCHANGED reply
  BY <1>4
  DEF IoStep, IoLoop, IoTop, IoExit, IoReceive, IoIdle, IoDrained, IoLookup,
      IoErase, IoNotify, IoCallbackReturn, IoDeregister,
      IoDangle, Dangle, IoBadSocket, NotProducing
<1>5. ASSUME IoProduce, channel.type # "REQUEST"
      PROVE  UNCHANGED reply
  BY <1>5
  DEF IoProduce, Produce, LogProduce, EventProduce, QueryProduce, Deliver,
      Discard
<1>6. CASE \/ Close \/ AgentStep \/ AgentCloses \/ UNCHANGED vars
           \/ \E t, c : SendKills(t, c)
  BY <1>6
  DEF Close, CloseBegin, CloseEnd, ListenerCloses, AgentStep,
      AgentCloses, SendKills, vars, channelVars
<1> QED
  BY <1>1, <1>2, <1>3, <1>4, <1>5, <1>6, MethodSends, HandshakeSends
  DEF Next, Connect

-----------------------------------------------------------------------------
(* Layer 5: number 0 belongs to the handshake. *)

(* While m_seq is 0 the handshake has not been sent. *)
LEMMA ZeroSteps ==
  ASSUME TypeOK, ThreadInv, OwnerInv, [Next]_vars, Live', m_seq' = 0
  PROVE  \/ \E c \in Calls : pc'[c] = "handshake"
         \/ /\ Live /\ m_seq = 0
            /\ \A c \in Calls : pc[c] = "handshake" => pc'[c] = "handshake"
<1>1. ASSUME NEW c \in Calls, Sends(c) \/ SendFails(c)
      PROVE  FALSE
  <2>1. m_seq \in Nat /\ m_seq' = m_seq + 1
    BY <1>1, SeqsNat DEF Sends, SendFails
  <2> QED
    BY <2>1
<1>2. ASSUME UNCHANGED m_seq, Live,
             \A c \in Calls : pc[c] = "handshake" => pc'[c] = "handshake"
      PROVE  /\ Live /\ m_seq = 0
             /\ \A c \in Calls : pc[c] = "handshake" => pc'[c] = "handshake"
  BY <1>2
<1>3. ASSUME NEW c \in Calls, Finish(c)
      PROVE  /\ Live /\ m_seq = 0
             /\ \A d \in Calls : pc[d] = "handshake" => pc'[d] = "handshake"
  <2>1. UNCHANGED <<m_seq, m_socket>> /\ pc[c] # "handshake"
    BY <1>3
    DEF Finish, Consume, CheckPending, RemoveTimedOut, Register, Unlisten,
        ChannelStep, ioVars
  <2>2. \E p : pc' = [pc EXCEPT ![c] = p]
    BY <1>3
    DEF Finish, Consume, CheckPending, AfterReply, AfterTimeout, Return,
        RemoveTimedOut, Register, Unlisten
  <2> QED
    BY <1>2, <2>1, <2>2 DEF Live, TypeOK, ChannelTypeOK
<1>4. ASSUME NEW c \in Calls, ConnectFails(c)
      PROVE  FALSE
  BY <1>4 DEF ConnectFails, Live
<1>5. ASSUME NEW c \in Calls, ConnectOpens(c)
      PROVE  pc'[c] = "handshake"
  BY <1>5 DEF ConnectOpens, TypeOK, ChannelTypeOK
<1>6. ASSUME IoStep
      PROVE  UNCHANGED <<m_seq, pc>> /\ Live
  BY <1>6, IoNothingNew
  DEF IoStep, IoLoop, IoTop, IoExit, IoReceive, IoIdle, IoDrained, IoLookup,
      IoErase, IoProduce, IoNotify, IoCallbackReturn, IoDeregister, IoDangle,
      IoBadSocket, frameVars
<1>7. ASSUME CloseEnd
      PROVE  FALSE
  BY <1>7 DEF CloseEnd, IsConnected, ThreadInv, Live
<1>8. CASE \/ CloseBegin \/ AgentStep \/ AgentCloses \/ UNCHANGED vars
           \/ \E t, c : SendKills(t, c)
           \/ \E c : ConnectTerminates(c)
  <2>1. UNCHANGED <<m_seq, pc>> /\ Live
    BY <1>8
    DEF CloseBegin, AgentStep, AgentCloses, SendKills, ConnectTerminates,
        vars, frameVars, ioVars, Live
  <2> QED
    BY <1>2, <2>1
<1>9. CASE ListenerCloses
  <2>1. UNCHANGED <<m_socket, pc>>
    BY <1>9 DEF ListenerCloses, frameVars
  <2>2. Live /\ IsConnected
    BY <2>1 DEF Live, IsConnected
  <2>3. UNCHANGED m_seq
    BY <1>9, <2>2 DEF ListenerCloses
  <2> QED
    BY <1>2, <2>1, <2>2, <2>3
<1> QED
  BY <1>1, <1>3, <1>4, <1>5, <1>6, <1>7, <1>8, <1>9, <1>2, MethodSends,
     HandshakeSends DEF Next, Connect, Close

(* Without these a call's request is sent on a connection that is being    *)
(* set up only by Connect itself.                                          *)
LEMMA SendsInOrder ==
  ASSUME TypeOK, OwnerInv, Without({"earlyCall", "fdReuse"}),
         NEW c \in Calls, Sends(c)
  PROVE  /\ Live
         /\ Connecting => pc[c] = "handshake"
         /\ pc[c] = "handshake" => cmd'[c] = "handshake"
<1>1. "earlyCall" \notin Faults /\ "fdReuse" \notin Faults
  BY WithoutOne
<1>2. Live /\ (Connecting => pc[c] = "handshake")
  BY <1>1 DEF Sends, Live
<1> QED
  BY <1>2 DEF Sends, OwnerInv

LEMMA HandshakeConnects ==
  ASSUME OwnerInv, NEW c \in Calls,
         pc[c] = "handshake" \/ (OnStack(c) /\ cmd[c] = "handshake")
  PROVE  Connecting
BY DEF OwnerInv, OnStack, Connecting

LEMMA ZeroInvNext ==
  ASSUME Without({"earlyCall", "fdReuse"}), Basics, ZeroInv, [Next]_vars
  PROVE  ZeroInv'
<1> USE DEF Basics
<1>1. Live' /\ m_seq' = 0 => \E c \in Calls : pc'[c] = "handshake"
  BY ZeroSteps DEF ZeroInv
<1>2. ASSUME NEW c \in Calls, OnStack(c)', seq'[c] = 0
      PROVE  cmd'[c] = "handshake"
  <2>1. CASE OnStack(c)
    <3>1. seq'[c] = seq[c] /\ cmd'[c] = cmd[c]
      BY <2>1, CallsKeptNext DEF CallsKept, OnStack
    <3> QED
      BY <1>2, <2>1, <3>1 DEF ZeroInv
  <2>2. CASE ~OnStack(c)
    <3>1. PICK d \in Calls : Sends(d)
      BY <1>2, <2>2, CallSteps
    <3>2. d = c
      BY <1>2, <2>2, <3>1, SendsEntries
    <3>3. m_seq = 0 /\ Live
      BY <1>2, <3>1, <3>2, SendsEntries, SendsInOrder
    <3>4. Connecting
      BY <3>3, HandshakeConnects DEF ZeroInv
    <3> QED
      BY <3>1, <3>2, <3>4, SendsInOrder
  <2> QED
    BY <2>1, <2>2
<1>3. m_channels'[0].type \notin ListenerTypes
  <2>0. 0 \in Seqs /\ m_channels[0].type \notin ListenerTypes
    BY SeqsNat DEF ZeroInv
  <2>1. ASSUME NEW c \in Calls, Sends(c)
        PROVE  m_channels'[0].type \notin ListenerTypes
    BY <2>0, <2>1, SendsEntries, NullTypes
  <2>2. ASSUME NEW c \in Calls, Register(c)
        PROVE  m_channels'[0].type \notin ListenerTypes
    <3>1. /\ OnStack(c) /\ cmd[c] \in ListenerCommands
          /\ reply[c].seq = seq[c] /\ seq[c] \in Seqs
      BY <2>2
      DEF Register, OwnerInv, MapInv, AnswersKeepNumbers, OnStack, TypeOK,
          ChannelTypeOK
    <3>2. seq[c] # 0
      BY <3>1 DEF ZeroInv, ListenerCommands
    <3>3. m_channels'[0] = m_channels[0]
      BY <2>0, <2>2, <3>1, <3>2, AddChannelEntries DEF Register, AnsweredSeq
    <3> QED
      BY <2>0, <3>3
  <2>3. ASSUME NEW s \in Seqs, RemoveChannel(s)
        PROVE  m_channels'[0].type \notin ListenerTypes
    BY <2>0, <2>3, RemoveChannelEntries, NullTypes
  <2>4. ASSUME IoErase
        PROVE  m_channels'[0].type \notin ListenerTypes
    <3>1. m_channels'[0] \in {m_channels[0], Null}
      BY <2>0, <2>4 DEF IoErase, Erased, TypeOK, IoTypeOK
    <3> QED
      BY <2>0, <3>1, NullTypes
  <2> QED
    BY <2>0, <2>1, <2>2, <2>3, <2>4, EntrySteps DEF Removes
<1> QED
  BY <1>1, <1>2, <1>3 DEF ZeroInv

(* Connect is in progress from ConnectOpens on.                            *)
LEMMA ConnectingSteps ==
  ASSUME TypeOK, OwnerInv, [Next]_vars, Connecting'
  PROVE  Connecting \/ \E c \in Calls : ConnectOpens(c)
<1>1. PICK d \in Calls : owner'[d] = Main /\ cmd'[d] = "handshake"
  BY DEF Connecting
<1>2. NoThread # Main
  BY ThreadsAssumption
<1>3. ASSUME owner'[d] = owner[d], cmd'[d] = cmd[d]
      PROVE  Connecting
  BY <1>1, <1>3 DEF Connecting
<1>4. ASSUME NEW c \in Calls, NEW r, Return(c, r), UNCHANGED cmd
      PROVE  Connecting
  BY <1>1, <1>2, <1>4 DEF Return, Connecting, TypeOK
<1>5. ASSUME NEW t \in Threads \cup {IoThread}, NEW c \in Calls,
             RpcMethod(t, c)
      PROVE  Connecting
  <2>1. PICK k \in Commands, a \in Seqs : Call(t, c, k, a)
    BY <1>5, RpcMethodIsCall
  <2>2. k # "handshake" /\ cmd' = [cmd EXCEPT ![c] = k]
    BY <2>1, CommandsAssumption DEF Call
  <2>3. d # c /\ cmd'[d] = cmd[d]
    BY <1>1, <2>2 DEF TypeOK, ChannelTypeOK
  <2>4. owner' = [owner EXCEPT ![c] = t] \/ owner' = [owner EXCEPT ![c] = NoThread]
    BY <2>1 DEF Call, Return
  <2>5. owner'[d] = owner[d]
    BY <2>3, <2>4 DEF TypeOK
  <2> QED
    BY <1>3, <2>3, <2>5
<1>6. ASSUME NEW c \in Calls, Finish(c)
      PROVE  Connecting
  <2>1. UNCHANGED cmd
    BY <1>6
    DEF Finish, Consume, CheckPending, RemoveTimedOut, Register, Unlisten,
        ChannelStep
  <2>2. UNCHANGED owner \/ \E r : Return(c, r)
    BY <1>6
    DEF Finish, Consume, CheckPending, AfterReply, AfterTimeout,
        RemoveTimedOut, Register, Unlisten, clientVars
  <2> QED
    BY <1>3, <1>4, <2>1, <2>2
<1>7. ASSUME NEW c \in Calls,
             ConnectFails(c) \/ ConnectTerminates(c) \/ Handshake(c)
      PROVE  Connecting
  <2>1. UNCHANGED cmd /\ (UNCHANGED owner \/ \E r : Return(c, r))
    BY <1>7
    DEF ConnectFails, ConnectTerminates, Handshake, frameVars, clientVars
  <2> QED
    BY <1>3, <1>4, <2>1
<1>8. CASE \/ Close \/ IoStep \/ AgentStep \/ AgentCloses \/ UNCHANGED vars
           \/ \E t, c : SendKills(t, c)
  <2>1. UNCHANGED owner
    BY <1>8
    DEF Close, CloseBegin, CloseEnd, ListenerCloses, IoStep, AgentStep,
        AgentCloses, SendKills, vars, clientVars
  <2>2. UNCHANGED cmd
    BY <1>8
    DEF Close, CloseBegin, CloseEnd, ListenerCloses, AgentStep, AgentCloses,
        IoStep, IoLoop, IoTop, IoExit, IoReceive, IoIdle, IoDrained, IoLookup,
        IoErase, IoProduce, IoNotify, IoCallbackReturn, IoDeregister,
        IoDangle, IoBadSocket, SendKills, vars, frameVars
  <2> QED
    BY <1>3, <2>1, <2>2
<1> QED
  BY <1>5, <1>6, <1>7, <1>8 DEF Next, Connect

LEMMA ConnectInvAgent ==
  ASSUME TypeOK, TransitInv, ConnectInv, Connecting, AgentStep
  PROVE  /\ subs' = {}
         /\ \A r \in requests' : r.cmd = "handshake"
         /\ \A o \in Objects' : o.kind = "header"
<1>0. /\ UNCHANGED <<unpacker, hdr>> /\ subs = {}
      /\ \A r \in requests : r.cmd = "handshake"
      /\ \A o \in Objects : o.kind = "header"
  BY DEF AgentStep, channelVars, ConnectInv
<1>1. CASE wire' = wire /\ requests' \subseteq requests /\ subs' = subs
  BY <1>0, <1>1 DEF Objects
<1>2. ASSUME NEW r \in requests, Answered(r)
      PROVE  /\ subs' = {} /\ requests' \subseteq requests
             /\ \A o \in Objects' : o.kind = "header"
  <2>1. PICK t : Message(r, "reply", t) /\ wire' = wire \o t
    BY <1>2 DEF Answered
  <2>2. /\ r.cmd \notin ListenerCommands /\ ~HasBody(r.cmd)
        /\ r \in RequestMessage
    BY <1>0, <1>2
    DEF ListenerCommands, HasBody, DataCommands, TypeOK, AgentTypeOK
  <2>3. subs' = {} /\ requests' \subseteq requests
    BY <1>0, <1>2, <2>2 DEF Answered
  <2>4. t \in Seq(Object) /\ Len(t) = 1 /\ t[1].kind = "header"
    BY <2>1, <2>2, MessageIs
  <2>5. \A o \in Range(t) : o.kind = "header"
    BY <2>4, RangeIs
  <2>6. wire \in Seq(Object) /\ Range(wire') = Range(wire) \cup Range(t)
    BY <2>1, <2>4, RangeConcat DEF TypeOK, AgentTypeOK
  <2>7. \A o \in Objects' : o.kind = "header"
    BY <1>0, <2>5, <2>6 DEF Objects
  <2> QED
    BY <2>3, <2>7
<1> QED
  BY <1>0, <1>1, <1>2, AgentEffect

LEMMA ConnectInvNext ==
  ASSUME Without({"earlyCall", "fdReuse"}), Basics, ConnectInv, [Next]_vars
  PROVE  ConnectInv'
<1> USE DEF Basics
<1> SUFFICES ASSUME Connecting'
             PROVE  /\ subs' = {}
                    /\ \A r \in requests' : r.cmd = "handshake"
                    /\ \A o \in Objects' : o.kind = "header"
  BY DEF ConnectInv
<1>1. ASSUME NEW c \in Calls, ConnectOpens(c)
      PROVE  subs' = {} /\ requests' = {} /\ Objects' = {}
  BY <1>1, NothingInTransit DEF ConnectOpens, Joinable, agentVars, Objects
<1>2. CASE Connecting
  <2>1. /\ subs = {}
        /\ \A r \in requests : r.cmd = "handshake"
        /\ \A o \in Objects : o.kind = "header"
    BY <1>2 DEF ConnectInv
  <2>2. CASE NothingNew
    BY <2>1, <2>2 DEF NothingNew
  <2>3. ASSUME NEW c \in Calls, Sends(c)
        PROVE  /\ subs' = {} /\ Objects' = Objects
               /\ \A r \in requests' : r.cmd = "handshake"
    <3>1. cmd'[c] = "handshake"
      BY <1>2, <2>3, SendsInOrder
    <3>2. \A r \in requests' : r \in requests \/ r.cmd = cmd'[c]
      BY <2>3 DEF Sends
    <3> QED
      BY <2>1, <2>3, <3>1, <3>2, SendsEffect DEF Sends
  <2> QED
    BY <1>2, <2>1, <2>2, <2>3, TrafficSteps, TrafficKeptNothingNew,
       IoNothingNew, ConnectInvAgent
<1> QED
  BY <1>1, <1>2, ConnectingSteps

(* Until its handshake is over nothing but headers arrives on a connection,*)
(* and so no body is looked up under number 0 while its entry is there.    *)
LEMMA BodyLookup ==
  ASSUME TypeOK, MapInv, OwnerInv, ZeroInv, ConnectInv,
         NEW o \in Objects, o.kind = "body"
  PROVE  m_channels[0] = Null
<1>1. 0 \in Seqs /\ m_channels[0] \in Pointer
  BY SeqsNat DEF TypeOK, IoTypeOK
<1>2. CASE m_channels[0].type = "REQUEST"
  <2> DEFINE c == m_channels[0].call
  <2>1. c \in Calls /\ seq[c] = 0 /\ OnStack(c)
    BY <1>1, <1>2, EntryTypes DEF MapInv, RequestEntries, OnStack
  <2>2. Connecting
    BY <2>1, HandshakeConnects DEF ZeroInv
  <2> QED
    BY <2>2 DEF ConnectInv
<1> QED
  BY <1>1, <1>2, EntryTypes DEF ZeroInv

LEMMA BodyIgnored ==
  ASSUME TypeOK, MapInv, OwnerInv, ZeroInv, ConnectInv, IoLookup,
         ioPc' = "found"
  PROVE  /\ Head(unpacker) \in UnreadHeaders /\ hdr' = Head(unpacker)
         /\ hdr'.kind = "header" /\ hdr'.call \in Talking
         /\ hdr'.what = "reply" => hdr'.call \in Due
<1>1. Head(unpacker) \in Objects
  BY LookupEffect DEF Objects
<1>2. Head(unpacker).kind # "body"
  <2>1. m_channels[hdr'.seq] # Null
    BY LookupEffect DEF IoLookup, Known
  <2> QED
    BY <1>1, <2>1, LookupEffect, BodyLookup
<1>3. Head(unpacker).kind = "header" /\ hdr' = Head(unpacker)
  BY <1>2, LookupEffect
<1>4. Head(unpacker) \in UnreadHeaders
  BY <1>1, <1>3 DEF UnreadHeaders, Objects
<1> QED
  BY <1>3, <1>4 DEF Talking, Due, InTransit

(* What produce leaves in the channel of a request. *)
LEMMA StoreEffect ==
  ASSUME TypeOK, IoProduce, channel.type = "REQUEST"
  PROVE  LET c == channel.call IN
         /\ c \in Calls /\ OnStack(c)
         /\ ioPc = "produce" /\ UNCHANGED <<pc, cmd, seq>>
         /\ \A d \in Calls \ {c} : reply'[d] = reply[d]
         /\ reply'[c].pending = reply[c].pending \/ reply'[c].of = hdr.call
         /\ ~reply'[c].pending
               \/ /\ reply'[c].of = hdr.call /\ reply'[c].err = hdr.err
                  /\ HasBody(cmd[c]) /\ unpacker # <<>> =>
                        reply'[c].data = DataFrom(c, Head(unpacker))
               \/ reply[c].pending
<1> DEFINE c == channel.call
<1>1. c \in Calls /\ OnStack(c) /\ ioPc = "produce"
      /\ UNCHANGED <<pc, cmd, seq>>
  BY InHandRuns DEF IoProduce, Alive, ListenerTypes, frameVars
<1>2. ProduceHeader(c) \/ ProduceData(c) \/ ProduceThrows(c)
  BY DEF IoProduce, Produce
<1>3. reply \in [Calls -> Reply]
  BY DEF TypeOK, ChannelTypeOK
<1>4. ASSUME NEW x, Store(c, x)
      PROVE  /\ \A d \in Calls \ {c} : reply'[d] = reply[d]
             /\ reply'[c].of = hdr.call /\ reply'[c].err = hdr.err
             /\ reply'[c].data = x
  BY <1>1, <1>3, <1>4 DEF Store
<1>5. CASE ProduceHeader(c)
  <2>1. ~(HasBody(cmd[c]) /\ unpacker # <<>>)
    BY <1>5 DEF ProduceHeader, TakesBody
  <2> QED
    BY <1>1, <1>4, <1>5, <2>1 DEF ProduceHeader
<1>6. CASE ProduceData(c)
  BY <1>1, <1>4, <1>6 DEF ProduceData
<1>7. CASE ProduceThrows(c)
  <2>1. /\ \A d \in Calls \ {c} : reply'[d] = reply[d]
        /\ reply'[c].pending = reply[c].pending
    BY <1>1, <1>3, <1>7 DEF ProduceThrows
  <2> QED
    BY <1>1, <2>1
<1> QED
  BY <1>2, <1>5, <1>6, <1>7

LEMMA MatchInvEntries ==
  ASSUME Without({"earlyCall", "fdReuse"}), Basics, MatchInv, [Next]_vars,
         NEW c \in Talking', m_channels'[seq'[c]].type = "REQUEST"
  PROVE  m_channels'[seq'[c]].call = c
<1> USE DEF Basics
<1>1. ASSUME NEW d \in Calls, Sends(d)
      PROVE  m_channels'[seq'[c]].call = c
  <2>1. CASE c = d
    BY <1>1, <2>1, SendsEntries, NullTypes
  <2>2. CASE c # d
    <3>1. c \in Talking /\ c \in Calls
      BY <1>1, <2>2, SendsTalking, TransitType
    <3>2. seq[c] < m_seq /\ seq[c] \in Seqs
      BY <1>1, <3>1, SendsInOrder
      DEF TransitInv, Talking, TypeOK, ChannelTypeOK
    <3>3. seq[c] # m_seq
      BY <1>1, <3>2, SendsEntries, SeqsNat
    <3>4. seq'[c] = seq[c] /\ m_channels'[seq[c]] = m_channels[seq[c]]
      BY <1>1, <2>2, <3>1, <3>2, <3>3, SendsEntries
    <3> QED
      BY <3>1, <3>4 DEF MatchInv
  <2> QED
    BY <2>1, <2>2
<1>2. ASSUME \A d \in Calls : ~Sends(d)
      PROVE  /\ c \in Talking /\ c \in Calls /\ seq'[c] = seq[c]
             /\ seq[c] \in Seqs
  <2>1. c \in Talking /\ c \in Calls
    BY <1>2, TalkingSteps, TransitType
  <2>2. pc[c] \notin {"idle", "handshake"}
    BY <2>1 DEF TransitInv, Talking
  <2> QED
    BY <2>1, <2>2, CallsKeptNext DEF CallsKept, TypeOK, ChannelTypeOK
<1>3. ASSUME \A d \in Calls : ~Sends(d),
             m_channels'[seq[c]] \in {m_channels[seq[c]], Null}
      PROVE  m_channels'[seq'[c]].call = c
  BY <1>2, <1>3, NullTypes DEF MatchInv
<1>4. ASSUME \A d \in Calls : ~Sends(d), NEW d \in Calls, Register(d)
      PROVE  m_channels'[seq'[c]].call = c
  <2>1. reply[d].seq = seq[d] /\ seq[d] \in Seqs
    BY <1>4
    DEF Register, MapInv, AnswersKeepNumbers, TypeOK, ChannelTypeOK
  <2>2. seq[d] = seq[c] => m_channels'[seq[c]].type # "REQUEST"
    BY <1>4, <2>1, AddChannelEntries, NullTypes DEF Register, AnsweredSeq
  <2>3. seq[d] # seq[c]
    BY <1>2, <1>4, <2>2
  <2>4. m_channels'[seq[c]] = m_channels[seq[c]]
    BY <1>2, <1>4, <2>1, <2>3, AddChannelEntries DEF Register, AnsweredSeq
  <2> QED
    BY <1>3, <1>4, <2>4
<1>5. ASSUME \A d \in Calls : ~Sends(d), NEW s \in Seqs, RemoveChannel(s)
      PROVE  m_channels'[seq'[c]].call = c
  BY <1>2, <1>3, <1>5, RemoveChannelEntries
<1>6. ASSUME \A d \in Calls : ~Sends(d), IoErase
      PROVE  m_channels'[seq'[c]].call = c
  <2>1. m_channels'[seq[c]] \in {m_channels[seq[c]], Null}
    BY <1>2, <1>6 DEF IoErase, Erased, TypeOK, IoTypeOK
  <2> QED
    BY <1>3, <1>6, <2>1
<1>7. ASSUME \A d \in Calls : ~Sends(d), UNCHANGED m_channels
      PROVE  m_channels'[seq'[c]].call = c
  BY <1>3, <1>7
<1>8. CASE \E d \in Calls : Sends(d)
  BY <1>1, <1>8
<1>9. CASE \A d \in Calls : ~Sends(d)
  BY <1>4, <1>5, <1>6, <1>7, <1>9, EntrySteps DEF Removes
<1> QED
  BY <1>8, <1>9

LEMMA MatchInvHand ==
  ASSUME Basics, ZeroInv, ConnectInv, MatchInv, [Next]_vars,
         channel'.type = "REQUEST"
  PROVE  hdr'.kind = "header" /\ hdr'.call = channel'.call
<1> USE DEF Basics
<1>1. CASE UNCHANGED <<channel, hdr>>
  BY <1>1 DEF MatchInv
<1>2. CASE channel' = Null
  BY <1>2, NullTypes
<1>3. CASE IoLookup /\ ioPc' = "found"
  <2>1. hdr'.kind = "header" /\ hdr'.call \in Talking /\ hdr' = Head(unpacker)
        /\ Head(unpacker) \in UnreadHeaders
    BY <1>3, BodyIgnored
  <2>2. hdr'.seq = seq[hdr'.call]
    BY <2>1 DEF TransitInv, InTransit
  <2>3. channel' = m_channels[hdr'.seq]
    BY <1>3, LookupEffect
  <2> QED
    BY <2>1, <2>2, <2>3 DEF MatchInv
<1> QED
  BY <1>1, <1>2, <1>3, HandSteps

LEMMA MatchInvReplies ==
  ASSUME Basics, MatchInv, [Next]_vars, NEW c \in Calls
  PROVE  /\ reply'[c].pending => reply'[c].of = c
         /\ c \in Due' => ~reply'[c].pending
<1> USE DEF Basics
<1>1. CASE UNCHANGED reply
  <2>1. CASE c \in Due' /\ c \notin Due
    <3>1. Sends(c)
      BY <2>1, TalkingSteps
    <3>2. ~reply[c].pending
      BY <3>1 DEF Sends, MapInv, AnswersKeepNumbers
    <3> QED
      BY <1>1, <3>2
  <2>2. CASE ~(c \in Due' /\ c \notin Due)
    BY <1>1, <2>2 DEF MatchInv
  <2> QED
    BY <2>1, <2>2
<1>2. CASE IoStep /\ IoProduce /\ channel.type = "REQUEST"
  <2>1. Due' \subseteq Due
    BY <1>2, IoNothingNew, NothingNewHeaders
  <2>2. CASE c # channel.call
    BY <1>2, <2>1, <2>2, StoreEffect DEF MatchInv
  <2>3. CASE c = channel.call
    <3>1. hdr.call = c /\ c \notin Due
      BY <1>2, <2>3 DEF MatchInv, OrderInv
    <3>2. ~reply[c].pending
      BY <1>2, <2>3 DEF IoProduce, CallInv, AnswerInHand
    <3>3. reply'[c].pending => reply'[c].of = c
      BY <1>2, <2>3, <3>1, <3>2, StoreEffect
    <3> QED
      BY <2>1, <3>1, <3>3
  <2> QED
    BY <2>2, <2>3
<1> QED
  BY <1>1, <1>2, ReplySteps

LEMMA MatchInvNext ==
  ASSUME Without({"earlyCall", "fdReuse"}), Basics, ZeroInv, ConnectInv,
         MatchInv, [Next]_vars
  PROVE  MatchInv'
<1>1. \A c \in Talking' : m_channels'[seq'[c]].type = "REQUEST" =>
                             m_channels'[seq'[c]].call = c
  BY MatchInvEntries
<1>2. channel'.type = "REQUEST" => /\ hdr'.kind = "header"
                                   /\ hdr'.call = channel'.call
  BY MatchInvHand
<1>3. \A c \in Calls : /\ reply'[c].pending => reply'[c].of = c
                       /\ c \in Due' => ~reply'[c].pending
  BY MatchInvReplies
<1> QED
  BY <1>1, <1>2, <1>3 DEF MatchInv

(* ZeroInv, ConnectInv and MatchInv together. *)
Matches == ZeroInv /\ ConnectInv /\ MatchInv

LEMMA MatchesInit == Init => Matches
<1> SUFFICES ASSUME Init PROVE Matches
  OBVIOUS
<1>1. TypeOK /\ ThreadInv /\ m_thread # "running"
  BY InitType, ThreadInvInit DEF Init, IoInit
<1>2. InTransit = {} /\ requests = {} /\ subs = {} /\ UnreadHeaders = {}
      /\ Objects = {} /\ ~Live
  BY <1>1, NothingInTransit
<1>3. Talking = {} /\ Due = {}
  BY <1>2 DEF Talking, Due
<1>4. ZeroInv
  BY <1>2, SeqsNat, NullTypes
  DEF Init, ChannelInit, IoInit, ZeroInv, OnStack
<1>5. ConnectInv
  BY <1>2 DEF ConnectInv
<1>6. MatchInv
  BY <1>3, NullTypes DEF Init, ChannelInit, NoReply, MatchInv
<1> QED
  BY <1>4, <1>5, <1>6 DEF Matches

LEMMA MatchesCorrect ==
  Without({"earlyCall", "fdReuse"}) => (Spec => []Matches)
<1> SUFFICES ASSUME Without({"earlyCall", "fdReuse"}) PROVE Spec => []Matches
  OBVIOUS
<1>1. Basics /\ Matches /\ [Next]_vars => Matches'
  BY ZeroInvNext, ConnectInvNext, MatchInvNext DEF Matches
<1> QED
  BY <1>1, MatchesInit, BasicsCorrect, PTL DEF Spec

(* If no method is called while Connect is in progress, and the number of  *)
(* a closed socket is not given to another file, the answer stored in a    *)
(* result channel was sent for the call that waits on it: across timeouts, *)
(* lost answers, reconnects that count from 0 again, records of listeners, *)
(* and bodies decoded as headers of number 0 (processRpc).                 *)
THEOREM RepliesMatch ==
  Without({"earlyCall", "fdReuse"}) => (Spec => []ReplyMatches)
<1> SUFFICES ASSUME Without({"earlyCall", "fdReuse"})
             PROVE  Spec => []ReplyMatches
  OBVIOUS
<1>1. Matches => ReplyMatches
  BY DEF Matches, MatchInv, ReplyMatches
<1> QED
  BY <1>1, MatchesCorrect, PTL

-----------------------------------------------------------------------------
(* Without split reads the body of an answer is stored with it. *)
LEMMA StoredInvNext ==
  ASSUME Without({"splitRead"}), Basics, MatchInv, StoredInv, [Next]_vars
  PROVE  StoredInv'
<1> USE DEF Basics
<1> SUFFICES ASSUME NEW c \in Calls,
                    reply'[c].pending, ~reply'[c].err, HasBody(cmd'[c])
             PROVE  reply'[c].data = "own"
  BY DEF StoredInv
<1>1. CASE UNCHANGED reply
  <2>1. pc[c] \notin {"idle", "handshake"}
    BY <1>1 DEF MapInv, AnswersKeepNumbers
  <2>2. cmd'[c] = cmd[c]
    BY <2>1, CallsKeptNext DEF CallsKept
  <2> QED
    BY <1>1, <2>2 DEF StoredInv
<1>2. CASE IoStep /\ IoProduce /\ channel.type = "REQUEST"
  <2>1. ioPc = "produce" /\ cmd' = cmd
    BY <1>2, StoreEffect
  <2>2. CASE c # channel.call
    BY <1>2, <2>1, <2>2, StoreEffect DEF StoredInv
  <2>3. CASE c = channel.call
    <3>1. hdr.kind = "header" /\ hdr.call = c
      BY <1>2, <2>3 DEF MatchInv
    <3>2. ~reply[c].pending
      BY <1>2, <2>1, <2>3 DEF CallInv, AnswerInHand
    <3>3. /\ reply'[c].err = hdr.err
          /\ HasBody(cmd[c]) /\ unpacker # <<>> =>
                reply'[c].data = DataFrom(c, Head(unpacker))
      BY <1>2, <2>3, <3>2, StoreEffect
    <3>4. Expects(hdr, cmd)
      BY <2>1, <3>1, <3>3 DEF Expects
    <3>5. unpacker # <<>> /\ BodyOf(Head(unpacker), hdr)
      BY <2>1, <3>4, WithoutOne DEF PairInv
    <3> QED
      BY <2>1, <3>1, <3>3, <3>5 DEF BodyOf, DataFrom
  <2> QED
    BY <2>2, <2>3
<1> QED
  BY <1>1, <1>2, ReplySteps

(* If a read returns all that the agent wrote at once, and under the same  *)
(* conditions as above, a method that fetches data and reports SUCCESS     *)
(* hands out the data the agent sent: produce does not find the unpacker   *)
(* empty (m_dataPending would be set all the same), nor another body.      *)
THEOREM DataIsComplete ==
  Without({"splitRead", "earlyCall", "fdReuse"}) => (Spec => []DataComplete)
<1> SUFFICES ASSUME Without({"splitRead", "earlyCall", "fdReuse"})
             PROVE  Spec => []DataComplete
  OBVIOUS
<1>1. Without({"earlyCall", "fdReuse"}) /\ Without({"splitRead"})
  BY DEF Without
<1>2. Basics /\ Matches /\ StoredInv /\ [Next]_vars => StoredInv'
  BY <1>1, StoredInvNext DEF Matches
<1>3. Init => StoredInv
  BY DEF Init, ChannelInit, NoReply, StoredInv
<1>4. Basics /\ StoredInv => DataComplete
  <2> SUFFICES ASSUME Basics, StoredInv, NEW c \in Calls,
                      result[c] = "SUCCESS", HasBody(cmd[c])
               PROVE  reply[c].data = "own"
    BY DEF DataComplete
  <2>1. reply[c].pending /\ ~reply[c].err
    BY DEF Basics, OwnerInv
  <2> QED
    BY <2>1 DEF StoredInv
<1>5. Spec => []Matches
  BY <1>1, MatchesCorrect
<1> QED
  BY <1>2, <1>3, <1>4, <1>5, BasicsCorrect, PTL DEF Spec

=============================================================================
