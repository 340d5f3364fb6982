-------------------------- MODULE SerfRecordProofs --------------------------
(***************************************************************************)
(* Proofs about SerfClient, layer 10: the records of a subscription find   *)
(* its listener.                                                           *)
(***************************************************************************)
EXTENDS SerfListenerProofs

-----------------------------------------------------------------------------
(* The end of a query is the last that comes of it. *)

LEMMA SilentKept ==
  ASSUME TypeOK, TypeOK', NothingNew, NEW k \in Nat,
         k + Len(Incoming') <= Len(Incoming),
         \A i \in 1..Len(Incoming') : Incoming'[i] = Incoming[i + k],
         NEW i \in Nat, 1 <= i, NEW c, Silent(i + k, c)
  PROVE  Silent(i, c)'
<1>1. Len(Incoming) \in Nat /\ Len(Incoming') \in Nat
  BY IncomingType, IncomingTypeNext
<1>2. ASSUME NEW j \in i..Len(Incoming'), Incoming'[j].kind = "header"
      PROVE  Incoming'[j].call # c
  <2>1. j \in 1..Len(Incoming') /\ j + k \in (i + k)..Len(Incoming)
    BY <1>1
  <2> QED
    BY <1>2, <2>1 DEF Silent
<1>3. \A q \in subs' : q.call # c
  BY DEF Silent, NothingNew
<1> QED
  BY <1>2, <1>3 DEF Silent

LEMMA SilentLater ==
  ASSUME TypeOK, NEW k \in Nat, NEW i \in Nat, NEW c, Silent(i, c)
  PROVE  Silent(i + k, c)
<1>1. Len(Incoming) \in Nat
  BY IncomingType
<1>2. \A j \in (i + k)..Len(Incoming) : j \in i..Len(Incoming)
  BY <1>1
<1> QED
  BY <1>2 DEF Silent

LEMMA LastInvNextIs ==
  ASSUME \A p, q \in subs' : p.call = q.call => p = q,
         \A i \in 1..Len(Incoming') :
            Last(Incoming'[i]) => \E c : /\ c = Incoming'[i].call
                                        /\ Silent(i + 1, c)',
         Last(hdr') => \E c : c = hdr'.call /\ Silent(1, c)'
  PROVE  LastInv'
BY DEF LastInv, Silent, Last

LEMMA LastSubsides ==
  ASSUME TypeOK, TypeOK', LastInv, Subsides
  PROVE  LastInv'
<1>1. Len(Incoming) \in Nat /\ Len(Incoming') \in Nat
  BY IncomingType, IncomingTypeNext
<1>2. PICK k \in Nat : /\ k + Len(Incoming') <= Len(Incoming)
                       /\ \A j \in 1..Len(Incoming') :
                             Incoming'[j] = Incoming[j + k]
  BY DEF Subsides, Piece
<1>3. ASSUME NEW i \in 1..Len(Incoming'), Last(Incoming'[i])
      PROVE  \E c : c = Incoming'[i].call /\ Silent(i + 1, c)'
  <2>1. /\ i + k \in 1..Len(Incoming) /\ Incoming'[i] = Incoming[i + k]
        /\ i + k + 1 = (i + 1) + k /\ i + 1 \in Nat /\ 1 <= i + 1
    BY <1>1, <1>2
  <2>2. PICK c : c = Incoming'[i].call
    OBVIOUS
  <2>3. Silent((i + 1) + k, c)
    BY <1>3, <2>1, <2>2 DEF LastInv
  <2>4. Silent(i + 1, c)'
    BY <1>2, <2>1, <2>3, SilentKept DEF Subsides
  <2> QED
    BY <2>2, <2>4
<1>4. ASSUME Last(hdr')
      PROVE  \E c : c = hdr'.call /\ Silent(1, c)'
  <2>1. PICK c : c = hdr'.call
    OBVIOUS
  <2>2. CASE hdr' = hdr
    <3>1. Silent(1 + k, c)
      BY <1>4, <2>1, <2>2, SilentLater DEF LastInv
    <3>2. 1 \in Nat /\ 1 <= 1
      OBVIOUS
    <3>3. Silent(1, c)'
      BY <1>2, <3>1, <3>2, SilentKept DEF Subsides
    <3> QED
      BY <2>1, <3>3
  <2>3. CASE hdr' = NoObject
    BY <1>4, <2>3, NoObjectFields DEF Last
  <2>4. CASE Decodes
    <3>1. /\ Incoming \in Seq(Object) /\ Incoming # <<>>
          /\ Incoming' = Tail(Incoming)
          /\ hdr' = AsResponseHeader(Head(Incoming))
      BY <2>4, IncomingType DEF Decodes
    <3>2. /\ Head(Incoming) \in Object /\ Head(Incoming) = Incoming[1]
          /\ 1 \in 1..Len(Incoming)
          /\ 1 + Len(Incoming') <= Len(Incoming)
          /\ \A i \in 1..Len(Incoming') : Incoming'[i] = Incoming[i + 1]
      BY <3>1, TailObjects
    <3>3. hdr' = Incoming[1]
      BY <1>4, <3>1, <3>2, AsHeader DEF Last
    <3>4. Silent(1 + 1, c)
      BY <1>4, <2>1, <3>2, <3>3 DEF LastInv
    <3>5. Silent(1, c)'
      BY <3>2, <3>4, SilentKept DEF Subsides
    <3> QED
      BY <2>1, <3>5
  <2> QED
    BY <2>2, <2>3, <2>4 DEF Subsides
<1>5. \A p, q \in subs' : p.call = q.call => p = q
  BY DEF LastInv, Subsides, NothingNew
<1> QED
  BY <1>3, <1>4, <1>5, LastInvNextIs

(* The agent writes message t of r. *)
LEMMA MessageIncoming ==
  ASSUME TypeOK, NEW r \in requests \cup subs,
         NEW w \in {"reply", "record", "done"}, NEW t,
         Message(r, w, t), wire' = wire \o t,
         UNCHANGED <<frameVars, channelVars>>
  PROVE  /\ Len(Incoming) \in Nat /\ Len(Incoming') \in Nat
         /\ Len(Incoming) <= Len(Incoming')
         /\ \A i \in 1..Len(Incoming) : Incoming'[i] = Incoming[i]
         /\ \A i \in 1..Len(Incoming') : i > Len(Incoming) =>
               /\ Incoming'[i].call = r.call /\ Incoming'[i].what = w
               /\ Incoming'[i].kind = "header" => i = Len(Incoming) + 1
<1>1. t \in Seq(Object) /\ Incoming' = Incoming \o t
  BY MessageObjects DEF channelVars
<1>2. /\ Len(t) \in {1, 2}
      /\ \A i \in 1..Len(t) : t[i].call = r.call /\ t[i].what = w
      /\ Len(t) = 2 => t[2].kind = "body"
  <2>1. r \in RequestMessage
    BY DEF TypeOK, AgentTypeOK
  <2> QED
    BY <2>1, MessageIs
<1>3. /\ Incoming \in Seq(Object) /\ Len(Incoming) \in Nat
      /\ Len(Incoming') = Len(Incoming) + Len(t)
      /\ \A i \in 1..Len(Incoming) + Len(t) :
            Incoming'[i] = IF i <= Len(Incoming) THEN Incoming[i]
                                                 ELSE t[i - Len(Incoming)]
  BY <1>1, IncomingType, ConcatObjects
<1>4. ASSUME NEW i \in 1..Len(Incoming'), i > Len(Incoming)
      PROVE  /\ Incoming'[i].call = r.call /\ Incoming'[i].what = w
             /\ Incoming'[i].kind = "header" => i = Len(Incoming) + 1
  <2>1. /\ i - Len(Incoming) \in 1..Len(t)
        /\ Incoming'[i] = t[i - Len(Incoming)]
    BY <1>2, <1>3, <1>4
  <2>2. i - Len(Incoming) = 1 \/ (i - Len(Incoming) = 2 /\ Len(t) = 2)
    BY <1>2, <2>1
  <2>3. i - Len(Incoming) = 1 => i = Len(Incoming) + 1
    BY <1>3
  <2> QED
    BY <1>2, <2>1, <2>2, <2>3
<1>5. \A i \in 1..Len(Incoming) : Incoming'[i] = Incoming[i]
  BY <1>2, <1>3
<1>6. Len(Incoming') \in Nat /\ Len(Incoming) <= Len(Incoming')
  BY <1>2, <1>3
<1> QED
  BY <1>3, <1>4, <1>5, <1>6

LEMMA SilentMessage ==
  ASSUME TypeOK, NEW r \in requests \cup subs,
         NEW w \in {"reply", "record", "done"}, NEW t,
         Message(r, w, t), wire' = wire \o t,
         UNCHANGED <<frameVars, channelVars>>,
         subs' \subseteq subs \cup {r},
         NEW i \in Nat, 1 <= i, NEW c, c # r.call, Silent(i, c)
  PROVE  Silent(i, c)'
<1>1. ASSUME NEW j \in i..Len(Incoming'), Incoming'[j].kind = "header"
      PROVE  Incoming'[j].call # c
  <2>1. j \in 1..Len(Incoming') /\ Len(Incoming) \in Nat
    BY MessageIncoming
  <2>2. CASE j > Len(Incoming)
    BY <2>1, <2>2, MessageIncoming
  <2>3. CASE ~(j > Len(Incoming))
    <3>1. j \in i..Len(Incoming) /\ j \in 1..Len(Incoming)
      BY <2>1, <2>3
    <3>2. Incoming'[j] = Incoming[j]
      BY <3>1, MessageIncoming
    <3> QED
      BY <1>1, <3>1, <3>2 DEF Silent
  <2> QED
    BY <2>2, <2>3
<1>2. \A q \in subs' : q.call # c
  BY DEF Silent
<1> QED
  BY <1>1, <1>2 DEF Silent

(* Nothing that has ended is heard of again. *)
LEMMA LastMessage ==
  ASSUME TypeOK, LastInv, NEW r \in requests \cup subs,
         NEW w \in {"reply", "record", "done"}, NEW t,
         Message(r, w, t), wire' = wire \o t,
         UNCHANGED <<frameVars, channelVars>>,
         subs' \subseteq subs \cup {r},
         \A q \in subs : q.call = r.call => q = r,
         w = "done" => r \notin subs',
         \A i \in 1..Len(Incoming) :
            Last(Incoming[i]) => Incoming[i].call # r.call,
         Last(hdr) => hdr.call # r.call
  PROVE  LastInv'
<1>1. /\ Len(Incoming) \in Nat /\ Len(Incoming') \in Nat
      /\ Len(Incoming) <= Len(Incoming')
  BY MessageIncoming
<1>2. ASSUME NEW i \in 1..Len(Incoming'), Last(Incoming'[i])
      PROVE  \E c : c = Incoming'[i].call /\ Silent(i + 1, c)'
  <2>1. PICK c : c = Incoming'[i].call
    OBVIOUS
  <2>2. i + 1 \in Nat /\ 1 <= i + 1
    OBVIOUS
  <2>3. CASE i > Len(Incoming)
    <3>1. c = r.call /\ w = "done" /\ i = Len(Incoming) + 1
      BY <1>2, <2>1, <2>3, MessageIncoming DEF Last
    <3>2. \A q \in subs' : q.call # c
      BY <3>1
    <3>3. \A j \in (i + 1)..Len(Incoming') : /\ j \in 1..Len(Incoming')
                                            /\ j > Len(Incoming)
                                            /\ j # Len(Incoming) + 1
      BY <1>1, <3>1
    <3>4. \A j \in (i + 1)..Len(Incoming') : Incoming'[j].kind # "header"
      BY <3>3, MessageIncoming
    <3>5. Silent(i + 1, c)'
      BY <3>2, <3>4 DEF Silent
    <3> QED
      BY <2>1, <3>5
  <2>4. CASE ~(i > Len(Incoming))
    <3>1. i \in 1..Len(Incoming)
      BY <1>1, <2>4
    <3>2. Incoming'[i] = Incoming[i]
      BY <3>1, MessageIncoming
    <3>3. Silent(i + 1, c) /\ c # r.call
      BY <1>2, <2>1, <3>1, <3>2 DEF LastInv
    <3>4. Silent(i + 1, c)'
      BY <2>2, <3>3, SilentMessage
    <3> QED
      BY <2>1, <3>4
  <2> QED
    BY <2>3, <2>4
<1>3. ASSUME Last(hdr')
      PROVE  \E c : c = hdr'.call /\ Silent(1, c)'
  <2>1. PICK c : c = hdr'.call
    OBVIOUS
  <2>2. Silent(1, c) /\ c # r.call /\ 1 \in Nat /\ 1 <= 1
    BY <1>3, <2>1 DEF LastInv, channelVars
  <2>3. Silent(1, c)'
    BY <2>2, SilentMessage
  <2> QED
    BY <2>1, <2>3
<1>4. \A p, q \in subs' : p.call = q.call => p = q
  BY DEF LastInv
<1> QED
  BY <1>2, <1>3, <1>4, LastInvNextIs

LEMMA LastAgent ==
  ASSUME TypeOK, OrderInv, LastInv, AgentStep
  PROVE  LastInv'
<1>1. UNCHANGED <<frameVars, channelVars>>
  BY DEF AgentStep
<1>2. CASE wire' = wire /\ requests' \subseteq requests /\ subs' = subs
  <2>1. UNCHANGED <<Incoming, hdr, subs>>
    BY <1>1, <1>2 DEF Incoming, channelVars
  <2> QED
    BY <2>1 DEF LastInv, Silent
<1>3. ASSUME NEW r \in requests, Answered(r)
      PROVE  LastInv'
  <2>1. PICK t : Message(r, "reply", t) /\ wire' = wire \o t
    BY <1>3, Zenon DEF Answered
  <2>2. subs' \subseteq subs \cup {r}
    BY <1>3 DEF Answered
  <2>3. \A i \in 1..Len(Incoming) : Incoming[i].call # r.call
    BY DEF OrderInv
  <2>4. hdr.call # r.call /\ \A q \in subs : q.call # r.call
    BY DEF OrderInv, Due
  <2> QED
    BY <1>1, <2>1, <2>2, <2>3, <2>4, LastMessage
<1>4. ASSUME NEW q \in subs, Published(q)
      PROVE  LastInv'
  <2>1. PICK t, w : /\ w \in {"record", "done"}
                    /\ Message(q, w, t) /\ wire' = wire \o t
                    /\ w = "done" => subs' = subs \ {q}
    BY <1>4, Zenon DEF Published
  <2>2. subs' \subseteq subs
    BY <1>4 DEF Published
  <2>3. \A p \in subs : p.call = q.call => p = q
    BY DEF LastInv
  <2>4. /\ \A i \in 1..Len(Incoming) :
              Last(Incoming[i]) => Incoming[i].call # q.call
        /\ Last(hdr) => hdr.call # q.call
    BY DEF LastInv, Silent
  <2> QED
    BY <1>1, <2>1, <2>2, <2>3, <2>4, LastMessage
<1> QED
  BY <1>2, <1>3, <1>4, AgentEffect

LEMMA LastSends ==
  ASSUME TypeOK, LastInv, NEW c \in Calls, Sends(c)
  PROVE  LastInv'
<1>1. UNCHANGED <<Incoming, hdr, subs>>
  BY SendsEffect DEF Sends, channelVars
<1> QED
  BY <1>1 DEF LastInv, Silent

LEMMA LastInvInit == Init => LastInv
BY RangeEmpty, EmptyConcat, NoObjectFields
DEF Init, AgentInit, ChannelInit, LastInv, Incoming, Last

(* The agent's end of a query ("done") stays the last message of the query *)
(* on its way through the reads and the unpacker, in every environment.    *)
LEMMA LastInvCorrect == Spec => []LastInv
<1>1. Basics /\ Basics' /\ LastInv /\ [Next]_vars => LastInv'
  BY LastSubsides, LastAgent, LastSends, SubsidesOrNot DEF Basics
<1> QED
  BY <1>1, LastInvInit, BasicsCorrect, PTL DEF Spec

-----------------------------------------------------------------------------
(* More on what steps do. *)

(* Processing a channel ends in produce. *)
LEMMA HandStays ==
  ASSUME TypeOK, OwnerInv, [Next]_vars, ioPc \in {"found", "produce"}
  PROVE  \/ ioPc' \in {"found", "produce"} /\ UNCHANGED hdr
         \/ IoStep /\ IoProduce
<1>1. ASSUME NEW c \in Calls, Sends(c) \/ SendFails(c)
      PROVE  UNCHANGED <<ioPc, hdr>>
  BY <1>1 DEF Sends, SendFails, channelVars
<1>2. ASSUME NEW c \in Calls, Finish(c)
      PROVE  UNCHANGED <<ioPc, hdr>>
  BY <1>2
  DEF Finish, Consume, CheckPending, RemoveTimedOut, Register, Unlisten,
      ChannelStep, channelVars
<1>3. ASSUME NEW c \in Calls,
             ConnectFails(c) \/ ConnectOpens(c) \/ ConnectTerminates(c)
      PROVE  UNCHANGED <<ioPc, hdr>>
  BY <1>3
  DEF ConnectFails, ConnectOpens, ConnectTerminates, Joinable, channelVars,
      TypeOK, IoTypeOK
<1>4. ASSUME IoStep, ~IoProduce
      PROVE  ioPc' \in {"found", "produce"} /\ UNCHANGED hdr
  BY <1>4
  DEF IoStep, IoLoop, IoTop, IoExit, IoReceive, IoIdle, IoDrained, IoLookup,
      IoErase, IoNotify, IoCallbackReturn, IoDeregister, IoDangle, Dangle,
      IoBadSocket, NotProducing
<1>5. CASE \/ Close \/ AgentStep \/ AgentCloses \/ UNCHANGED vars
           \/ \E t, c : SendKills(t, c)
  BY <1>5
  DEF Close, CloseBegin, CloseEnd, ListenerCloses, AgentStep, AgentCloses,
      SendKills, vars, channelVars
<1> QED
  BY <1>1, <1>2, <1>3, <1>4, <1>5, MethodSends, HandshakeSends
  DEF Next, Connect

(* Only the end of a query is followed by removeChannel. *)
LEMMA DeregisterSteps ==
  ASSUME TypeOK, OwnerInv, [Next]_vars, ioPc' = "deregister"
  PROVE  \/ UNCHANGED <<ioPc, hdr>>
         \/ /\ ioPc = "callback" /\ channel.type = "QUERY" /\ obj.what = "done"
            /\ UNCHANGED hdr
<1>1. ASSUME NEW c \in Calls, Sends(c) \/ SendFails(c)
      PROVE  UNCHANGED <<ioPc, hdr>>
  BY <1>1 DEF Sends, SendFails, channelVars
<1>2. ASSUME NEW c \in Calls, Finish(c)
      PROVE  UNCHANGED <<ioPc, hdr>>
  BY <1>2
  DEF Finish, Consume, CheckPending, RemoveTimedOut, Register, Unlisten,
      ChannelStep, channelVars
<1>3. ASSUME NEW c \in Calls,
             ConnectFails(c) \/ ConnectOpens(c) \/ ConnectTerminates(c)
      PROVE  UNCHANGED <<ioPc, hdr>>
  BY <1>3 DEF ConnectFails, ConnectOpens, ConnectTerminates, channelVars
<1>4. ASSUME IoStep, ~IoCallbackReturn, ~IoProduce
      PROVE  UNCHANGED <<ioPc, hdr>>
  BY <1>4
  DEF IoStep, IoLoop, IoTop, IoExit, IoReceive, IoIdle, IoDrained, IoLookup,
      IoErase, IoNotify, IoDeregister, IoDangle, Dangle, IoBadSocket,
      BackToDrain, NotProducing
<1>5. ~IoProduce
  BY DEF IoProduce, Produce, ProduceHeader, ProduceData, ProduceThrows, Store,
         LogProduce, EventProduce, QueryProduce, Deliver, Discard, BackToDrain
<1>6. ASSUME IoCallbackReturn
      PROVE  /\ ioPc = "callback" /\ channel.type = "QUERY"
             /\ obj.what = "done" /\ UNCHANGED hdr
  BY <1>6 DEF IoCallbackReturn, BackToDrain
<1>7. CASE \/ Close \/ AgentStep \/ AgentCloses \/ UNCHANGED vars
           \/ \E t, c : SendKills(t, c)
  BY <1>7
  DEF Close, CloseBegin, CloseEnd, ListenerCloses, BackToDrain, AgentStep,
      AgentCloses, SendKills, vars, channelVars
<1> QED
  BY <1>1, <1>2, <1>3, <1>4, <1>5, <1>6, <1>7, MethodSends, HandshakeSends
  DEF Next, Connect

(* What is on its way stays there until it is decoded or the connection is *)
(* gone.                                                                   *)
LEMMA ObjectSteps ==
  ASSUME TypeOK, ThreadInv, OwnerInv, [Next]_vars
  PROVE  \/ Objects \subseteq Objects'
         \/ subs' = {}
         \/ /\ IoLookup \/ (IoProduce /\ unpacker' # unpacker)
            /\ unpacker # <<>> /\ unpacker' = Tail(unpacker)
            /\ Objects \subseteq Objects' \cup {Head(unpacker)}
<1>0. wire \in Seq(Object) /\ unpacker \in Seq(Object)
  BY IncomingType
<1>1. ASSUME NEW c \in Calls, Sends(c) PROVE Objects' = Objects
  BY <1>1, SendsEffect
<1>2. CASE TrafficKept
  BY <1>2 DEF TrafficKept, Objects
<1>3. CASE AgentStep
  <2>1. ASSUME NEW t \in Seq(Object), wire' = wire \o t
        PROVE  Objects \subseteq Objects'
    BY <1>0, <1>3, <2>1, RangeConcat DEF Objects, AgentStep, channelVars
  <2>2. ASSUME NEW r \in requests, Answered(r) PROVE Objects \subseteq Objects'
    <3>1. PICK t : Message(r, "reply", t) /\ wire' = wire \o t
      BY <2>2, Zenon DEF Answered
    <3> QED
      BY <2>1, <3>1, MessageIs DEF TypeOK, AgentTypeOK
  <2>3. ASSUME NEW q \in subs, Published(q) PROVE Objects \subseteq Objects'
    <3>1. PICK t, w : /\ w \in {"record", "done"}
                      /\ Message(q, w, t) /\ wire' = wire \o t
      BY <2>3, Zenon DEF Published
    <3> QED
      BY <2>1, <3>1, MessageIs DEF TypeOK, AgentTypeOK
  <2>4. wire' = wire => Objects' = Objects
    BY <1>3 DEF Objects, AgentStep, channelVars
  <2> QED
    BY <1>3, <2>2, <2>3, <2>4, AgentEffect
<1>4. CASE IoStep
  <2>1. ASSUME unpacker # <<>>, unpacker' = Tail(unpacker), wire' = wire
        PROVE  Objects \subseteq Objects' \cup {Head(unpacker)}
    <3>1. ASSUME NEW o \in Range(unpacker)
          PROVE  o = Head(unpacker) \/ o \in Range(Tail(unpacker))
      <4>1. PICK i : i \in 1..Len(unpacker) /\ unpacker[i] = o
        BY <1>0, RangeIs
      <4>2. /\ Head(unpacker) = unpacker[1] /\ Tail(unpacker) \in Seq(Object)
            /\ Len(unpacker) \in Nat
            /\ Len(Tail(unpacker)) = Len(unpacker) - 1
            /\ \A j \in 1..Len(unpacker) - 1 :
                  Tail(unpacker)[j] = unpacker[j + 1]
        BY <1>0, <2>1, TailObjects
      <4>3. CASE i = 1
        BY <4>1, <4>2, <4>3
      <4>4. CASE i # 1
        <5>1. i - 1 \in 1..Len(Tail(unpacker))
              /\ Tail(unpacker)[i - 1] = unpacker[i]
          BY <4>1, <4>2, <4>4
        <5> QED
          BY <4>1, <4>2, <5>1, RangeIs
      <4> QED
        BY <4>3, <4>4
    <3> QED
      BY <2>1, <3>1 DEF Objects
  <2>2. CASE IoReceive
    <3>1. PICK n \in 1..Len(wire) :
             /\ unpacker' = unpacker \o SubSeq(wire, 1, n)
             /\ wire' = SubSeq(wire, n + 1, Len(wire))
      BY <2>2 DEF IoReceive
    <3>2. /\ SubSeq(wire, 1, n) \in Seq(Object)
          /\ SubSeq(wire, n + 1, Len(wire)) \in Seq(Object)
      BY <1>0, CutSuffix
    <3>3. Range(wire) = Range(SubSeq(wire, 1, n))
                           \cup Range(SubSeq(wire, n + 1, Len(wire)))
      BY <1>0, <3>2, CutConcat, RangeConcat
    <3>4. Range(unpacker') = Range(unpacker) \cup Range(SubSeq(wire, 1, n))
      BY <1>0, <3>1, <3>2, RangeConcat
    <3> QED
      BY <3>1, <3>3, <3>4 DEF Objects
  <2>3. CASE IoExit
    BY <2>3 DEF IoExit, AgentForget
  <2>4. CASE IoLookup
    BY <2>1, <2>4 DEF IoLookup, agentVars
  <2>5. CASE IoProduce
    <3>1. \/ unpacker' = unpacker
          \/ unpacker # <<>> /\ unpacker' = Tail(unpacker)
      BY <2>5
      DEF IoProduce, Produce, ProduceHeader, ProduceData, ProduceThrows,
          TakesBody, LogProduce, EventProduce, QueryProduce
    <3>2. wire' = wire
      BY <2>5 DEF IoProduce, agentVars
    <3> QED
      BY <2>1, <2>5, <3>1, <3>2 DEF Objects
  <2>6. ASSUME ~IoReceive, ~IoExit, ~IoLookup, ~IoProduce
        PROVE  UNCHANGED <<wire, unpacker>>
    BY <1>4, <2>6
    DEF IoStep, IoLoop, IoTop, IoIdle, IoDrained, IoErase, IoNotify,
        IoCallbackReturn, IoDeregister, IoDangle, Dangle, IoBadSocket,
        agentVars
  <2> QED
    BY <2>2, <2>3, <2>4, <2>5, <2>6 DEF Objects
<1> QED
  BY <1>1, <1>2, <1>3, <1>4, TrafficSteps

-----------------------------------------------------------------------------
(* The environments of RecordInv, and its clauses about calls. *)
Granting == Without({"busyClose", "earlyCall", "fdReuse", "anyStop",
                     "lateRecord", "lateAnswer", "reentrant",
                     "earlyRecord", "bareError"})

LEMMA GrantingIs ==
  ASSUME Granting
  PROVE  /\ Patience /\ "bareError" \notin Faults
         /\ Without({"earlyCall", "fdReuse"})
BY DEF Granting, Patience, Without

LEMMA DueWaits ==
  ASSUME Granting, Basics, Matches, PatienceInv, RecordInv, [Next]_vars,
         NEW c \in Due'
  PROVE  pc'[c] = "wait"
<1> USE DEF Basics
<1>1. ASSUME NEW d \in Calls, Sends(d)
      PROVE  pc'[c] = "wait"
  <2>1. CASE c = d
    BY <1>1, <2>1, SendsEntries
  <2>2. CASE c # d
    <3>1. c \in Due /\ c \in Calls
      BY <1>1, <2>2, SendsTalking, TransitType
    <3> QED
      BY <1>1, <2>2, <3>1, SendsEntries DEF RecordInv
  <2> QED
    BY <2>1, <2>2
<1>2. ASSUME \A d \in Calls : ~Sends(d)
      PROVE  pc'[c] = "wait"
  <2>1. c \in Due /\ c \in Calls
    BY <1>2, TalkingSteps, TransitType
  <2>2. pc[c] = "wait" /\ ~reply[c].pending
    BY <2>1 DEF RecordInv, Matches, MatchInv
  <2>3. ~Consume(c)
    <3>1. AnswerDue(c)
      BY <2>1, AnswerDueIs
    <3>2. ~TimesOut(c)
      BY <3>1, GrantingIs, PatienceIs DEF TimesOut, PatienceInv
    <3> QED
      BY <2>2, <3>2 DEF Consume, ConsumeReturns
  <2> QED
    BY <2>1, <2>2, <2>3, WaitEnds
<1> QED
  BY <1>1, <1>2

LEMMA GivesUpEmpty ==
  ASSUME Basics, PatienceInv, RecordInv, [Next]_vars, NEW c \in Calls,
         pc'[c] = "remove"
  PROVE  ~reply'[c].pending
<1> USE DEF Basics
<1>1. ~reply[c].pending /\ pc[c] # "wait"
  <2>1. CASE pc[c] = "remove"
    BY <2>1 DEF RecordInv
  <2>2. CASE pc[c] # "remove"
    <3>1. ASSUME NEW d \in Calls, Sends(d)
          PROVE  FALSE
      BY <2>2, <3>1, SendsEntries
    <3>2. OnStack(c)
      BY <3>1, CallSteps DEF OnStack
    <3>3. Finish(c)
      BY <2>2, <3>2, FinishSteps
    <3>4. CheckPending(c)
      BY <3>2, <3>3
      DEF Finish, Consume, RemoveTimedOut, Register, Unlisten, Return, OnStack,
          TypeOK, ChannelTypeOK
    <3>5. AfterTimeout(c)
      BY <3>4
      DEF CheckPending, AfterReply, Return, TypeOK, ChannelTypeOK
    <3> QED
      BY <3>4, <3>5 DEF AfterTimeout, CheckPending
  <2> QED
    BY <2>1, <2>2
<1>2. CASE UNCHANGED reply
  BY <1>1, <1>2
<1>3. CASE IoProduce /\ channel.type = "REQUEST"
  <2>1. channel.call # c
    BY <1>1, <1>3 DEF PatienceInv
  <2> QED
    BY <1>1, <1>3, <2>1, StoreEffect
<1> QED
  BY <1>2, <1>3, ReplySteps

LEMMA TalkingApart ==
  ASSUME Granting, Basics, RecordInv, [Next]_vars,
         NEW c \in Talking', NEW d \in Talking', seq'[c] = seq'[d]
  PROVE  c = d
<1> USE DEF Basics
<1>1. ASSUME NEW e \in Calls, Sends(e)
      PROVE  c = d
  <2>1. /\ Talking' \subseteq Talking \cup {e} /\ Talking \subseteq Calls
        /\ seq'[e] = m_seq /\ m_seq \in Nat
        /\ \A f \in Calls \ {e} : seq'[f] = seq[f]
    BY <1>1, SendsTalking, TransitType, SendsEntries
  <2>2. ASSUME NEW f \in Talking
        PROVE  seq[f] # m_seq
    <3>1. seq[f] < m_seq /\ seq[f] \in Seqs
      BY <1>1, <2>1, <2>2, SendsInOrder, GrantingIs
      DEF TransitInv, Talking, TypeOK, ChannelTypeOK
    <3> QED
      BY <2>1, <3>1, SeqsNat
  <2> QED
    BY <2>1, <2>2 DEF RecordInv
<1>2. ASSUME \A e \in Calls : ~Sends(e)
      PROVE  c = d
  <2>1. c \in Talking /\ d \in Talking /\ c \in Calls /\ d \in Calls
    BY <1>2, TalkingSteps, TransitType
  <2>2. /\ pc[c] \notin {"idle", "handshake"}
        /\ pc[d] \notin {"idle", "handshake"}
    BY <2>1 DEF TransitInv, Talking
  <2>3. seq'[c] = seq[c] /\ seq'[d] = seq[d]
    BY <2>1, <2>2, CallsKeptNext DEF CallsKept
  <2> QED
    BY <2>1, <2>3 DEF RecordInv
<1> QED
  BY <1>1, <1>2

LEMMA DeregistersLast ==
  ASSUME Basics, ListenerInv, RecordInv, [Next]_vars, ioPc' = "deregister"
  PROVE  Last(hdr')
<1> USE DEF Basics
<1>1. CASE UNCHANGED <<ioPc, hdr>>
  BY <1>1 DEF RecordInv
<1>2. CASE /\ ioPc = "callback" /\ channel.type = "QUERY"
           /\ obj.what = "done" /\ UNCHANGED hdr
  <2>1. obj # NoObject
    BY <1>2, NoObjectFields
  <2>2. hdr.kind = "header" /\ BodyOf(obj, hdr)
    BY <1>2, <2>1 DEF ListenerInv, ListenerTypes
  <2> QED
    BY <1>2, <2>2 DEF BodyOf, Last
<1> QED
  BY <1>1, <1>2, DeregisterSteps

-----------------------------------------------------------------------------
(* A subscription's answer is stored, and nothing else is made of it. *)

(* No header is taken for the body of an answer or of a record. *)
LEMMA BodiesOnly ==
  ASSUME Granting, Basics, Matches, ListenerInv, IoProduce,
         unpacker' # unpacker
  PROVE  Head(unpacker).kind = "body"
<1> USE DEF Basics
<1>1. ioPc = "produce" /\ Produce(channel)
  BY DEF IoProduce
<1>2. unpacker # <<>>
  BY <1>1
  DEF Produce, ProduceHeader, ProduceData, ProduceThrows, TakesBody,
      LogProduce, EventProduce, QueryProduce
<1>3. Expects(hdr, cmd)
  <2>1. CASE channel.type = "REQUEST"
    <3>1. hdr.kind = "header" /\ hdr.call = channel.call
      BY <2>1 DEF Matches, MatchInv
    <3>2. HasBody(cmd[hdr.call])
      BY <1>1, <2>1, <3>1
      DEF Produce, ProduceHeader, ProduceData, ProduceThrows, TakesBody
    <3> QED
      BY <3>1, <3>2, GrantingIs DEF Expects
  <2>2. CASE channel.type \in ListenerTypes
    BY <2>2 DEF ListenerInv, Expects
  <2> QED
    BY <1>1, <2>1, <2>2 DEF Produce, ListenerTypes
<1> QED
  BY <1>1, <1>2, <1>3 DEF PairInv, BodyOf

(* An answer without error to a listener command is stored. *)
LEMMA ConfirmedStored ==
  ASSUME Basics, Matches, ListenerInv, IoProduce, NEW c \in Calls,
         Confirms(hdr, c), cmd[c] \in ListenerCommands
  PROVE  reply'[c].pending /\ ~reply'[c].err
<1> USE DEF Basics
<1>1. channel.type = "REQUEST" /\ channel.call = c
  BY DEF ListenerInv, Matches, MatchInv, Confirms, IsReply, IoProduce, Produce,
         ListenerTypes
<1>2. ProduceHeader(c)
  BY <1>1
  DEF IoProduce, Produce, ProduceHeader, ProduceData, ProduceThrows, TakesBody,
      HasBody, DataCommands, ListenerCommands
<1> QED
  BY <1>2 DEF ProduceHeader, Store, Confirms, TypeOK, ChannelTypeOK

(* The answer in the I/O thread's hand is that of a call without one. *)
LEMMA ConfirmedEmpty ==
  ASSUME Basics, Matches, ListenerInv, ioPc \in {"found", "produce"},
         NEW c \in Calls, Confirms(hdr, c)
  PROVE  ~reply[c].pending
<1> USE DEF Basics
<1>1. channel # Null
  BY DEF TypeOK, ChannelTypeOK
<1>2. channel.type = "REQUEST" \/ channel.type \in ListenerTypes
  BY <1>1 DEF TypeOK, ChannelTypeOK, Pointer
<1>3. channel.type = "REQUEST" /\ channel.call = c
  BY <1>2 DEF ListenerInv, Matches, MatchInv, Confirms, IsReply
<1> QED
  BY <1>3 DEF CallInv, AnswerInHand

LEMMA ConfirmingDue ==
  ASSUME TypeOK, NEW c, NEW o \in Objects, Confirms(o, c)
  PROVE  o \in UnreadHeaders /\ c \in Due
BY DEF Objects, UnreadHeaders, Confirms, IsReply, Due

(* The answer that is decoded finds its call waiting. *)
LEMMA ConfirmedFound ==
  ASSUME Basics, Channels, RecordInv, IoLookup, NEW c \in Calls,
         Head(unpacker) \in Objects, Confirms(Head(unpacker), c)
  PROVE  ioPc' \in {"found", "produce"} /\ Confirms(hdr', c)
<1> USE DEF Basics
<1>1. PICK o \in Objects : o = Head(unpacker)
  OBVIOUS
<1>2. o \in Object
  BY ObjectsType
<1>3. o \in UnreadHeaders /\ c \in Due /\ o.call = c
  BY <1>1, ConfirmingDue DEF Confirms
<1>4. AsResponseHeader(o) = o
  BY <1>1, <1>2, AsHeader DEF Confirms, IsReply
<1>5. o.seq = seq[c]
  BY <1>3 DEF TransitInv, InTransit
<1>6. Waiting(c)
  BY <1>3 DEF RecordInv, Waiting, Channels, Matches, MatchInv
<1>7. m_channels[seq[c]] = Request(c)
  BY <1>3, <1>6 DEF Channels, WaitInv
<1>8. Known(m_channels[o.seq])
  BY <1>5, <1>7, NullTypes DEF Known
<1> QED
  BY <1>1, <1>4, <1>8 DEF IoLookup

LEMMA GrantedStays ==
  ASSUME Granting, Basics, Channels, PatienceInv, RecordInv, [Next]_vars,
         subs' # {}, NEW c \in Calls, cmd[c] \in ListenerCommands, Granted(c)
  PROVE  Granted(c)'
<1> USE DEF Basics
<1>1. CASE reply[c].pending /\ ~reply[c].err
  BY <1>1, PendingStays DEF Granted
<1>2. CASE ioPc \in {"found", "produce"} /\ Confirms(hdr, c)
  <2>1. CASE ioPc' \in {"found", "produce"} /\ UNCHANGED hdr
    BY <1>2, <2>1 DEF Granted
  <2>2. CASE IoProduce
    BY <1>2, <2>2, ConfirmedStored DEF Granted, Channels
  <2> QED
    BY <1>2, <2>1, <2>2, HandStays
<1>3. ASSUME NEW o \in Objects, Confirms(o, c)
      PROVE  Granted(c)'
  <2>1. CASE o \in Objects'
    BY <1>3, <2>1 DEF Granted
  <2>2. CASE o \notin Objects'
    <3>1. /\ IoLookup \/ (IoProduce /\ unpacker' # unpacker)
          /\ o = Head(unpacker)
      BY <2>2, ObjectSteps
    <3>2. ~IoProduce \/ unpacker' = unpacker
      BY <1>3, <3>1, BodiesOnly DEF Channels, Confirms, IsReply
    <3> QED
      BY <1>3, <3>1, <3>2, ConfirmedFound DEF Granted
  <2> QED
    BY <2>1, <2>2
<1> QED
  BY <1>1, <1>2, <1>3 DEF Granted

(* A subscription is opened by an answer without error. *)
LEMMA GrantedOpens ==
  ASSUME TypeOK, AgentStep, NEW r \in requests, Answered(r),
         NEW q \in subs' \ subs
  PROVE  q = r /\ Granted(r.call)'
<1>1. PICK t : /\ Message(r, "reply", t) /\ wire' = wire \o t
               /\ t[1].err => subs' = subs
  BY Zenon DEF Answered
<1>2. q = r
  BY DEF Answered
<1>3. /\ t \in Seq(Object) /\ Len(t) \in {1, 2}
      /\ t[1].call = r.call /\ t[1].what = "reply" /\ t[1].kind = "header"
  BY <1>1, MessageIs DEF TypeOK, AgentTypeOK
<1>4. t[1] \in Range(t) /\ wire \in Seq(Object)
  BY <1>3, RangeIs, IncomingType
<1>5. t[1] \in Objects'
  BY <1>1, <1>3, <1>4, RangeConcat DEF Objects
<1>6. Confirms(t[1], r.call)
  BY <1>1, <1>3 DEF Confirms, IsReply
<1> QED
  BY <1>2, <1>5, <1>6 DEF Granted

LEMMA GrantedNext ==
  ASSUME Granting, Basics, Channels, PatienceInv, RecordInv, [Next]_vars,
         NEW q \in subs'
  PROVE  pc'[q.call] = "done" \/ Granted(q.call)'
<1> USE DEF Basics
<1>1. ASSUME q \in subs
      PROVE  pc'[q.call] = "done" \/ Granted(q.call)'
  <2>1. q.call \in Calls /\ q.cmd = cmd[q.call] /\ q.cmd \in ListenerCommands
    BY <1>1, TransitType DEF InTransit, TransitInv
  <2>2. CASE pc[q.call] = "done"
    BY <2>1, <2>2, DoneStays
  <2>3. CASE Granted(q.call)
    <3>1. PICK c \in Calls : c = q.call
      BY <2>1
    <3>2. Granted(c)'
      BY <2>1, <2>3, <3>1, GrantedStays
    <3> QED
      BY <3>1, <3>2
  <2> QED
    BY <1>1, <2>2, <2>3 DEF RecordInv
<1>2. CASE subs' \subseteq subs
  BY <1>1, <1>2
<1>3. ASSUME AgentStep, NEW r \in requests, Answered(r), q \notin subs
      PROVE  Granted(q.call)'
  <2>1. q = r /\ Granted(r.call)'
    BY <1>3, GrantedOpens
  <2> QED
    BY <2>1
<1>4. CASE AgentStep
  BY <1>1, <1>2, <1>3, <1>4, AgentEffect DEF Published
<1>5. ASSUME NEW d \in Calls, Sends(d) PROVE subs' = subs
  BY <1>5 DEF Sends
<1> QED
  BY <1>2, <1>4, <1>5, SubsidesOrNot DEF Subsides, NothingNew

-----------------------------------------------------------------------------
(* The entry of a listener stays as long as records may come. *)

LEMMA SubscribedTalks ==
  ASSUME Basics, NEW c \in Subscribed
  PROVE  /\ c \in Talking /\ c \in Calls /\ seq[c] \in Seqs
         /\ cmd[c] \in ListenerCommands /\ pc[c] \notin {"idle", "handshake"}
         /\ \/ \E q \in subs : q.call = c /\ q.seq = seq[c]
            \/ \E h \in UnreadHeaders : /\ h.call = c /\ h.seq = seq[c]
                                        /\ h.what # "reply"
<1> USE DEF Basics
<1>1. CASE \E q \in subs : q.call = c
  <2>1. PICK q \in subs : q.call = c
    BY <1>1
  <2>2. q \in InTransit /\ q.cmd = cmd[c] /\ q.cmd \in ListenerCommands
    BY <2>1 DEF TransitInv, InTransit
  <2> QED
    BY <2>1, <2>2, TransitType DEF TransitInv, Talking
<1>2. CASE \E h \in UnreadHeaders : h.call = c /\ h.what # "reply"
  <2>1. PICK h \in UnreadHeaders : h.call = c /\ h.what # "reply"
    BY <1>2
  <2>2. h \in InTransit /\ cmd[c] \in ListenerCommands
    BY <2>1 DEF TransitInv, InTransit
  <2> QED
    BY <2>1, <2>2, TransitType DEF TransitInv, Talking
<1> QED
  BY <1>1, <1>2 DEF Subscribed

LEMMA SubscribedSteps ==
  ASSUME Basics, [Next]_vars
  PROVE  \/ Subscribed' \subseteq Subscribed
         \/ \E r \in requests : /\ AgentStep /\ r.call \in Calls
                                /\ Subscribed' \subseteq Subscribed \cup {r.call}
<1> USE DEF Basics
<1>1. ASSUME NEW c \in Calls, Sends(c) PROVE Subscribed' \subseteq Subscribed
  BY <1>1, SendsEffect DEF Sends, Subscribed
<1>2. CASE Subsides
  BY <1>2, NothingNewHeaders DEF Subsides, NothingNew, Subscribed
<1>3. CASE AgentStep
  <2>1. ASSUME wire' = wire, subs' = subs
        PROVE  Subscribed' \subseteq Subscribed
    BY <1>3, <2>1 DEF Subscribed, UnreadHeaders, AgentStep, channelVars
  <2>2. ASSUME NEW r \in requests, Answered(r)
        PROVE  r.call \in Calls /\ Subscribed' \subseteq Subscribed \cup {r.call}
    <3>1. PICK t : Message(r, "reply", t) /\ wire' = wire \o t
      BY <2>2, Zenon DEF Answered
    <3>2. \A h \in UnreadHeaders' : h \in UnreadHeaders \/ h.call = r.call
      BY <1>3, <3>1, MessageObjects DEF AgentStep, channelVars
    <3>3. subs' \subseteq subs \cup {r} /\ r.call \in Calls
      BY <2>2, TransitType DEF Answered, InTransit
    <3> QED
      BY <3>2, <3>3 DEF Subscribed
  <2>3. ASSUME NEW q \in subs, Published(q)
        PROVE  Subscribed' \subseteq Subscribed
    <3>1. PICK t, w : /\ w \in {"record", "done"}
                      /\ Message(q, w, t) /\ wire' = wire \o t
      BY <2>3, Zenon DEF Published
    <3>2. \A h \in UnreadHeaders' : h \in UnreadHeaders \/ h.call = q.call
      BY <1>3, <3>1, MessageObjects DEF AgentStep, channelVars
    <3>3. subs' \subseteq subs /\ q.call \in Subscribed
      BY <2>3 DEF Published, Subscribed
    <3> QED
      BY <3>2, <3>3 DEF Subscribed
  <2> QED
    BY <1>3, <2>1, <2>2, <2>3, AgentEffect
<1> QED
  BY <1>1, <1>2, <1>3, SubsidesOrNot

(* Nothing takes the entry of a listener of which records may come. *)
LEMMA EntryStays ==
  ASSUME Granting, Basics, Channels, StopInv, PatienceInv, LastInv, RecordInv,
         [Next]_vars, NEW c \in Subscribed, pc[c] = "done"
  PROVE  m_channels'[seq[c]] = m_channels[seq[c]]
<1> USE DEF Basics
<1>1. /\ c \in Talking /\ c \in Calls /\ seq[c] \in Seqs
      /\ \/ \E q \in subs : q.call = c /\ q.seq = seq[c]
         \/ \E h \in UnreadHeaders : h.call = c /\ h.seq = seq[c]
  BY SubscribedTalks
<1>2. ASSUME NEW d \in Calls, Sends(d)
      PROVE  m_channels'[seq[c]] = m_channels[seq[c]]
  <2>1. seq[c] < m_seq
    BY <1>1, <1>2, SendsInOrder, GrantingIs DEF TransitInv, Talking
  <2>2. seq[c] # m_seq
    BY <1>1, <1>2, <2>1, SendsEntries, SeqsNat
  <2> QED
    BY <1>1, <1>2, <2>2, SendsEntries
<1>3. ASSUME NEW d \in Calls, Register(d)
      PROVE  m_channels'[seq[c]] = m_channels[seq[c]]
  <2>1. OnStack(d) /\ pc[d] = "register"
    BY <1>3 DEF Register, OnStack
  <2>2. seq[c] # seq[d]
    BY <1>1, <2>1 DEF Channels, ListenerInv
  <2> QED
    BY <1>1, <1>3, <2>2, RegisterEffect DEF Channels, Matches
<1>4. ASSUME NEW s \in Seqs, Removes(s)
      PROVE  s # seq[c]
  <2>1. ASSUME NEW d \in Calls, RemoveTimedOut(d), s = seq[d]
        PROVE  s # seq[c]
    <3>1. OnStack(d) /\ pc[d] = "remove"
      BY <2>1 DEF RemoveTimedOut, OnStack
    <3> QED
      BY <1>1, <2>1, <3>1 DEF Channels, ListenerInv
  <2>2. ASSUME NEW d \in Calls, Unlisten(d), s = arg[d]
        PROVE  s # seq[c]
    <3>1. Stopping(d) /\ reply[d].pending /\ ~reply[d].err
      BY <2>2 DEF Unlisten, Stopping, OnStack, OwnerInv, CallInv, CallProgress
    <3>2. Quiet(s)
      BY <2>2, <3>1 DEF StopInv
    <3> QED
      BY <1>1, <3>2 DEF Quiet
  <2>3. ASSUME IoDeregister, s = hdr.seq
        PROVE  s # seq[c]
    <3>1. channel.type \in ListenerTypes /\ ioPc = "deregister"
      BY <2>3 DEF IoDeregister, TypeOK, ChannelTypeOK
    <3>2. hdr.call \in Talking /\ seq[hdr.call] = hdr.seq
      BY <3>1, ListenerHand DEF Channels
    <3>3. Silent(1, hdr.call)
      BY <3>1 DEF RecordInv, LastInv
    <3>4. \A h \in UnreadHeaders : h.call # hdr.call
      <4>1. ASSUME NEW h \in UnreadHeaders
            PROVE  h.call # hdr.call
        <5>1. h.kind = "header" /\ h \in Objects
          BY DEF UnreadHeaders, Objects
        <5>2. PICK i : i \in 1..Len(Incoming) /\ Incoming[i] = h
          BY <5>1, IncomingType
        <5> QED
          BY <3>3, <5>1, <5>2 DEF Silent
      <4> QED
        BY <4>1
    <3>5. c # hdr.call
      BY <1>1, <3>3, <3>4 DEF Silent
    <3> QED
      BY <1>1, <2>3, <3>2, <3>5 DEF RecordInv
  <2> QED
    BY <1>4, <2>1, <2>2, <2>3 DEF Removes
<1>5. ASSUME NEW s \in Seqs, Removes(s)
      PROVE  m_channels'[seq[c]] = m_channels[seq[c]]
  BY <1>1, <1>4, <1>5, RemoveChannelEntries DEF Removes
<1>6. ASSUME IoErase
      PROVE  m_channels'[seq[c]] = m_channels[seq[c]]
  <2>1. ASSUME channel.type = "REQUEST"
        PROVE  hdr.seq # seq[c]
    <3>1. hdr \in InHand /\ hdr.call = channel.call
      BY <2>1 DEF Channels, Matches, MatchInv, InHand
    <3>2. hdr.call \in Talking /\ seq[hdr.call] = hdr.seq
      BY <3>1 DEF TransitInv, InTransit, Talking
    <3>3. c # hdr.call
      BY <2>1, <3>1 DEF PatienceInv
    <3> QED
      BY <1>1, <3>2, <3>3 DEF RecordInv
  <2> QED
    BY <1>1, <1>6, <2>1 DEF IoErase, Erased, TypeOK, IoTypeOK
<1> QED
  BY <1>2, <1>3, <1>5, <1>6, EntrySteps

(* A call whose subscription was opened returns by registering the         *)
(* listener.                                                               *)
LEMMA GrantedRegisters ==
  ASSUME Granting, Basics, Channels, PatienceInv, RecordInv, [Next]_vars,
         NEW c \in Subscribed, pc[c] # "done", pc'[c] = "done"
  PROVE  Register(c)
<1> USE DEF Basics
<1>1. /\ c \in Calls /\ cmd[c] \in ListenerCommands
      /\ pc[c] \notin {"idle", "handshake"}
  BY SubscribedTalks
<1>2. OnStack(c)
  BY <1>1 DEF OnStack, TypeOK, ChannelTypeOK, CallPcs
<1>3. Finish(c)
  BY <1>1, <1>2, FinishSteps
<1>4. Granted(c)
  <2>1. \A h \in UnreadHeaders : h.what # "reply" => h.call # c
    BY DEF PatienceInv
  <2>2. PICK q \in subs : q.call = c
    BY <2>1 DEF Subscribed
  <2> QED
    BY <2>2 DEF RecordInv
<1>5. reply[c].pending => ~reply[c].err
  <2> SUFFICES ASSUME reply[c].pending, reply[c].err PROVE FALSE
    OBVIOUS
  <2>1. CASE ioPc \in {"found", "produce"} /\ Confirms(hdr, c)
    BY <1>1, <2>1, ConfirmedEmpty DEF Channels
  <2>2. CASE \E o \in Objects : Confirms(o, c)
    BY <1>1, <2>2, ConfirmingDue DEF Channels, Matches, MatchInv
  <2> QED
    BY <1>4, <2>1, <2>2 DEF Granted
<1>6. ~reply[c].pending => AnswerDue(c)
  BY <1>1, <1>4, ConfirmingDue, AnswerDueIs DEF Granted, Confirms, IsReply
<1>7. ~RemoveTimedOut(c)
  <2>1. pc[c] = "remove" => ~reply[c].pending /\ ~AnswerDue(c)
    BY <1>1 DEF RecordInv, PatienceInv
  <2> QED
    BY <1>6, <2>1 DEF RemoveTimedOut
<1>8. ~CheckPending(c)
  BY <1>1, <1>5
  DEF CheckPending, AfterReply, AfterTimeout, ListenerCommands, TypeOK,
      ChannelTypeOK
<1>9. ~Unlisten(c) /\ ~Consume(c)
  BY <1>1
  DEF Unlisten, Consume, OwnerInv, ListenerCommands, TypeOK, ChannelTypeOK
<1> QED
  BY <1>3, <1>7, <1>8, <1>9 DEF Finish

LEMMA RecordEntry ==
  ASSUME Granting, Basics, Channels, StopInv, PatienceInv, LastInv, RecordInv,
         [Next]_vars, NEW c \in Subscribed', pc'[c] = "done"
  PROVE  m_channels'[seq'[c]] = Listener(c, cmd'[c])
<1> USE DEF Basics
<1>1. c \in Subscribed
  <2>1. ASSUME AgentStep, NEW r \in requests, c = r.call
        PROVE  FALSE
    <3>1. pc' = pc /\ pc[c] = "wait"
      BY <2>1 DEF AgentStep, frameVars, RecordInv, Due
    <3> QED
      BY <3>1
  <2> QED
    BY <2>1, SubscribedSteps
<1>2. /\ c \in Calls /\ cmd'[c] = cmd[c] /\ seq'[c] = seq[c]
  BY <1>1, SubscribedTalks, CallsKeptNext DEF CallsKept
<1>3. CASE pc[c] = "done"
  BY <1>1, <1>2, <1>3, EntryStays DEF RecordInv
<1>4. CASE pc[c] # "done"
  <2>1. Register(c)
    BY <1>1, <1>4, GrantedRegisters
  <2> QED
    BY <1>2, <2>1, RegisterEffect DEF Channels, Matches
<1> QED
  BY <1>3, <1>4

LEMMA RecordInvNext ==
  ASSUME Granting, Basics, Channels, StopInv, PatienceInv, LastInv, RecordInv,
         [Next]_vars
  PROVE  RecordInv'
<1>1. Matches /\ ListenerInv
  BY DEF Channels
<1>2. /\ \A c \in Due' : pc'[c] = "wait"
      /\ \A c \in Calls : pc'[c] = "remove" => ~reply'[c].pending
      /\ \A c, d \in Talking' : seq'[c] = seq'[d] => c = d
      /\ ioPc' = "deregister" => Last(hdr')
  BY <1>1, DueWaits, GivesUpEmpty, TalkingApart, DeregistersLast
<1>3. \A q \in subs' : pc'[q.call] = "done" \/ Granted(q.call)'
  BY GrantedNext
<1>4. \A c \in Subscribed' : pc'[c] = "done" =>
                                m_channels'[seq'[c]] = Listener(c, cmd'[c])
  BY RecordEntry
<1> QED
  BY <1>2, <1>3, <1>4 DEF RecordInv, Last

LEMMA RecordInvInit == Init => RecordInv
<1> SUFFICES ASSUME Init PROVE RecordInv
  OBVIOUS
<1>1. TypeOK /\ ThreadInv /\ m_thread # "running"
  BY InitType, ThreadInvInit DEF Init, IoInit
<1>2. InTransit = {} /\ requests = {} /\ subs = {} /\ UnreadHeaders = {}
  BY <1>1, NothingInTransit
<1>3. Talking = {} /\ Due = {} /\ Subscribed = {}
  BY <1>2 DEF Talking, Due, Subscribed
<1> QED
  BY <1>2, <1>3 DEF Init, ChannelInit, RecordInv

(* If, on top of the conditions of NeverDangles, an error answer to a data *)
(* command has its body, a listener of which records may still come is in  *)
(* m_channels from add*Channel on, and until then the answer that lets its *)
(* call register it is on its way or stored.                               *)
THEOREM RecordCorrect ==
  Without({"busyClose", "earlyCall", "fdReuse", "anyStop",
           "lateRecord", "lateAnswer", "reentrant", "earlyRecord",
           "bareError"}) => (Spec => []RecordInv)
<1> SUFFICES ASSUME Granting PROVE Spec => []RecordInv
  BY DEF Granting
<1>1. Basics /\ Channels /\ StopInv /\ PatienceInv /\ LastInv /\ RecordInv
         /\ [Next]_vars => RecordInv'
  BY RecordInvNext
<1>2. Spec => [](Channels /\ StopInv /\ PatienceInv)
  BY GrantingIs, PatienceInvCorrect
<1> QED
  BY <1>1, <1>2, RecordInvInit, LastInvCorrect, BasicsCorrect, PTL DEF Spec

(* In the same environments, the listener is registered by the time the I/O    *)
(* thread comes to a record of the subscription, and stays registered      *)
(* until the last one: no record is dropped for want of its listener       *)
(* ("callback method for each event").                                     *)
THEOREM RecordsFindListeners ==
  Without({"busyClose", "earlyCall", "fdReuse", "anyStop",
           "lateRecord", "lateAnswer", "reentrant", "earlyRecord",
           "bareError"}) => (Spec => []RecordFindsListener)
<1> SUFFICES ASSUME Granting PROVE Spec => []RecordFindsListener
  BY DEF Granting
<1>1. Basics /\ PatienceInv /\ RecordInv => RecordFindsListener
  <2> SUFFICES ASSUME Basics, PatienceInv, RecordInv, unpacker # <<>>,
                      NEW o, o = Head(unpacker), o.kind = "header",
                      o.what # "reply"
               PROVE  m_channels[o.seq] = Listener(o.call, cmd[o.call])
    BY DEF RecordFindsListener
  <2>1. unpacker \in Seq(Object)
    BY DEF Basics, TypeOK, ChannelTypeOK
  <2>2. o \in UnreadHeaders
    BY <2>1, RangeTail DEF UnreadHeaders
  <2>3. /\ pc[o.call] = "done" /\ o.seq = seq[o.call]
        /\ o.call \in Subscribed
    BY <2>2 DEF PatienceInv, Basics, TransitInv, InTransit, Subscribed
  <2> QED
    BY <2>3 DEF RecordInv
<1>2. Spec => []PatienceInv
  BY GrantingIs, PatienceInvCorrect, PTL
<1> QED
  BY <1>1, <1>2, RecordCorrect, BasicsCorrect, PTL DEF Granting

=============================================================================
