-------------------------- MODULE SerfReceiveProofs --------------------------
(***************************************************************************)
(* Theorems about the receive loop, for every buffer size, all sizes of    *)
(* objects and any number of objects and connections.                      *)
(***************************************************************************)
EXTENDS SerfReceive, SequenceTheorems, TLAPS

-----------------------------------------------------------------------------
(* Sequences of bytes. *)

LEMMA ConcatBytes ==
  ASSUME NEW s \in Seq(Byte), NEW t \in Seq(Byte), NEW u \in Seq(Byte)
  PROVE  (s \o t) \o u = s \o (t \o u) /\ s \o (t \o u) = (s \o t) \o u
BY ConcatAssociative

-----------------------------------------------------------------------------
(* The bytes the agent may write next. *)

LEMMA ByteFields ==
  ASSUME NEW b \in Byte
  PROVE  /\ b.connection \in 0..MaxConnections
         /\ b.object \in 0..MaxObjects /\ b.object \in Nat
         /\ b.pos \in Nat
         /\ b.size \in Sizes \cup {0} /\ b.size \in Nat
<1>1. Sizes \cup {0} \subseteq Nat
  BY SizesAssumption
<1>2. /\ b.connection \in 0..MaxConnections /\ b.object \in 0..MaxObjects
      /\ b.pos \in Nat /\ b.size \in Sizes \cup {0}
  BY DEF Byte
<1> QED
  BY <1>1, <1>2

LEMMA NextByteIs ==
  ASSUME written \in Byte, connection \in 0..MaxConnections,
         written.pos <= written.size, NEW b \in NextBytes
  PROVE  /\ b \in Byte
         /\ b.pos \in 1..b.size
         /\ Follows(b, written)
         /\ b.connection \in {connection, written.connection}
<1>1. Follows(b, written) /\ b.object <= MaxObjects
  BY DEF NextBytes
<1>2. /\ written.connection \in 0..MaxConnections
      /\ written.object \in 0..MaxObjects /\ written.pos \in Nat
      /\ written.size \in Sizes \cup {0} /\ written.size \in Nat
  BY ByteFields
<1>3. CASE b = [written EXCEPT !.pos = @ + 1]
  <2>1. b.object = written.object /\ b.pos = written.pos + 1
        /\ b.size = written.size /\ b.connection = written.connection
    BY <1>3 DEF Byte
  <2>2. b \in Byte
    BY <1>2, <1>3, <2>1 DEF Byte
  <2>3. written.pos < written.size
    BY <1>1, <1>2, <2>1 DEF Follows
  <2> QED
    BY <1>1, <1>2, <2>1, <2>2, <2>3
<1>4. ASSUME NEW s \in Sizes,
             b = [connection |-> connection, object |-> written.object + 1,
                  pos |-> 1, size |-> s]
      PROVE  /\ b \in Byte /\ b.pos \in 1..b.size
             /\ b.connection = connection
  <2>1. written.object + 1 \in 0..MaxObjects
    BY <1>1, <1>2, <1>4, LimitsAssumption
  <2>2. s \in Nat /\ 1 <= s
    BY SizesAssumption
  <2> QED
    BY <1>4, <2>1, <2>2 DEF Byte
<1> QED
  BY <1>1, <1>3, <1>4 DEF NextBytes

(* Type correctness. *)

LEMMA PieceType ==
  ASSUME NEW s \in Seq(Byte), NEW m \in Nat, NEW n \in Nat,
         1 <= m, n <= Len(s)
  PROVE  /\ SubSeq(s, m, n) \in Seq(Byte)
         /\ Len(SubSeq(s, m, n)) = IF m <= n THEN n - m + 1 ELSE 0
<1>1. \A i \in m .. n : s[i] \in Byte
  BY ElementOfSeq, LenProperties
<1> QED
  BY <1>1, SubSeqProperties

LEMMA ReadType ==
  ASSUME TypeOK, Read
  PROVE  /\ buffer' \in Seq(Byte) /\ Len(buffer') <= BufferSize
         /\ count' \in 0..BufferSize /\ count' <= Len(buffer')
         /\ arrived' \in Seq(Byte)
<1>1. /\ buffer \in Seq(Byte) /\ arrived \in Seq(Byte)
      /\ count \in 0..BufferSize /\ count < BufferSize
      /\ count <= Len(buffer) /\ BufferSize \in Nat
      /\ Len(buffer) \in Nat /\ Len(arrived) \in Nat
  BY BufferAssumption, LenProperties DEF TypeOK, Read
<1>2. PICK n \in Nat : /\ n <= Len(arrived) /\ n <= BufferSize - count
                       /\ Fill(n) /\ count' = count + n
                       /\ arrived' = SubSeq(arrived, n + 1, Len(arrived))
  <2>1. PICK m : /\ m = IF Len(arrived) < BufferSize - count
                        THEN Len(arrived) ELSE BufferSize - count
                 /\ Fill(m) /\ count' = count + m
                 /\ arrived' = SubSeq(arrived, m + 1, Len(arrived))
    BY DEF Read, Take, Counted
  <2>2. m \in Nat /\ m <= Len(arrived) /\ m <= BufferSize - count
    BY <1>1, <2>1
  <2> QED
    BY <2>1, <2>2
<1>3. /\ SubSeq(buffer, 1, count) \in Seq(Byte)
      /\ Len(SubSeq(buffer, 1, count)) = count
  BY <1>1, PieceType
<1>4. /\ SubSeq(arrived, 1, n) \in Seq(Byte)
      /\ Len(SubSeq(arrived, 1, n)) = n
  BY <1>1, <1>2, PieceType
<1>5. buffer' \in Seq(Byte) /\ Len(buffer') = count + n
  BY <1>2, <1>3, <1>4, ConcatProperties DEF Fill
<1>6. arrived' \in Seq(Byte)
  BY <1>1, <1>2, PieceType
<1> QED
  BY <1>1, <1>2, <1>5, <1>6

(* What is written never gets ahead of itself. *)
WrittenOK == written.connection = connection /\ written.pos <= written.size

LEMMA StartType ==
  ASSUME NEW n \in 0..MaxConnections
  PROVE  Start(n) \in Byte
  BY LimitsAssumption DEF Start, Byte

LEMMA InitType == Init => TypeOK /\ WrittenOK
<1> SUFFICES ASSUME Init PROVE TypeOK /\ WrittenOK
  OBVIOUS
<1>1. 0 \in 0..MaxConnections /\ 0 \in 0..BufferSize
  BY LimitsAssumption, BufferAssumption
<1>2. <<>> \in Seq(Byte) /\ Len(<<>>) = 0 /\ 0 <= BufferSize
  BY EmptySeq, BufferAssumption
<1>3. TypeOK
  BY <1>1, <1>2, StartType DEF Init, TypeOK
<1>4. WrittenOK
  BY DEF Init, WrittenOK, Start
<1> QED
  BY <1>3, <1>4

LEMMA NextType == TypeOK /\ WrittenOK /\ [Next]_vars => TypeOK' /\ WrittenOK'
<1> SUFFICES ASSUME TypeOK, WrittenOK, [Next]_vars
             PROVE  TypeOK' /\ WrittenOK'
  OBVIOUS
<1>1. CASE UNCHANGED vars
  BY <1>1 DEF vars, agentVars, historyVars, TypeOK, WrittenOK
<1>2. CASE Arrive
  <2>1. PICK b \in NextBytes : written' = b /\ arrived' = Append(arrived, b)
    BY <1>2 DEF Arrive
  <2>2. b \in Byte /\ b.pos \in 1..b.size /\ b.connection = connection
    BY <2>1, NextByteIs DEF TypeOK, WrittenOK
  <2>3. arrived' \in Seq(Byte)
    BY <2>1, <2>2, AppendProperties DEF TypeOK
  <2>4. b.size \in Nat
    BY <2>2, ByteFields
  <2> QED
    BY <1>2, <2>1, <2>2, <2>3, <2>4
    DEF Arrive, TypeOK, WrittenOK, historyVars
<1>3. CASE Connect
  <2>1. connection + 1 \in 0..MaxConnections
    BY <1>3, LimitsAssumption DEF Connect, TypeOK
  <2>2. written' \in Byte
    BY <1>3, <2>1, StartType DEF Connect
  <2>3. WrittenOK'
    BY <1>3 DEF Connect, WrittenOK, Start
  <2> QED
    BY <1>3, <2>1, <2>2, <2>3 DEF Connect, TypeOK
<1>4. CASE Close
  BY <1>4 DEF Close, TypeOK, WrittenOK, agentVars, historyVars
<1>5. CASE LoopTop
  <2>1. 0 \in 0..BufferSize /\ Len(buffer) \in Nat
    BY BufferAssumption, LenProperties DEF TypeOK
  <2> QED
    BY <1>5, <2>1 DEF LoopTop, TypeOK, WrittenOK, agentVars, historyVars
<1>6. CASE Exit
  BY <1>6, EmptySeq DEF Exit, TypeOK, WrittenOK
<1>7. CASE Read
  BY <1>7, ReadType DEF Read, TypeOK, WrittenOK, historyVars
<1>8. CASE BufferConsumed
  <2>1. SubSeq(buffer, 1, count) \in Seq(Byte)
    BY <1>8, PieceType DEF BufferConsumed, TypeOK
  <2>2. unpacker' \in Seq(Byte)
    BY <1>8, <2>1, ConcatProperties DEF BufferConsumed, Consumed, TypeOK
  <2> QED
    BY <1>8, <2>2
    DEF BufferConsumed, Consumed, TypeOK, WrittenOK, agentVars, historyVars
<1>9. CASE Decode
  <2>1. Head(unpacker) \in Byte /\ Len(unpacker) \in Nat
    BY <1>9, HeadTailProperties, LenProperties
    DEF Decode, Complete, AtObject, TypeOK
  <2>2. Head(unpacker).size \in Nat
    BY <2>1, ByteFields
  <2>3. unpacker' \in Seq(Byte)
    BY <1>9, <2>1, <2>2, PieceType DEF Decode, TypeOK
  <2>4. decoded' \in Nat /\ whole' \in BOOLEAN
    BY <1>9 DEF Decode, TypeOK
  <2> QED
    BY <1>9, <2>3, <2>4 DEF Decode, TypeOK, WrittenOK, agentVars
<1>10. CASE Misread
  <2>1. unpacker' \in Seq(Byte)
    <3>1. ASSUME NEW n \in 1..Len(unpacker)
          PROVE  SubSeq(unpacker, n + 1, Len(unpacker)) \in Seq(Byte)
      BY PieceType, LenProperties DEF TypeOK
    <3> QED
      BY <1>10, <3>1 DEF Misread, TypeOK
  <2>2. decoded' \in Nat /\ whole' \in BOOLEAN /\ fate' \in {"ok", "terminated"}
    <3>1. CASE fate' = "terminated" /\ UNCHANGED <<unpacker, decoded, whole>>
      BY <3>1 DEF TypeOK
    <3>2. CASE whole' = FALSE /\ decoded' = decoded + 1 /\ UNCHANGED fate
      <4>1. decoded' \in Nat
        BY <3>2 DEF TypeOK
      <4>2. whole' \in BOOLEAN /\ fate' \in {"ok", "terminated"}
        BY <3>2 DEF TypeOK
      <4> QED
        BY <4>1, <4>2
    <3> QED
      BY <1>10, <3>1, <3>2 DEF Misread
  <2> QED
    BY <1>10, <2>1, <2>2 DEF Misread, TypeOK, WrittenOK, agentVars
<1>11. CASE Drained
  BY <1>11 DEF Drained, TypeOK, WrittenOK, agentVars, historyVars
<1> QED
  BY <1>1, <1>2, <1>3, <1>4, <1>5, <1>6, <1>7, <1>8, <1>9, <1>10, <1>11
  DEF Next, ProcessRpc

(* The buffer is never overrun, for every buffer size: read is never asked *)
(* for more than the room that is left.                                    *)
THEOREM BufferFits == Spec => []TypeOK
<1>1. Spec => [](TypeOK /\ WrittenOK)
  BY InitType, NextType, PTL DEF Spec
<1> QED
  BY <1>1, PTL

-----------------------------------------------------------------------------
(* Framing.  A stretch of the stream of one connection: every byte follows *)
(* the one before it, and after the first byte of an object come the other *)
(* bytes of the same object.                                               *)

Stretch(P, c) ==
    /\ \A i \in 1..Len(P) : P[i].connection = c /\ P[i].pos \in 1..P[i].size
    /\ \A i \in 1..Len(P) - 1 : Follows(P[i + 1], P[i])
    /\ \A i \in 1..Len(P), k \in Nat :
          P[i].pos = 1 /\ k < P[i].size /\ i + k <= Len(P) =>
             /\ P[i + k].pos = k + 1
             /\ P[i + k].object = P[i].object
             /\ P[i + k].size = P[i].size

LEMMA FollowsInside ==
  ASSUME NEW a \in Byte, NEW b \in Byte, Follows(b, a), a.pos < a.size
  PROVE  b.pos = a.pos + 1 /\ b.object = a.object /\ b.size = a.size
  BY DEF Follows, Byte

LEMMA StretchAppend ==
  ASSUME NEW P \in Seq(Byte), NEW c, Stretch(P, c), NEW b \in Byte,
         b.connection = c, b.pos \in 1..b.size,
         P # <<>> => Follows(b, P[Len(P)])
  PROVE  Stretch(Append(P, b), c)
<1> DEFINE Q == Append(P, b)
<1>1. /\ Len(P) \in Nat /\ Len(Q) = Len(P) + 1
      /\ \A i \in 1..Len(P) : Q[i] = P[i] /\ P[i] \in Byte
      /\ Q[Len(P) + 1] = b
  BY AppendProperties, LenProperties, ElementOfSeq
<1>2. P # <<>> <=> Len(P) > 0
  BY <1>1, EmptySeq
<1> HIDE DEF Q
<1>3. \A i \in 1..Len(Q) : Q[i].connection = c /\ Q[i].pos \in 1..Q[i].size
  BY <1>1 DEF Stretch
<1>4. ASSUME NEW i \in 1..Len(Q) - 1
      PROVE  Follows(Q[i + 1], Q[i])
  <2>1. CASE i = Len(P)
    BY <1>1, <1>2, <2>1
  <2>2. CASE i < Len(P)
    <3>1. i \in 1..Len(P) - 1 /\ i \in 1..Len(P) /\ i + 1 \in 1..Len(P)
      BY <1>1, <2>2
    <3> QED
      BY <1>1, <3>1 DEF Stretch
  <2> QED
    BY <1>1, <2>1, <2>2
<1>5. ASSUME NEW i \in 1..Len(Q), NEW k \in Nat,
             Q[i].pos = 1, k < Q[i].size, i + k <= Len(Q)
      PROVE  /\ Q[i + k].pos = k + 1
             /\ Q[i + k].object = Q[i].object
             /\ Q[i + k].size = Q[i].size
  <2>1. CASE i + k <= Len(P)
    <3>1. i \in 1..Len(P) /\ i + k \in 1..Len(P)
      BY <1>1, <2>1
    <3>2. Q[i] = P[i] /\ Q[i + k] = P[i + k]
      BY <1>1, <3>1
    <3> QED
      BY <1>5, <2>1, <3>1, <3>2 DEF Stretch
  <2>2. CASE k = 0
    BY <1>5, <2>2
  <2>3. CASE i + k = Len(Q) /\ k > 0
    <3>1. /\ i \in 1..Len(P) /\ k - 1 \in Nat /\ i + (k - 1) <= Len(P)
          /\ i + (k - 1) = Len(P) /\ i + k = Len(P) + 1 /\ Len(P) > 0
          /\ Len(P) \in 1..Len(P)
      BY <1>1, <2>3
    <3>2. P[i] \in Byte /\ Q[i] = P[i] /\ P[Len(P)] \in Byte /\ Q[i + k] = b
      BY <1>1, <3>1
    <3>3. k - 1 < P[i].size
      BY <1>5, <3>2, ByteFields
    <3>4. /\ P[Len(P)].pos = (k - 1) + 1
          /\ P[Len(P)].object = P[i].object
          /\ P[Len(P)].size = P[i].size
      BY <1>5, <3>1, <3>2, <3>3 DEF Stretch
    <3>5. P[Len(P)].pos = k /\ P[Len(P)].pos < P[Len(P)].size
      BY <1>5, <3>2, <3>4
    <3>6. Follows(b, P[Len(P)])
      BY <1>2, <3>1
    <3> QED
      BY <3>2, <3>4, <3>5, <3>6, FollowsInside
  <2> QED
    BY <1>1, <1>5, <2>1, <2>2, <2>3
<1> QED
  BY <1>3, <1>4, <1>5 DEF Stretch, Q

LEMMA StretchRest ==
  ASSUME NEW P \in Seq(Byte), NEW c, Stretch(P, c), NEW n \in Nat, n <= Len(P)
  PROVE  Stretch(SubSeq(P, n + 1, Len(P)), c)
<1> DEFINE Q == SubSeq(P, n + 1, Len(P))
<1>1. Len(P) \in Nat /\ n + 1 \in Int
  BY LenProperties
<1>2. \A i \in n + 1 .. Len(P) : P[i] \in Byte
  BY <1>1, ElementOfSeq
<1>3. \A i \in 1 .. Len(P) - (n + 1) + 1 : Q[i] = P[(n + 1) + i - 1]
  BY <1>1, <1>2, SubSeqProperties
<1>4. Len(Q) = Len(P) - n
  BY <1>1, PieceType
<1> HIDE DEF Q
<1>5. \A i \in 1..Len(Q) : n + i \in 1..Len(P) /\ Q[i] = P[n + i]
  BY <1>1, <1>3, <1>4
<1>6. \A i \in 1..Len(Q) : Q[i].connection = c /\ Q[i].pos \in 1..Q[i].size
  BY <1>5 DEF Stretch
<1>7. ASSUME NEW i \in 1..Len(Q) - 1
      PROVE  Follows(Q[i + 1], Q[i])
  <2>1. /\ i \in 1..Len(Q) /\ i + 1 \in 1..Len(Q)
        /\ n + i \in 1..Len(P) - 1 /\ n + (i + 1) = (n + i) + 1
    BY <1>1, <1>4
  <2> QED
    BY <1>5, <2>1 DEF Stretch
<1>8. ASSUME NEW i \in 1..Len(Q), NEW k \in Nat,
             Q[i].pos = 1, k < Q[i].size, i + k <= Len(Q)
      PROVE  /\ Q[i + k].pos = k + 1
             /\ Q[i + k].object = Q[i].object
             /\ Q[i + k].size = Q[i].size
  <2>1. /\ i + k \in 1..Len(Q) /\ n + i \in 1..Len(P)
        /\ n + (i + k) = (n + i) + k /\ (n + i) + k <= Len(P)
    BY <1>1, <1>4, <1>8
  <2>2. Q[i] = P[n + i] /\ Q[i + k] = P[(n + i) + k]
    BY <1>5, <2>1
  <2> QED
    BY <1>8, <2>1, <2>2 DEF Stretch
<1> QED
  BY <1>6, <1>7, <1>8 DEF Stretch, Q

(* The bytes of the first object of a stretch. *)
LEMMA StretchFirst ==
  ASSUME NEW P \in Seq(Byte), NEW c, Stretch(P, c), P # <<>>, P[1].pos = 1,
         P[1].size <= Len(P)
  PROVE  \A i \in 1..P[1].size : /\ P[i].object = P[1].object
                                 /\ P[i].pos = i
                                 /\ P[i].size = P[1].size
                                 /\ P[i].connection = c
<1> SUFFICES ASSUME NEW i \in 1..P[1].size
             PROVE  /\ P[i].object = P[1].object /\ P[i].pos = i
                    /\ P[i].size = P[1].size /\ P[i].connection = c
  OBVIOUS
<1>1. Len(P) \in Nat /\ 1 \in 1..Len(P)
  BY LenProperties, EmptySeq
<1>2. P[1].size \in Nat
  BY <1>1, ElementOfSeq, ByteFields
<1>3. /\ i - 1 \in Nat /\ i - 1 < P[1].size /\ 1 + (i - 1) <= Len(P)
      /\ 1 + (i - 1) = i /\ (i - 1) + 1 = i /\ i \in 1..Len(P)
  BY <1>1, <1>2
<1> QED
  BY <1>1, <1>3 DEF Stretch

-----------------------------------------------------------------------------
(* What the objects still to be handed out look like. *)

InOrder(P) ==
    IF P = <<>>
    THEN decoded = written.object /\ written.pos = written.size
    ELSE /\ P[1].object = decoded + 1 /\ P[1].pos = 1
         /\ P[Len(P)] = written
         /\ Stretch(P, connection)

FrameInv ==
    /\ ioPc = "none" => arrived = <<>>
    /\ ~cut => /\ fate = "ok" /\ whole
               /\ ioPc = "none" => unpacker = <<>>
               /\ ioPc # "none" => InOrder(Pending)

LEMMA PendingType ==
  ASSUME TypeOK
  PROVE  /\ InBuffer \in Seq(Byte)
         /\ unpacker \o InBuffer \in Seq(Byte)
         /\ Pending \in Seq(Byte)
         /\ Len(Pending) = Len(unpacker) + Len(InBuffer) + Len(arrived)
<1>1. <<>> \in Seq(Byte)
  BY EmptySeq
<1>2. InBuffer \in Seq(Byte)
  <2>1. CASE ioPc = "read"
    <3>1. count \in Nat /\ count <= Len(buffer)
      BY <2>1 DEF TypeOK
    <3> QED
      BY <2>1, <3>1, PieceType DEF InBuffer, TypeOK
  <2> QED
    BY <1>1, <2>1 DEF InBuffer
<1> QED
  BY <1>2, ConcatProperties, LenProperties DEF Pending, TypeOK

LEMMA FrameArrive ==
  ASSUME TypeOK, WrittenOK, FrameInv, Arrive
  PROVE  FrameInv'
<1>1. PICK b \in NextBytes : written' = b /\ arrived' = Append(arrived, b)
  BY DEF Arrive
<1>2. /\ b \in Byte /\ b.pos \in 1..b.size /\ Follows(b, written)
      /\ b.connection = connection
  BY <1>1, NextByteIs DEF TypeOK, WrittenOK
<1>3. Pending' = Append(Pending, b)
  <2>1. InBuffer' = InBuffer
    BY DEF Arrive, InBuffer
  <2>2. arrived' = arrived \o <<b>>
    BY <1>1, <1>2, AppendIsConcat DEF TypeOK
  <2>3. <<b>> \in Seq(Byte)
    BY <1>2
  <2>4. (unpacker \o InBuffer) \o (arrived \o <<b>>)
           = ((unpacker \o InBuffer) \o arrived) \o <<b>>
    <3>1. arrived \in Seq(Byte) /\ unpacker \o InBuffer \in Seq(Byte)
      BY PendingType DEF TypeOK
    <3> QED
      BY <2>3, <3>1, ConcatBytes
  <2>5. ((unpacker \o InBuffer) \o arrived) \o <<b>> = Append(Pending, b)
    BY <1>2, PendingType, AppendIsConcat DEF Pending
  <2> QED
    BY <2>1, <2>2, <2>4, <2>5 DEF Pending, Arrive
<1>4. ASSUME ~cut PROVE InOrder(Pending)'
  <2>1. InOrder(Pending)
    BY <1>4 DEF FrameInv, Arrive
  <2>2. Pending \in Seq(Byte) /\ Len(Pending) \in Nat
    BY PendingType, LenProperties
  <2>3. /\ Pending' # <<>> /\ Len(Pending') = Len(Pending) + 1
        /\ Pending'[Len(Pending')] = b
        /\ \A i \in 1..Len(Pending) : Pending'[i] = Pending[i]
    BY <1>2, <1>3, <2>2, AppendProperties
  <2>4. CASE Pending = <<>>
    <3>1. b.pos = 1 /\ b.object = decoded + 1
      BY <1>2, <2>1, <2>4, ByteFields DEF InOrder, Follows, TypeOK
    <3>2. Stretch(<<>>, connection) /\ Len(<<>>) = 0
      BY DEF Stretch
    <3>3. Stretch(Pending', connection)
      BY <1>2, <1>3, <2>2, <2>4, <3>2, StretchAppend
    <3> QED
      BY <1>1, <2>3, <2>4, <3>1, <3>2, <3>3 DEF InOrder, Arrive, historyVars
  <2>5. CASE Pending # <<>>
    <3>1. Stretch(Pending', connection)
      BY <1>2, <1>3, <2>1, <2>2, <2>5, StretchAppend DEF InOrder
    <3>2. 1 \in 1..Len(Pending)
      BY <2>2, <2>5, EmptySeq
    <3>3. Pending'[1] = Pending[1]
      BY <2>3, <3>2
    <3> QED
      BY <1>1, <2>1, <2>3, <2>5, <3>1, <3>3 DEF InOrder, Arrive, historyVars
  <2> QED
    BY <2>4, <2>5
<1> QED
  BY <1>4 DEF FrameInv, Arrive, historyVars

(* A step that moves bytes along changes nothing about the stream. *)
LEMMA FrameMoves ==
  ASSUME FrameInv, Pending' = Pending, ioPc # "none", ioPc' # "none",
         UNCHANGED <<connection, written, decoded, whole, cut, fate>>
  PROVE  FrameInv'
  BY DEF FrameInv, InOrder

LEMMA FrameRead ==
  ASSUME TypeOK, FrameInv, Read
  PROVE  FrameInv'
<1>1. /\ buffer \in Seq(Byte) /\ arrived \in Seq(Byte)
      /\ unpacker \in Seq(Byte)
      /\ count \in Nat /\ count < BufferSize /\ count <= Len(buffer)
      /\ BufferSize \in Nat /\ Len(buffer) \in Nat /\ Len(arrived) \in Nat
  BY BufferAssumption, LenProperties DEF TypeOK, Read
<1>2. PICK n : /\ n = IF Len(arrived) < BufferSize - count
                      THEN Len(arrived) ELSE BufferSize - count
               /\ Fill(n) /\ count' = count + n
               /\ arrived' = SubSeq(arrived, n + 1, Len(arrived))
  BY DEF Read, Take, Counted
<1>3. n \in Nat /\ n <= Len(arrived)
  BY <1>1, <1>2
<1> DEFINE taken == SubSeq(arrived, 1, n)
           before == SubSeq(buffer, 1, count)
<1>4. /\ taken \in Seq(Byte) /\ Len(taken) = n
      /\ before \in Seq(Byte) /\ Len(before) = count
      /\ arrived' \in Seq(Byte)
  BY <1>1, <1>2, <1>3, PieceType
<1>5. taken \o arrived' = arrived
  <2>1. 1 \in 1..Len(arrived) + 1 /\ n \in 1 - 1 .. Len(arrived)
        /\ Len(arrived) \in n .. Len(arrived)
    BY <1>1, <1>3
  <2> QED
    BY <1>1, <1>2, <2>1, ConcatAdjacentSubSeq, SubSeqFull
<1>6. InBuffer' = before \o taken
  <2>1. before \o taken \in Seq(Byte) /\ Len(before \o taken) = count + n
    BY <1>4, ConcatProperties
  <2>2. buffer' = before \o taken /\ count' = Len(before \o taken)
    BY <1>2, <2>1 DEF Fill
  <2>3. ioPc' = "read"
    BY DEF Read
  <2> QED
    BY <2>1, <2>2, <2>3, SubSeqFull DEF InBuffer
<1>7. InBuffer = before
  BY DEF InBuffer, Read
<1> HIDE DEF taken, before
<1>8. Pending' = Pending
  <2>1. unpacker' = unpacker
    BY DEF Read
  <2>2. unpacker \o (before \o taken) = (unpacker \o before) \o taken
    <3>1. unpacker \in Seq(Byte) /\ before \in Seq(Byte) /\ taken \in Seq(Byte)
      BY <1>1, <1>4
    <3> QED
      BY <3>1, ConcatBytes
  <2>3. unpacker \o before \in Seq(Byte)
    BY <1>1, <1>4, ConcatProperties
  <2>4. ((unpacker \o before) \o taken) \o arrived'
           = (unpacker \o before) \o (taken \o arrived')
    BY <1>4, <2>3, ConcatAssociative
  <2> QED
    BY <1>5, <1>6, <1>7, <2>1, <2>2, <2>4 DEF Pending
<1> QED
  BY <1>8, FrameMoves DEF Read, historyVars

LEMMA FrameConsumed ==
  ASSUME TypeOK, FrameInv, BufferConsumed
  PROVE  FrameInv'
<1>1. InBuffer = SubSeq(buffer, 1, count) /\ InBuffer' = <<>>
  BY DEF BufferConsumed, Consumed, InBuffer
<1>2. unpacker' = unpacker \o InBuffer
  BY <1>1 DEF BufferConsumed, Consumed
<1>3. unpacker' \o <<>> = unpacker'
  BY <1>2, PendingType, ConcatEmptySeq
<1>4. Pending' = Pending
  BY <1>1, <1>2, <1>3 DEF Pending, BufferConsumed, Consumed, agentVars
<1> QED
  BY <1>4, FrameMoves DEF BufferConsumed, Consumed, agentVars, historyVars

LEMMA FrameTopOrDrained ==
  ASSUME TypeOK, FrameInv, LoopTop \/ Drained
  PROVE  FrameInv'
<1>1. InBuffer = <<>>
  BY DEF LoopTop, Drained, InBuffer
<1>2. InBuffer' = <<>>
  BY SubSeqEmpty DEF LoopTop, Drained, InBuffer
<1>3. Pending' = Pending
  BY <1>1, <1>2 DEF Pending, LoopTop, Drained, agentVars
<1> QED
  BY <1>3, FrameMoves DEF LoopTop, Drained, agentVars, historyVars

(* next finds the first byte of an object, and takes that object.          *)
LEMMA FirstIsHead ==
  ASSUME TypeOK, ioPc = "drain", unpacker # <<>>
  PROVE  /\ Pending = unpacker \o arrived
         /\ Pending # <<>> /\ Pending[1] = Head(unpacker)
         /\ \A i \in 1..Len(unpacker) : Pending[i] = unpacker[i]
         /\ Len(Pending) = Len(unpacker) + Len(arrived)
<1>1. /\ unpacker \in Seq(Byte) /\ arrived \in Seq(Byte)
      /\ Len(unpacker) \in Nat /\ Len(arrived) \in Nat
      /\ 1 \in 1..Len(unpacker)
  BY LenProperties, EmptySeq DEF TypeOK
<1>2. unpacker \o InBuffer = unpacker
  BY <1>1, ConcatEmptySeq DEF InBuffer
<1>3. Pending = unpacker \o arrived
  BY <1>2 DEF Pending
<1>4. /\ Len(Pending) = Len(unpacker) + Len(arrived)
      /\ \A i \in 1..Len(unpacker) : Pending[i] = unpacker[i]
  BY <1>1, <1>3, ConcatProperties
<1>5. Pending # <<>>
  BY <1>1, <1>4, EmptySeq
<1> QED
  BY <1>1, <1>3, <1>4, <1>5

LEMMA FrameDecode ==
  ASSUME TypeOK, FrameInv, Decode
  PROVE  FrameInv'
<1> DEFINE n == Head(unpacker).size
           P == Pending
<1>1. /\ ioPc = "drain" /\ unpacker # <<>>
      /\ n <= Len(unpacker) /\ Head(unpacker).pos = 1
      /\ unpacker' = SubSeq(unpacker, n + 1, Len(unpacker))
      /\ decoded' = decoded + 1
      /\ UNCHANGED <<connection, written, arrived, ioPc, cut, fate>>
  BY DEF Decode, Complete, AtObject, agentVars
<1>2. /\ unpacker \in Seq(Byte) /\ arrived \in Seq(Byte) /\ P \in Seq(Byte)
      /\ Len(unpacker) \in Nat /\ Len(arrived) \in Nat /\ Len(P) \in Nat
      /\ n \in Nat
  <2>1. Head(unpacker) \in Byte
    BY <1>1, HeadTailProperties DEF TypeOK
  <2> QED
    BY <2>1, ByteFields, PendingType, LenProperties DEF TypeOK
<1>3. /\ P = unpacker \o arrived /\ P # <<>> /\ P[1] = Head(unpacker)
      /\ \A i \in 1..Len(unpacker) : P[i] = unpacker[i]
      /\ Len(P) = Len(unpacker) + Len(arrived)
  BY <1>1, FirstIsHead
<1>4. Pending' = SubSeq(P, n + 1, Len(P))
  <2> DEFINE U == SubSeq(unpacker, n + 1, Len(unpacker))
             R == SubSeq(P, n + 1, Len(P))
  <2>1. U \in Seq(Byte) /\ Len(U) = Len(unpacker) - n
    BY <1>1, <1>2, PieceType
  <2>2. R \in Seq(Byte) /\ Len(R) = Len(P) - n
    BY <1>1, <1>2, <1>3, PieceType
  <2>3. \A i \in 1..Len(U) : U[i] = unpacker[n + i]
    <3>1. \A i \in n + 1 .. Len(unpacker) : unpacker[i] \in Byte
      BY <1>2, ElementOfSeq
    <3>2. \A i \in 1 .. Len(unpacker) - (n + 1) + 1 :
             U[i] = unpacker[(n + 1) + i - 1]
      BY <1>2, <3>1, SubSeqProperties
    <3>3. SUFFICES ASSUME NEW i \in 1..Len(U) PROVE U[i] = unpacker[n + i]
      OBVIOUS
    <3> HIDE DEF U, n
    <3>4. i \in 1 .. Len(unpacker) - (n + 1) + 1 /\ (n + 1) + i - 1 = n + i
      BY <1>2, <2>1
    <3> QED
      BY <3>2, <3>4
  <2>4. \A i \in 1..Len(R) : R[i] = P[n + i]
    <3>1. \A i \in n + 1 .. Len(P) : P[i] \in Byte
      BY <1>2, ElementOfSeq
    <3>2. \A i \in 1 .. Len(P) - (n + 1) + 1 : R[i] = P[(n + 1) + i - 1]
      BY <1>2, <3>1, SubSeqProperties
    <3>3. SUFFICES ASSUME NEW i \in 1..Len(R) PROVE R[i] = P[n + i]
      OBVIOUS
    <3> HIDE DEF R, P, n
    <3>4. i \in 1 .. Len(P) - (n + 1) + 1 /\ (n + 1) + i - 1 = n + i
      BY <1>2, <2>2
    <3> QED
      BY <3>2, <3>4
  <2> HIDE DEF U, R, P, n
  <2>5. /\ U \o arrived \in Seq(Byte)
        /\ Len(U \o arrived) = Len(U) + Len(arrived)
        /\ \A i \in 1..Len(U) + Len(arrived) :
              (U \o arrived)[i] = IF i <= Len(U) THEN U[i]
                                  ELSE arrived[i - Len(U)]
    BY <1>2, <2>1, ConcatProperties
  <2>6. \A i \in 1..Len(P) : P[i] = IF i <= Len(unpacker) THEN unpacker[i]
                                    ELSE arrived[i - Len(unpacker)]
    BY <1>2, <1>3, ConcatProperties
  <2>7. ASSUME NEW i \in 1..Len(R)
        PROVE  R[i] = (U \o arrived)[i]
    <3>1. n + i \in 1..Len(P) /\ i \in 1..Len(U) + Len(arrived)
      BY <1>2, <1>3, <2>1, <2>2
    <3>2. CASE i <= Len(U)
      <4>1. n + i <= Len(unpacker) /\ i \in 1..Len(U)
        BY <1>2, <2>1, <3>2
      <4>2. R[i] = unpacker[n + i]
        BY <2>4, <2>6, <3>1, <4>1
      <4> QED
        BY <2>3, <2>5, <3>1, <3>2, <4>1, <4>2
    <3>3. CASE ~(i <= Len(U))
      <4>1. ~(n + i <= Len(unpacker)) /\ (n + i) - Len(unpacker) = i - Len(U)
        BY <1>2, <2>1, <3>3
      <4>2. R[i] = arrived[(n + i) - Len(unpacker)]
        BY <2>4, <2>6, <3>1, <4>1
      <4> QED
        BY <2>5, <3>1, <3>3, <4>1, <4>2
    <3> QED
      BY <3>2, <3>3
  <2>8. Len(R) = Len(U \o arrived)
    BY <1>2, <1>3, <2>1, <2>2, <2>5
  <2>9. R = U \o arrived
    BY <2>2, <2>5, <2>7, <2>8, SeqEqual
  <2>10. unpacker' \o InBuffer' = U /\ unpacker' = U
    BY <1>1, <2>1, ConcatEmptySeq DEF InBuffer, U, n
  <2> QED
    BY <1>1, <2>9, <2>10 DEF Pending, R, P, n
<1> HIDE DEF P, n
<1>5. ASSUME ~cut PROVE whole' /\ InOrder(Pending)'
  <2>1. /\ P[1].object = decoded + 1 /\ P[1].pos = 1
        /\ P[Len(P)] = written /\ Stretch(P, connection)
    BY <1>1, <1>3, <1>5 DEF FrameInv, InOrder, P
  <2>2. P[1].size = n /\ n <= Len(P)
    BY <1>1, <1>2, <1>3 DEF n
  <2>3. \A i \in 1..n : /\ P[i].object = P[1].object /\ P[i].pos = i
                        /\ P[i].size = n /\ P[i].connection = connection
    BY <1>2, <1>3, <2>1, <2>2, StretchFirst
  <2>4. whole'
    <3>1. \A i \in 1..n : unpacker[i] = P[i]
      BY <1>1, <1>2, <1>3
    <3>2. whole
      BY <1>5 DEF FrameInv
    <3>3. whole' = (whole /\ \A i \in 1..n :
                                /\ unpacker[i].object = Head(unpacker).object
                                /\ unpacker[i].connection = connection)
      BY DEF Decode, n
    <3>4. Head(unpacker).object = P[1].object
      BY <1>3
    <3> QED
      BY <2>3, <3>1, <3>2, <3>3, <3>4
  <2>5. 1 \in 1..Len(P) /\ n \in 1..n /\ n \in 1..Len(P)
    <3>1. 1 \in 1..Len(P)
      BY <1>2, <1>3, EmptySeq
    <3>2. P[1].pos \in 1..P[1].size
      BY <2>1, <3>1 DEF Stretch
    <3> QED
      BY <1>2, <2>1, <2>2, <3>1, <3>2
  <2>6. Len(Pending') = Len(P) - n /\ Pending' \in Seq(Byte)
    BY <1>2, <1>4, <2>2, PieceType
  <2>7. CASE n = Len(P)
    <3>1. Pending' = <<>>
      BY <1>2, <1>4, <2>7, SubSeqEmpty
    <3>2. /\ written.object = decoded + 1 /\ written.pos = n
          /\ written.size = n
      BY <2>1, <2>3, <2>5, <2>7
    <3> QED
      BY <1>1, <2>4, <3>1, <3>2 DEF InOrder
  <2>8. CASE n < Len(P)
    <3>1. Stretch(Pending', connection)
      BY <1>2, <1>4, <2>1, <2>2, StretchRest
    <3>2. /\ \A i \in 1..Len(P) - n : Pending'[i] = P[n + i]
      <4>1. \A i \in n + 1 .. Len(P) : P[i] \in Byte
        BY <1>2, ElementOfSeq
      <4>2. \A i \in 1 .. Len(P) - (n + 1) + 1 :
               Pending'[i] = P[(n + 1) + i - 1]
        BY <1>2, <1>4, <4>1, SubSeqProperties
      <4> QED
        BY <1>2, <4>2
    <3>3. 1 \in 1..Len(P) - n /\ Len(P) - n \in 1..Len(P) - n
          /\ n + (Len(P) - n) = Len(P) /\ n \in 1..Len(P) - 1
      BY <1>2, <2>5, <2>8
    <3>4. Pending'[1] = P[n + 1] /\ Pending'[Len(Pending')] = P[Len(P)]
      BY <2>6, <3>2, <3>3
    <3>5. Follows(P[n + 1], P[n])
      BY <2>1, <3>3 DEF Stretch
    <3>6. P[n].pos = n /\ P[n].size = n /\ P[n].object = decoded + 1
      BY <2>1, <2>3, <2>5
    <3>7. P[n + 1].pos = 1 /\ P[n + 1].object = (decoded + 1) + 1
      BY <1>2, <3>5, <3>6 DEF Follows
    <3>8. Pending' # <<>>
      BY <1>2, <2>6, <2>8, EmptySeq
    <3> QED
      BY <1>1, <2>1, <2>4, <3>1, <3>4, <3>7, <3>8 DEF InOrder
  <2> QED
    BY <1>2, <2>2, <2>7, <2>8
<1> QED
  BY <1>1, <1>5 DEF FrameInv

LEMMA FrameMisread ==
  ASSUME TypeOK, FrameInv, Misread
  PROVE  FrameInv'
<1>1. /\ ioPc = "drain" /\ unpacker # <<>> /\ Head(unpacker).pos # 1
      /\ UNCHANGED <<cut, ioPc>>
  BY DEF Misread, AtObject
<1>2. Pending # <<>> /\ Pending[1] = Head(unpacker)
  BY <1>1, FirstIsHead
<1>3. cut
  BY <1>1, <1>2 DEF FrameInv, InOrder
<1> QED
  BY <1>1, <1>3 DEF FrameInv

LEMMA FrameConnect ==
  ASSUME TypeOK, FrameInv, Connect
  PROVE  FrameInv'
<1>1. arrived' = <<>> /\ (~cut => unpacker' = <<>>) /\ InBuffer' = <<>>
  BY DEF FrameInv, Connect, InBuffer
<1>2. <<>> \o <<>> = <<>>
  BY ConcatEmptySeq, EmptySeq
<1>3. ~cut => Pending' = <<>>
  BY <1>1, <1>2 DEF Pending
<1>4. decoded' = written'.object /\ written'.pos = written'.size
  BY DEF Connect, Start
<1> QED
  BY <1>3, <1>4 DEF FrameInv, InOrder, Connect

LEMMA FrameNext == TypeOK /\ WrittenOK /\ FrameInv /\ [Next]_vars => FrameInv'
<1> SUFFICES ASSUME TypeOK, WrittenOK, FrameInv, [Next]_vars PROVE FrameInv'
  OBVIOUS
<1>1. CASE UNCHANGED vars \/ Close
  <2>1. UNCHANGED <<agentVars, ioPc, count, buffer, unpacker, historyVars>>
    BY <1>1 DEF vars, Close
  <2>2. Pending' = Pending
    BY <2>1 DEF agentVars, Pending, InBuffer
  <2> QED
    BY <2>1, <2>2 DEF agentVars, historyVars, FrameInv, InOrder
<1>2. CASE Exit
  BY <1>2 DEF Exit, FrameInv
<1> QED
  BY <1>1, <1>2, FrameArrive, FrameConnect, FrameRead, FrameConsumed,
     FrameTopOrDrained, FrameDecode, FrameMisread DEF Next, ProcessRpc

LEMMA FrameInit == Init => FrameInv
  BY DEF Init, FrameInv

LEMMA FrameImpliesInStep == FrameInv => InStep
  BY DEF FrameInv, InOrder, InStep, Stretch

(* Whatever the pieces in which bytes arrive and whatever the sizes of the *)
(* buffer and of the objects, the receive loop hands out the objects the   *)
(* agent wrote, whole and in order, until a connection ends inside one.    *)
THEOREM FramingCorrect == Spec => []InStep
<1>1. Spec => [](TypeOK /\ WrittenOK)
  BY InitType, NextType, PTL DEF Spec
<1>2. Spec => []FrameInv
  BY <1>1, FrameInit, FrameNext, PTL DEF Spec
<1> QED
  BY <1>2, FrameImpliesInStep, PTL
=============================================================================
