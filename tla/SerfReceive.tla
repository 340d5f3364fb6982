----------------------------- MODULE SerfReceive -----------------------------
(***************************************************************************)
(* The receiving half of SerfIoThread::processRpc, byte by byte: the read  *)
(* loop that fills the unpacker's buffer, the unpacker that cuts msgpack   *)
(* objects out of what was read, and what a connection leaves to the next. *)
(*                                                                         *)
(* SerfIoThread takes objects whole.  That is legitimate as long as this   *)
(* module hands them on whole and in order (InStep), whatever pieces they  *)
(* arrive in and whatever does not fit the buffer.  What objects mean, and *)
(* who takes them off the unpacker (processRpc or a produce), is left out. *)
(***************************************************************************)
EXTENDS Naturals, Sequences

CONSTANTS
    BufferSize,      \* RPC_BUFFER_SIZE
    Sizes,           \* the sizes of objects the agent writes, in bytes
    MaxObjects,      \* bound: objects the agent writes on one connection
    MaxConnections   \* bound: connections

ASSUME BufferAssumption == BufferSize \in Nat \ {0}
ASSUME SizesAssumption == Sizes \subseteq Nat \ {0}
ASSUME LimitsAssumption == MaxObjects \in Nat /\ MaxConnections \in Nat

VARIABLES
    connection,  \* how many connections there have been
    written,     \* the last byte the agent wrote on this one
    arrived,     \* bytes of this connection nobody has read
    m_shutdown,
    ioPc,        \* where processRpc is; "none" while there is no I/O thread
    count,
    buffer,      \* memory at m_unpacker.buffer()
    unpacker,    \* bytes m_unpacker has consumed and not handed out
    decoded,     \* objects handed out on this connection
    whole,       \* every object handed out was one the agent wrote
    cut,         \* some connection ended inside an object
    fate         \* "ok" until an exception leaves the thread

agentVars == <<connection, written, arrived>>
historyVars == <<decoded, whole, cut, fate>>
vars == <<agentVars, m_shutdown, ioPc, count, buffer, unpacker, historyVars>>

Byte == [connection : 0..MaxConnections, object : 0..MaxObjects, pos : Nat,
         size : Sizes \cup {0}]

(* The byte before the first one of a connection. *)
Start(n) == [connection |-> n, object |-> 0, pos |-> 0, size |-> 0]

(* The buffer is never overrun, so that "RPC buffer size is too small" is  *)
(* never printed: the room asked of read shrinks with every read.          *)
TypeOK ==
    /\ connection \in 0..MaxConnections
    /\ written \in Byte
    /\ arrived \in Seq(Byte)
    /\ m_shutdown \in BOOLEAN
    /\ ioPc \in {"none", "top", "read", "drain"}
    /\ count \in 0..BufferSize
    /\ buffer \in Seq(Byte) /\ Len(buffer) <= BufferSize
    /\ ioPc = "read" => count <= Len(buffer)
    /\ unpacker \in Seq(Byte)
    /\ decoded \in Nat
    /\ whole \in BOOLEAN /\ cut \in BOOLEAN
    /\ fate \in {"ok", "terminated"}

Init ==
    /\ connection = 0
    /\ written = Start(0)
    /\ arrived = <<>>
    /\ m_shutdown = FALSE
    /\ ioPc = "none"
    /\ count = 0
    /\ buffer = <<>>
    /\ unpacker = <<>>
    /\ decoded = 0
    /\ whole = TRUE
    /\ cut = FALSE
    /\ fate = "ok"

-----------------------------------------------------------------------------
(* The agent writes object after object; the network brings them byte by   *)
(* byte, and a read takes whatever is there.                               *)

Follows(b, a) ==
    IF a.pos < a.size
    THEN b = [a EXCEPT !.pos = @ + 1]
    ELSE /\ b.connection = a.connection
         /\ b.object = a.object + 1
         /\ b.pos = 1

NextBytes == {b \in {[written EXCEPT !.pos = @ + 1]} \cup
                    {[connection |-> connection, object |-> written.object + 1,
                      pos |-> 1, size |-> s] : s \in Sizes} :
                 Follows(b, written) /\ b.object <= MaxObjects}

Arrive ==
    /\ ioPc # "none"
    /\ \E b \in NextBytes : written' = b /\ arrived' = Append(arrived, b)
    /\ UNCHANGED <<connection, m_shutdown, ioPc, count, buffer, unpacker,
                   historyVars>>

-----------------------------------------------------------------------------
(* The connection.  Close joins the thread and resets m_shutdown; here the *)
(* next Connect does.                                                      *)

Connect ==
    /\ ioPc = "none"
    /\ connection < MaxConnections
    /\ connection' = connection + 1
    /\ written' = Start(connection + 1)
    /\ m_shutdown' = FALSE
    /\ ioPc' = "top"
    /\ decoded' = 0
    /\ UNCHANGED <<arrived, count, buffer, unpacker, whole, cut, fate>>

Close ==
    /\ ioPc # "none"
    /\ m_shutdown' = TRUE
    /\ UNCHANGED <<agentVars, ioPc, count, buffer, unpacker, historyVars>>

-----------------------------------------------------------------------------
(* processRpc. *)

LoopTop ==
    /\ ioPc = "top"
    /\ ~m_shutdown
    /\ ioPc' = "read"
    /\ count' = 0
    /\ UNCHANGED <<agentVars, m_shutdown, buffer, unpacker, historyVars>>

(* The socket is closed, and what nobody read is lost. *)
Exit ==
    /\ ioPc = "top"
    /\ m_shutdown
    /\ ioPc' = "none"
    /\ arrived' = <<>>
    /\ cut' = (cut \/ unpacker # <<>>)
    /\ UNCHANGED <<connection, written, m_shutdown, count, buffer, unpacker,
                   decoded, whole, fate>>

(* Bytes go to buffer() + count, the rest of the memory stays. *)
Fill(n) == buffer' = SubSeq(buffer, 1, count) \o SubSeq(arrived, 1, n)

(* read takes what is there, up to the room that is left.                  *)
(* Mutants: the room is not reduced, the bytes are not added up.           *)
TakeAll == Len(arrived)
CountLast(n) == n

Take == IF Len(arrived) < BufferSize - count
        THEN Len(arrived) ELSE BufferSize - count
Counted(n) == count + n

(* select says there is something, and there is room for it. *)
Read ==
    /\ ioPc = "read"
    /\ arrived # <<>>
    /\ count < BufferSize
    /\ LET n == Take IN
          /\ Fill(n)
          /\ count' = Counted(n)
          /\ arrived' = SubSeq(arrived, n + 1, Len(arrived))
    /\ UNCHANGED <<connection, written, m_shutdown, ioPc, unpacker, historyVars>>

Consumed ==
    /\ unpacker' = unpacker \o SubSeq(buffer, 1, count)
    /\ ioPc' = IF count = 0 THEN "top" ELSE "drain"
    /\ UNCHANGED <<agentVars, m_shutdown, count, buffer, historyVars>>

(* Mutant: the thread asks a full buffer for more. *)
ConsumeUnlessFull ==
    /\ ioPc = "read"
    /\ arrived = <<>>
    /\ Consumed

(* The pass ends when select has nothing to report, when read returns 0    *)
(* because the agent closed the connection, and when read returns 0        *)
(* because it was asked for 0 bytes.                                       *)
BufferConsumed ==
    /\ ioPc = "read"
    /\ arrived = <<>> \/ count = BufferSize
    /\ Consumed

-----------------------------------------------------------------------------
(* m_unpacker.next.  Where it starts at the first byte of an object, it    *)
(* takes as many bytes as that object has, from wherever they came.        *)

AtObject == unpacker # <<>> /\ Head(unpacker).pos = 1
Complete == AtObject /\ Len(unpacker) >= Head(unpacker).size

Decode ==
    /\ ioPc = "drain"
    /\ Complete
    /\ LET n == Head(unpacker).size IN
          /\ whole' = (whole /\ \A i \in 1..n :
                                   /\ unpacker[i].object = Head(unpacker).object
                                   /\ unpacker[i].connection = connection)
          /\ unpacker' = SubSeq(unpacker, n + 1, Len(unpacker))
    /\ decoded' = decoded + 1
    /\ UNCHANGED <<agentVars, m_shutdown, ioPc, count, buffer, cut, fate>>

(* Anywhere else the bytes may be read as some object, or as none: the     *)
(* exception of next is raised outside the try block.                      *)
Misread ==
    /\ ioPc = "drain"
    /\ unpacker # <<>>
    /\ ~AtObject
    /\ \/ /\ \E n \in 1..Len(unpacker) :
                unpacker' = SubSeq(unpacker, n + 1, Len(unpacker))
          /\ whole' = FALSE
          /\ decoded' = decoded + 1
          /\ UNCHANGED fate
       \/ fate' = "terminated" /\ UNCHANGED <<unpacker, decoded, whole>>
    /\ UNCHANGED <<agentVars, m_shutdown, ioPc, count, buffer, cut>>

(* Nothing is left, or the beginning of an object, or of no object. *)
Drained ==
    /\ ioPc = "drain"
    /\ ~Complete
    /\ ioPc' = "top"
    /\ UNCHANGED <<agentVars, m_shutdown, count, buffer, unpacker, historyVars>>

-----------------------------------------------------------------------------
ProcessRpc == LoopTop \/ Exit \/ Read \/ BufferConsumed \/ Decode \/ Misread
              \/ Drained

Next == fate = "ok" /\ (Arrive \/ Connect \/ Close \/ ProcessRpc)

Spec == Init /\ [][Next]_vars

(* The I/O thread runs; the agent and the application need not. *)
FairSpec == Spec /\ WF_vars(fate = "ok" /\ ProcessRpc)

-----------------------------------------------------------------------------
(* Properties. *)

(* What was read and not handed out yet, or will be. *)
InBuffer == IF ioPc = "read" THEN SubSeq(buffer, 1, count) ELSE <<>>
Pending == unpacker \o InBuffer \o arrived

(* Objects are handed out whole, in order, none twice and none left out,   *)
(* in whatever pieces they arrive and even if they are larger than the     *)
(* buffer, as long as no connection has ended inside an object.            *)
InStep ==
    ~cut =>
       /\ fate = "ok" /\ whole
       /\ ioPc # "none" =>
             IF Pending = <<>>
             THEN decoded = written.object /\ written.pos = written.size
             ELSE /\ Pending[1].object = decoded + 1 /\ Pending[1].pos = 1
                  /\ Pending[Len(Pending)] = written
                  /\ \A i \in 1..Len(Pending) - 1 :
                        Follows(Pending[i + 1], Pending[i])

(* An object that has arrived is handed out, however large it is, unless   *)
(* the connection is closed: a full buffer ends a pass and not the stream. *)
Arrived(o) == \/ written.object > o
              \/ written.object = o /\ written.pos = written.size
AllDecoded ==
    \A o \in 1..MaxObjects :
       ~cut /\ Arrived(o) ~> decoded >= o \/ m_shutdown

(* "so client can reconnect": on every connection the client reads what    *)
(* the agent wrote on it.                                                  *)
ReadsOwnConnection == whole /\ fate = "ok"
=============================================================================
