---------------------------- MODULE SerfChannel ----------------------------
(***************************************************************************)
(* Channels: where the I/O thread leaves an answer or a record.  A result  *)
(* channel lives in the stack frame of its call and is a one-shot mailbox  *)
(* (m_hdr, m_data, m_dataPending) with a mutex and a condition variable;   *)
(* log, event and query channels live on the heap and call a listener.     *)
(*                                                                         *)
(* The I/O thread is inside produce while ioPc is "produce", "notify",     *)
(* "callback" or "deregister".  It holds the mutex of a result channel     *)
(* from the step that stores the answer to the step that signals it.       *)
(***************************************************************************)
EXTENDS SerfAgent

VARIABLES
    pc,        \* where each call is in its SerfClient method
    cmd,       \* the command each call issues
    seq,       \* the local variable seq of each call
    reply,     \* m_dataPending, m_hdr and m_data of each result channel
    heap,      \* calls whose listener channel is allocated
    unpacker,  \* m_unpacker: objects read and not yet decoded
    ioPc,      \* where the I/O thread is in processRpc
    hdr,       \* processRpc's local variable hdr
    channel,   \* processRpc's local variable channel
    obj,       \* the body handed to a listener
    fate       \* "ok" until the program was killed or is undefined

frameVars == <<pc, cmd, seq>>
channelVars == <<reply, heap, unpacker, ioPc, hdr, channel, obj, fate>>

CallPcs == {"idle", "handshake", "wait", "check", "remove", "register",
            "unlisten", "done"}
IoPcs == {"top", "read", "drain", "found", "produce", "notify", "callback",
          "deregister"}

NoReply == [pending |-> FALSE, err |-> FALSE, of |-> NoCall, seq |-> 0,
            data |-> "none"]
Reply == [pending : BOOLEAN, err : BOOLEAN, of : Calls \cup {NoCall},
          seq : Seqs, data : {"none", "own", "foreign"}]

ChannelTypeOK ==
    /\ pc \in [Calls -> CallPcs]
    /\ cmd \in [Calls -> AllCommands]
    /\ seq \in [Calls -> Seqs]
    /\ reply \in [Calls -> Reply]
    /\ heap \subseteq Calls
    /\ unpacker \in Seq(Object)
    /\ ioPc \in IoPcs
    /\ hdr \in Object \cup {NoObject}
    /\ channel \in Pointer
    /\ obj \in Object \cup {NoObject}
    /\ fate \in {"ok", "dangling", "badSocket", "terminated", "killed"}
    /\ ioPc \in {"top", "read", "drain"} <=> channel = Null
    /\ channel = Null <=> hdr = NoObject
    /\ ioPc = "notify" => channel.type = "REQUEST"
    /\ ioPc \in {"callback", "deregister"} => channel.type \in ListenerTypes

ChannelInit ==
    /\ pc = [c \in Calls |-> "idle"]
    /\ cmd = [c \in Calls |-> "handshake"]
    /\ seq = [c \in Calls |-> 0]
    /\ reply = [c \in Calls |-> NoReply]
    /\ heap = {}
    /\ unpacker = <<>>
    /\ ioPc = "top"
    /\ hdr = NoObject
    /\ channel = Null
    /\ obj = NoObject
    /\ fate = "ok"

-----------------------------------------------------------------------------
(* The frame of a call holds its result channel until the method returns.  *)
OnStack(c) == pc[c] \in {"wait", "check", "remove", "register", "unlisten"}

Alive(p) == \/ p.type = "REQUEST" /\ OnStack(p.call)
            \/ p.type \in ListenerTypes /\ p.call \in heap

(* Using a channel that was destroyed is undefined: nothing can be said of *)
(* the program from there on, so the behaviour ends.                       *)
Dangle == /\ fate' = "dangling"
          /\ UNCHANGED <<reply, heap, unpacker, ioPc, hdr, channel, obj>>

(* produce returned or threw: back to the loop over the unpacker. *)
BackToDrain == /\ ioPc' = "drain"
               /\ hdr' = NoObject
               /\ channel' = Null
               /\ obj' = NoObject

(* Mutant: m_dataPending is not set. *)
StoreSilently(c, data) ==
    /\ reply' = [reply EXCEPT ![c] = [pending |-> FALSE, err |-> hdr.err,
                                      of |-> hdr.call, seq |-> hdr.seq,
                                      data |-> data]]
    /\ ioPc' = "notify"
    /\ UNCHANGED <<heap, hdr, channel, obj, fate>>

(* ResultChannel::produce up to m_dataPending = true.  The body of a data  *)
(* answer is whatever object comes next, if one was read already.          *)
Store(c, data) ==
    /\ reply' = [reply EXCEPT ![c] = [pending |-> TRUE, err |-> hdr.err,
                                      of |-> hdr.call, seq |-> hdr.seq,
                                      data |-> data]]
    /\ ioPc' = "notify"
    /\ UNCHANGED <<heap, hdr, channel, obj, fate>>

TakesBody(c) == HasBody(cmd[c]) /\ unpacker # <<>>

DataFrom(c, o) == IF o.kind = "body" /\ o.call = c THEN "own" ELSE "foreign"

ProduceHeader(c) ==
    /\ ~TakesBody(c)
    /\ Store(c, "none")
    /\ UNCHANGED unpacker

ProduceData(c) ==
    /\ TakesBody(c)
    /\ Head(unpacker).ok
    /\ Store(c, DataFrom(c, Head(unpacker)))
    /\ unpacker' = Tail(unpacker)

(* as<T>() throws: m_hdr is set, m_dataPending is not. *)
ProduceThrows(c) ==
    /\ TakesBody(c)
    /\ ~Head(unpacker).ok
    /\ reply' = [reply EXCEPT ![c] = [pending |-> reply[c].pending,
                                      err |-> hdr.err, of |-> hdr.call,
                                      seq |-> hdr.seq,
                                      data |-> reply[c].data]]
    /\ unpacker' = Tail(unpacker)
    /\ BackToDrain
    /\ UNCHANGED <<heap, fate>>

-----------------------------------------------------------------------------
(* Listener channels.  Structs are read from msgpack maps by key, so any   *)
(* object converts: to an empty log record, which is passed on as is the   *)
(* absence of an object, and to an event or a query response of no known   *)
(* type, which is not.                                                     *)

Understands(p, o) == /\ o.kind = "body" /\ o.what # "reply"
                     /\ ListenerType(cmd[o.call]) = p.type

Deliver(o) ==
    /\ ioPc' = "callback"
    /\ obj' = o
    /\ UNCHANGED <<reply, heap, hdr, channel, fate>>

Discard == BackToDrain /\ UNCHANGED <<reply, heap, fate>>

LogProduce ==
    IF unpacker = <<>>
    THEN Deliver(NoObject) /\ UNCHANGED unpacker
    ELSE /\ unpacker' = Tail(unpacker)
         /\ IF Head(unpacker).ok
            THEN Deliver(IF Understands(channel, Head(unpacker))
                         THEN Head(unpacker) ELSE NoObject)
            ELSE Discard

(* Mutant: an event is passed on without a body, as a log record is. *)
EventProduceAnyway == LogProduce

EventProduce ==
    IF unpacker = <<>>
    THEN Discard /\ UNCHANGED unpacker
    ELSE /\ unpacker' = Tail(unpacker)
         /\ IF Head(unpacker).ok /\ Understands(channel, Head(unpacker))
            THEN Deliver(Head(unpacker))
            ELSE Discard

QueryProduce == EventProduce

Produce(p) ==
    \/ /\ p.type = "REQUEST"
       /\ ProduceHeader(p.call) \/ ProduceData(p.call) \/ ProduceThrows(p.call)
    \/ p.type = "LOG" /\ LogProduce
    \/ p.type = "EVENT" /\ EventProduce
    \/ p.type = "QUERY" /\ QueryProduce

(* Mutants: notify_one after the mutex is released; wait in place of      *)
(* wait_for.                                                               *)
MutexFreeAtOnce(c) == c \in Calls
ConsumeWaits(c, timedOut) == ~timedOut /\ reply[c].pending

(* ResultChannel::consume: it returns once the answer is there or the wait *)
(* timed out, and in both cases only with the channel's mutex in hand.     *)
MutexFree(c) == ~(ioPc = "notify" /\ channel = Request(c))

ConsumeReturns(c, timedOut) == MutexFree(c) /\ (reply[c].pending \/ timedOut)
=============================================================================
