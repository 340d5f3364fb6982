---------------------------- MODULE SerfIoThread ----------------------------
(***************************************************************************)
(* SerfIoThread: the socket, the thread that reads it, the next sequence   *)
(* number and the map from sequence numbers to the channels that wait for  *)
(* an answer.  Each critical section under m_mutex is one step.            *)
(***************************************************************************)
EXTENDS SerfChannel

VARIABLES
    m_socket,    \* "none" is -1; "stale" is the number of a closed socket;
                 \* "shut" the agent closed its end; "reset" we wrote since
    m_thread,    \* "none" is not joinable; "exited" has returned, not joined
    m_shutdown,
    m_seq,
    m_channels   \* Null stands for an absent key and for a null entry alike

ioVars == <<m_socket, m_thread, m_shutdown, m_seq, m_channels>>

IoTypeOK ==
    /\ m_socket \in {"none", "open", "shut", "reset", "stale"}
    /\ m_thread \in {"none", "running", "exited"}
    /\ m_shutdown \in BOOLEAN
    /\ m_seq \in 0..(MaxSeq + 1)
    /\ m_channels \in [Seqs -> Pointer]
    /\ m_thread # "running" => ioPc = "top"

IoInit ==
    /\ m_socket = "none"
    /\ m_thread = "none"
    /\ m_shutdown = FALSE
    /\ m_seq = 0
    /\ m_channels = [s \in Seqs |-> Null]

IsConnected == m_socket # "none"
Joinable == m_thread # "none"

-----------------------------------------------------------------------------
(* Operations the client methods call. *)

(* Mutants: the number is not advanced; insert in place of operator[].     *)
SameSeq == m_seq
Inserted(c) == [m_channels EXCEPT ![m_seq] = IF @ = Null THEN Request(c) ELSE @]

NextSeq == m_seq + 1
Entered(c) == [m_channels EXCEPT ![m_seq] = Request(c)]

(* sendData of call c: the number is taken whether or not send succeeds,   *)
(* the channel is registered only if it does.  The first send after the    *)
(* agent closed its end still succeeds.                                    *)
SendDataOk(c, k, a) ==
    /\ m_seq <= MaxSeq
    /\ \/ m_socket \in {"open", "shut"}
       \/ m_socket = "stale" /\ "fdReuse" \in Faults
    /\ m_socket' = IF m_socket = "shut" THEN "reset" ELSE m_socket
    /\ m_seq' = NextSeq
    /\ seq' = [seq EXCEPT ![c] = m_seq]
    /\ m_channels' = Entered(c)
    /\ requests' = IF m_socket = "open"
                   THEN requests \cup
                        {[call |-> c, seq |-> m_seq, cmd |-> k, arg |-> a]}
                   ELSE requests
    /\ UNCHANGED <<wire, subs, sent, m_thread, m_shutdown>>

SendDataFails ==
    /\ m_seq <= MaxSeq
    /\ m_socket \in {"open", "shut"} => "sendFail" \in Faults
    /\ m_seq' = NextSeq
    /\ UNCHANGED <<agentVars, seq, m_socket, m_thread, m_shutdown, m_channels>>

(* addLogChannel, addEventChannel and addQueryChannel. *)
AddChannel(s, p) ==
    /\ m_channels' = [m_channels EXCEPT ![s] = p]
    /\ heap' = heap \cup {p.call}

(* removeChannel: deletes the channel unless it is on somebody's stack. *)
RemoveChannel(s) ==
    /\ m_channels' = [m_channels EXCEPT ![s] = Null]
    /\ heap' = IF m_channels[s].type \in ListenerTypes
               THEN heap \ {m_channels[s].call}
               ELSE heap

-----------------------------------------------------------------------------
(* processRpc. *)

IoUnchanged == UNCHANGED <<m_socket, m_thread, m_shutdown, m_seq, m_channels>>
NotProducing == UNCHANGED <<reply, heap, hdr, channel, obj, fate>>

(* The loop condition.  On the way out the socket is closed, but m_socket  *)
(* keeps its number.                                                       *)
IoTop ==
    /\ ioPc = "top"
    /\ ~m_shutdown
    /\ ioPc' = "read"
    /\ UNCHANGED <<agentVars, frameVars, unpacker>>
    /\ NotProducing /\ IoUnchanged

IoExit ==
    /\ ioPc = "top"
    /\ m_shutdown
    /\ m_thread' = "exited"
    /\ m_socket' = IF IsConnected THEN "stale" ELSE m_socket
    /\ AgentForget
    /\ UNCHANGED <<frameVars, unpacker, ioPc, m_shutdown, m_seq, m_channels>>
    /\ NotProducing

(* select and read until nothing more is there: the objects taken are a    *)
(* prefix of what the agent wrote, all of it unless reads may be split.    *)
(* Mutant: one object per read.                                            *)
OneObject(n) == n = 1
ReadsUpTo(n) == n = Len(wire) \/ "splitRead" \in Faults

IoReceive ==
    /\ ioPc = "read"
    /\ m_socket # "none"
    /\ \E n \in 1..Len(wire) :
          /\ ReadsUpTo(n)
          /\ unpacker' = unpacker \o SubSeq(wire, 1, n)
          /\ wire' = SubSeq(wire, n + 1, Len(wire))
    /\ ioPc' = "drain"
    /\ UNCHANGED <<requests, subs, sent, frameVars>>
    /\ NotProducing /\ IoUnchanged

(* Nothing arrived for 50 ms, or the agent closed and read returns 0. *)
IoIdle ==
    /\ ioPc = "read"
    /\ m_socket # "none"
    /\ wire = <<>>
    /\ ioPc' = "top"
    /\ UNCHANGED <<agentVars, frameVars, unpacker>>
    /\ NotProducing /\ IoUnchanged

IoDrained ==
    /\ ioPc = "drain"
    /\ unpacker = <<>>
    /\ ioPc' = "top"
    /\ UNCHANGED <<agentVars, frameVars, unpacker>>
    /\ NotProducing /\ IoUnchanged

(* Decode a header and look its number up under m_mutex.  The pointer      *)
(* outlives the critical section.  Mutant: no test for a null channel.     *)
KnownOrNot(p) == p \in Pointer
Known(p) == p # Null

IoLookup ==
    /\ ioPc = "drain"
    /\ unpacker # <<>>
    /\ LET h == AsResponseHeader(Head(unpacker))
           p == m_channels[h.seq] IN
          IF Known(p)
          THEN ioPc' = "found" /\ hdr' = h /\ channel' = p
          ELSE ioPc' = "drain" /\ UNCHANGED <<hdr, channel>>
    /\ unpacker' = Tail(unpacker)
    /\ UNCHANGED <<agentVars, frameVars, reply, heap, obj, fate>>
    /\ IoUnchanged

(* Mutants: the entry of a request stays; every entry is erased. *)
EraseNothing == m_channels
EraseAny == [m_channels EXCEPT ![hdr.seq] = Null]

Erased == IF channel.type = "REQUEST"
          THEN [m_channels EXCEPT ![hdr.seq] = Null]
          ELSE m_channels

(* Read channel->m_type; erase the entry of a request under m_mutex. *)
IoErase ==
    /\ ioPc = "found"
    /\ Alive(channel)
    /\ ioPc' = "produce"
    /\ m_channels' = Erased
    /\ UNCHANGED <<agentVars, frameVars, unpacker,
                   m_socket, m_thread, m_shutdown, m_seq>>
    /\ NotProducing

IoProduce ==
    /\ ioPc = "produce"
    /\ Alive(channel)
    /\ Produce(channel)
    /\ UNCHANGED <<agentVars, frameVars>>
    /\ IoUnchanged

(* notify_one and the release of the channel's mutex. *)
IoNotify ==
    /\ ioPc = "notify"
    /\ Alive(channel)
    /\ BackToDrain
    /\ UNCHANGED <<agentVars, frameVars, reply, heap, unpacker, fate>>
    /\ IoUnchanged

(* The listener returns.  onQueryComplete is followed by removeChannel. *)
IoCallbackReturn ==
    /\ ioPc = "callback"
    /\ IF channel.type = "QUERY" /\ obj.what = "done"
       THEN ioPc' = "deregister" /\ UNCHANGED <<hdr, channel, obj>>
       ELSE BackToDrain
    /\ UNCHANGED <<agentVars, frameVars, reply, heap, unpacker, fate>>
    /\ IoUnchanged

IoDeregister ==
    /\ ioPc = "deregister"
    /\ Alive(channel)
    /\ RemoveChannel(hdr.seq)
    /\ BackToDrain
    /\ UNCHANGED <<agentVars, frameVars, reply, unpacker, fate,
                   m_socket, m_thread, m_shutdown, m_seq>>

(* The channel the I/O thread is about to use is gone. *)
IoDangle ==
    /\ ioPc \in {"found", "produce", "notify", "deregister"}
    /\ ~Alive(channel)
    /\ Dangle
    /\ UNCHANGED <<agentVars, frameVars>>
    /\ IoUnchanged

(* FD_SET of descriptor -1: a failed Connect took the socket of an I/O     *)
(* thread that still runs.                                                 *)
IoBadSocket ==
    /\ ioPc = "read"
    /\ m_socket = "none"
    /\ fate' = "badSocket"
    /\ UNCHANGED <<agentVars, frameVars, reply, heap, unpacker, ioPc, hdr,
                   channel, obj>>
    /\ IoUnchanged

IoLoop == \/ IoTop \/ IoExit \/ IoReceive \/ IoIdle \/ IoDrained \/ IoLookup
          \/ IoErase \/ IoProduce \/ IoNotify \/ IoDeregister \/ IoDangle
          \/ IoBadSocket

=============================================================================
