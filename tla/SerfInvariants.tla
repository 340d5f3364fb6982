--------------------------- MODULE SerfInvariants ---------------------------
(***************************************************************************)
(* The invariants that carry the safety properties of SerfClient: what is  *)
(* in transit between client and agent, in which order, under which        *)
(* numbers, and what m_channels says about it.  Each layer rests on the    *)
(* ones before it.  The first three hold in every environment; the others  *)
(* name the behaviours (Faults) that must be absent.                       *)
(***************************************************************************)
EXTENDS SerfClient

Without(F) == F \cap Faults = {}

-----------------------------------------------------------------------------
(* What is in transit. *)

(* What the agent has written and the I/O thread has not decoded.          *)
Objects == Range(wire) \cup Range(unpacker)

(* The same, in the order it will be decoded. *)
Incoming == unpacker \o wire

(* The header the I/O thread has decoded and not finished with.            *)
InHand == {h \in {hdr} : h.kind = "header"}

InTransit == requests \cup subs \cup UnreadHeaders \cup InHand

(* Calls that have something in transit under their number.                *)
Talking == {x.call : x \in InTransit}

(* Calls whose answer has not been decoded yet.                            *)
Due == {r.call : r \in requests} \cup
       {o.call : o \in {h \in UnreadHeaders : h.what = "reply"}}

Live == m_socket \in {"open", "shut", "reset"}

-----------------------------------------------------------------------------
(* Layer 1: the thread, the socket and the owners of calls. *)

(* Nothing is in transit without a thread to read it, or left undecoded    *)
(* when the thread reads again.                                            *)
ThreadInv ==
    /\ ioPc \in {"top", "read"} => unpacker = <<>>
    /\ Live => m_thread = "running"
    /\ m_socket = "stale" => m_thread # "running"
    /\ m_thread # "running" => wire = <<>>
    /\ m_socket # "open" => requests = {} /\ subs = {}

OwnerInv ==
    \A c \in Calls :
       /\ owner[c] = NoThread <=> pc[c] \in {"idle", "done"}
       /\ pc[c] = "handshake" => cmd[c] = "handshake"
       /\ cmd[c] = "handshake" /\ owner[c] # NoThread => owner[c] = Main
       /\ result[c] = "SUCCESS" => reply[c].pending /\ ~reply[c].err
       /\ pc[c] = "register" => cmd[c] \in ListenerCommands
       /\ pc[c] = "unlisten" => cmd[c] = "stop"
       /\ owner[c] = IoThread => ioPc = "callback"

(* What is in transit carries the number, command and argument of a call   *)
(* that was sent, and the number was handed out on this connection.        *)
TransitInv ==
    /\ \A x \in InTransit : /\ x.seq = seq[x.call]
                            /\ pc[x.call] \notin {"idle", "handshake"}
                            /\ Live => x.seq < m_seq
    /\ \A o \in Objects \cup {hdr} : o # NoObject =>
          pc[o.call] \notin {"idle", "handshake"}
    /\ \A r \in requests \cup subs : r.cmd = cmd[r.call]
    /\ \A r \in requests : r.cmd = "stop" => r.arg = arg[r.call]
    /\ \A q \in subs : q.cmd \in ListenerCommands
    /\ \A h \in UnreadHeaders \cup InHand :
          h.what # "reply" => cmd[h.call] \in ListenerCommands

-----------------------------------------------------------------------------
(* Layer 2: order. *)

IsReply(o) == o.kind = "header" /\ o.what = "reply"

(* The answer is the first object of its call.                             *)
AnswerFirst(s) ==
    \A i \in 1..Len(s) :
       IsReply(s[i]) => \A j \in 1..(i - 1) : s[j].call # s[i].call

(* Until the answer to a call is decoded nothing else of that call is in   *)
(* hand, and as long as its request is not handled nothing is underway.    *)
OrderInv ==
    /\ AnswerFirst(Incoming)
    /\ hdr.call \notin Due
    /\ \A r \in requests :
          /\ \A i \in 1..Len(Incoming) : Incoming[i].call # r.call
          /\ \A p \in requests : p.call = r.call => p = r
          /\ \A q \in subs : q.call # r.call

-----------------------------------------------------------------------------
(* Layer 3: headers and their bodies. *)

(* k maps calls to their commands. *)
Expects(h, k) == /\ h.kind = "header"
                 /\ \/ h.what # "reply"
                    \/ /\ HasBody(k[h.call])
                       /\ ~h.err \/ "bareError" \notin Faults

BodyOf(b, h) == b.kind = "body" /\ b.call = h.call /\ b.what = h.what

Followed(s, k) ==
    \A i \in 1..Len(s) :
       Expects(s[i], k) => i = Len(s) \/ BodyOf(s[i + 1], s[i])

Paired(s, k) == Followed(s, k) /\ (s # <<>> => ~Expects(s[Len(s)], k))

(* The agent writes a header and its body together; a read may part them.  *)
PairInv ==
    /\ Paired(wire, cmd)
    /\ Followed(unpacker, cmd)
    /\ "splitRead" \notin Faults => Paired(unpacker, cmd)
    /\ ioPc \in {"found", "produce"} /\ Expects(hdr, cmd) =>
          /\ unpacker # <<>> => BodyOf(Head(unpacker), hdr)
          /\ "splitRead" \notin Faults => unpacker # <<>>

-----------------------------------------------------------------------------
(* Layer 4, if Close waits for the calls of other threads (busyClose) as   *)
(* it does, by joining the I/O thread, for those of a listener: the        *)
(* calls in progress have numbers of their own.                            *)

(* A failed Connect took the socket from under the I/O thread: no call can *)
(* be sent and no connection opened any more.                              *)
Stranded == ~IsConnected /\ Joinable

NumberInv ==
    /\ closing => ~InCall
    /\ \A c \in Calls : OnStack(c) =>
          /\ seq[c] < m_seq \/ Stranded
          /\ m_channels[seq[c]] \in {Null, Request(c)}
          /\ \A d \in Calls : OnStack(d) /\ seq[d] = seq[c] => d = c
          /\ c # channel.call /\ channel.type = "REQUEST" => seq[c] # hdr.seq
    /\ Live /\ channel.type = "REQUEST" => hdr.seq < m_seq
    /\ ioPc = "found" /\ channel.type = "REQUEST" =>
          m_channels[hdr.seq].type \notin ListenerTypes

-----------------------------------------------------------------------------
(* Layer 5, if nobody calls while Connect is in progress (earlyCall) or    *)
(* sends on a closed socket (fdReuse): number 0 belongs to the handshake.  *)

ZeroInv ==
    /\ Live /\ m_seq = 0 => \E c \in Calls : pc[c] = "handshake"
    /\ \A c \in Calls : OnStack(c) /\ seq[c] = 0 => cmd[c] = "handshake"
    /\ m_channels[0].type \notin ListenerTypes

(* While Connect is in progress only its handshake is in transit.          *)
ConnectInv ==
    Connecting =>
       /\ subs = {}
       /\ \A r \in requests : r.cmd = "handshake"
       /\ \A o \in Objects : o.kind = "header"

(* What a request's entry or channel is used for is that request.          *)
MatchInv ==
    /\ \A c \in Talking : m_channels[seq[c]].type = "REQUEST" =>
                             m_channels[seq[c]].call = c
    /\ channel.type = "REQUEST" => /\ hdr.kind = "header"
                                   /\ hdr.call = channel.call
    /\ \A c \in Calls : /\ reply[c].pending => reply[c].of = c
                        /\ c \in Due => ~reply[c].pending

(* An answer without error to a data command is stored with its body.      *)
StoredInv ==
    \A c \in Calls :
       reply[c].pending /\ ~reply[c].err /\ HasBody(cmd[c]) =>
          reply[c].data = "own"

-----------------------------------------------------------------------------
(* Layer 6, of 4 and 5: listeners.                                         *)

ListenerInv ==
    /\ \A c \in Talking :
          /\ \A d \in Calls : OnStack(d) /\ seq[d] = seq[c] => d = c
          /\ m_channels[seq[c]].type \in ListenerTypes =>
                m_channels[seq[c]].call = c /\ c \notin Due
    /\ channel.type \in ListenerTypes =>
          /\ hdr.kind = "header" /\ hdr.what # "reply"
          /\ hdr.call = channel.call
          /\ pc[channel.call] = "done"
    /\ ioPc = "callback" =>
          IF obj = NoObject THEN channel.type = "LOG" ELSE BodyOf(obj, hdr)

(* Layer 7, if Stop is given numbers of this connection only: they are not *)
(* numbers of calls in progress.                                           *)
ActiveInv ==
    /\ \A s \in active : Live => s < m_seq
    /\ \A c \in Calls : OnStack(c) =>
          /\ seq[c] \notin active
          /\ cmd[c] = "stop" => arg[c] \in active
          /\ Joinable
    /\ \A c \in Talking : seq[c] \in active =>
          cmd[c] \in {"monitor", "stream"} /\ c \notin Due

(* As long as a call waits, what it waits for finds it.                    *)
WaitInv ==
    \A c \in Due : Waiting(c) => m_channels[seq[c]] = Request(c)

-----------------------------------------------------------------------------
(* Layer 8, if the agent sends no records of a stream it has stopped       *)
(* (lateRecord): nothing under the number a Stop names follows its answer. *)
Stopping(c) == cmd[c] = "stop" /\ OnStack(c)

Confirms(o, c) == IsReply(o) /\ o.call = c /\ ~o.err

Quiet(s) == /\ \A q \in subs : q.seq # s
            /\ \A h \in UnreadHeaders \cup InHand : h.seq # s

QuietFrom(i, s) ==
    /\ \A q \in subs : q.seq # s
    /\ \A j \in i..Len(Incoming) : Incoming[j].kind = "header" =>
                                      Incoming[j].seq # s

StopInv ==
    \A c \in Calls : Stopping(c) =>
       /\ reply[c].pending /\ ~reply[c].err => Quiet(arg[c])
       /\ Confirms(hdr, c) => Quiet(arg[c])
       /\ \A i \in 1..Len(Incoming) :
             Confirms(Incoming[i], c) => QuietFrom(i, arg[c])

(* Layer 9, if waits outlast the answers (lateAnswer, reentrant) and       *)
(* records wait for the call to return (earlyRecord).                      *)
PatienceInv ==
    /\ ~Busy(IoThread)
    /\ \A c \in Calls : pc[c] \in {"check", "remove"} /\ ~reply[c].pending =>
          ~AnswerDue(c)
    /\ \A h \in UnreadHeaders \cup InHand :
          h.what # "reply" => pc[h.call] = "done"
    /\ channel.type = "REQUEST" => pc[channel.call] = "wait"
    /\ channel.type \in ListenerTypes => channel.call \in heap

-----------------------------------------------------------------------------
(* Layer 10, if besides an error answer keeps its body (bareError):        *)
(* records find their listeners.                                           *)

(* Nothing of call c is decoded after the first i - 1 objects. *)
Silent(i, c) ==
    /\ \A q \in subs : q.call # c
    /\ \A j \in i..Len(Incoming) : Incoming[j].kind = "header" =>
                                      Incoming[j].call # c

Last(o) == o.kind = "header" /\ o.what = "done"

(* The end of a query is the last that comes of it.  (In every             *)
(* environment.)                                                           *)
LastInv ==
    /\ \A p, q \in subs : p.call = q.call => p = q
    /\ \A i \in 1..Len(Incoming) :
          Last(Incoming[i]) => Silent(i + 1, Incoming[i].call)
    /\ Last(hdr) => Silent(1, hdr.call)

(* Calls of which records may come. *)
Subscribed == {q.call : q \in subs} \cup
              {o.call : o \in {h \in UnreadHeaders : h.what # "reply"}}

(* The answer that opened the subscription of c is on its way or stored.   *)
Granted(c) == \/ reply[c].pending /\ ~reply[c].err
              \/ ioPc \in {"found", "produce"} /\ Confirms(hdr, c)
              \/ \E o \in Objects : Confirms(o, c)

RecordInv ==
    /\ \A c \in Due : pc[c] = "wait"
    /\ \A c \in Calls : pc[c] = "remove" => ~reply[c].pending
    /\ \A c, d \in Talking : seq[c] = seq[d] => c = d
    /\ ioPc = "deregister" => Last(hdr)
    /\ \A q \in subs : pc[q.call] = "done" \/ Granted(q.call)
    /\ \A c \in Subscribed : pc[c] = "done" =>
                                m_channels[seq[c]] = Listener(c, cmd[c])

=============================================================================
