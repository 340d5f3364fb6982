---------------------------- MODULE SerfClient ----------------------------
(***************************************************************************)
(* SerfClient: the methods an application calls, composed with the I/O     *)
(* thread and the agent.  Every RPC method has the same shape: send the    *)
(* request, wait on a result channel in its own frame, then return what    *)
(* the answer says or take the channel back after a timeout.               *)
(***************************************************************************)
EXTENDS SerfIoThread, Functions

VARIABLES
    owner,    \* the thread inside each call
    arg,      \* the argument stopSeq of a Stop
    result,   \* what each call returned
    active,   \* numbers Monitor and Stream returned on this connection
    closing   \* Main is inside Close

clientVars == <<owner, arg, result, active, closing>>
vars == <<agentVars, frameVars, channelVars, ioVars, clientVars>>

Results == {"none", "SUCCESS", "FAILURE", "TIMEOUT"}

TypeOK ==
    /\ AgentTypeOK
    /\ ChannelTypeOK
    /\ IoTypeOK
    /\ owner \in [Calls -> Threads \cup {IoThread, NoThread}]
    /\ arg \in [Calls -> Seqs]
    /\ result \in [Calls -> Results]
    /\ active \subseteq Seqs
    /\ closing \in BOOLEAN

Init ==
    /\ AgentInit
    /\ ChannelInit
    /\ IoInit
    /\ owner = [c \in Calls |-> NoThread]
    /\ arg = [c \in Calls |-> 0]
    /\ result = [c \in Calls |-> "none"]
    /\ active = {}
    /\ closing = FALSE

Busy(t) == \E c \in Calls : owner[c] = t
Connecting == \E c \in Calls : owner[c] = Main /\ cmd[c] = "handshake"
InCall == \E c \in Calls : owner[c] \in Threads

(* Unused calls are interchangeable: the next one is a fixed choice.       *)
Fresh(c) == pc[c] = "idle" /\ c = CHOOSE d \in Calls : pc[d] = "idle"

(* An application thread is free outside its calls.  The I/O thread runs   *)
(* application code only inside a listener, which Close does not stop.     *)
MayCall(t) ==
    /\ ~Busy(t)
    /\ closing => t = IoThread \/ (t # Main /\ "busyClose" \in Faults)
    /\ Connecting => "earlyCall" \in Faults
    /\ t = IoThread => ("reentrant" \in Faults /\ ioPc = "callback")

Return(c, r) ==
    /\ pc' = [pc EXCEPT ![c] = "done"]
    /\ owner' = [owner EXCEPT ![c] = NoThread]
    /\ result' = [result EXCEPT ![c] = r]

-----------------------------------------------------------------------------
(* The RPC methods, up to the wait. *)

Call(t, c, k, a) ==
    /\ k \in Commands
    /\ Fresh(c)
    /\ MayCall(t)
    /\ cmd' = [cmd EXCEPT ![c] = k]
    /\ arg' = [arg EXCEPT ![c] = a]
    /\ \/ /\ SendDataOk(c, k, a)
          /\ pc' = [pc EXCEPT ![c] = "wait"]
          /\ owner' = [owner EXCEPT ![c] = t]
          /\ UNCHANGED result
       \/ /\ SendDataFails
          /\ Return(c, "FAILURE")
    /\ UNCHANGED <<channelVars, active, closing>>

Join(t, c) == Call(t, c, "join", 0)
Auth(t, c) == Call(t, c, "auth", 0)
InstallKey(t, c) == Call(t, c, "install-key", 0)
ListKeys(t, c) == Call(t, c, "list-keys", 0)
UseKey(t, c) == Call(t, c, "use-key", 0)
RemoveKey(t, c) == Call(t, c, "remove-key", 0)
Members(t, c) == Call(t, c, "members", 0)
MembersFiltered(t, c) == Call(t, c, "members-filtered", 0)
Event(t, c) == Call(t, c, "event", 0)
Respond(t, c) == Call(t, c, "respond", 0)
ForceLeave(t, c) == Call(t, c, "force-leave", 0)
Tags(t, c) == Call(t, c, "tags", 0)
Leave(t, c) == Call(t, c, "leave", 0)
Monitor(t, c) == Call(t, c, "monitor", 0)
Query(t, c) == Call(t, c, "query", 0)
Stream(t, c) == Call(t, c, "stream", 0)
Stats(t, c) == Call(t, c, "stats", 0)
GetCoordinate(t, c) == Call(t, c, "get-coordinate", 0)

(* Stop takes a number that a Monitor or Stream returned on this           *)
(* connection, or any other, one of an earlier connection among them.      *)
StopNumbers == active \cup (IF "anyStop" \in Faults THEN Seqs ELSE {})

Stop(t, c) == \E s \in StopNumbers : Call(t, c, "stop", s)

(* A send on a connection the agent has reset, the handshake's too, raises *)
(* SIGPIPE, which ends the process unless the application ignores it       *)
(* (SendDataFails).                                                        *)
SendKills(t, c) ==
    /\ \/ Fresh(c) /\ MayCall(t)
       \/ pc[c] = "handshake" /\ owner[c] = t
    /\ m_socket = "reset"
    /\ fate' = "killed"
    /\ UNCHANGED <<agentVars, frameVars, reply, heap, unpacker, ioPc, hdr,
                   channel, obj, ioVars, clientVars>>

-----------------------------------------------------------------------------
(* The RPC methods, from the wait on. *)

(* Objects that are going to become the answer of call c. *)
AnswerDue(c) ==
    \/ \E r \in requests : r.call = c
    \/ \E i \in 1..Len(wire) :
          wire[i].kind = "header" /\ wire[i].call = c /\ wire[i].what = "reply"
    \/ \E i \in 1..Len(unpacker) :
          /\ unpacker[i].kind = "header"
          /\ unpacker[i].call = c
          /\ unpacker[i].what = "reply"
    \/ ioPc \in {"found", "produce"} /\ hdr.call = c /\ hdr.what = "reply"

(* wait_for gives up after TIMEOUT_SECONDS.  In an instance without late   *)
(* answers that much time passes only when no answer is on its way, or     *)
(* when the I/O thread spends as long waiting inside a listener.           *)
TimesOut(c) == \/ "lateAnswer" \in Faults
               \/ ~AnswerDue(c)
               \/ Busy(IoThread)

Consume(c) ==
    /\ pc[c] = "wait"
    /\ ConsumeReturns(c, TimesOut(c))
    /\ pc' = [pc EXCEPT ![c] = "check"]
    /\ UNCHANGED <<agentVars, cmd, seq, channelVars, ioVars, clientVars>>

(* Mutant: a method gives up without a look at m_dataPending. *)
GiveUpUnseen(c) ==
    /\ pc' = [pc EXCEPT ![c] = "remove"]
    /\ UNCHANGED <<owner, result>>

(* m_dataPending and the header's Error are read without the mutex. *)
AfterReply(c) ==
    /\ reply[c].pending
    /\ IF reply[c].err
       THEN Return(c, "FAILURE")
       ELSE IF cmd[c] \in ListenerCommands \cup {"stop"}
            THEN /\ pc' = [pc EXCEPT ![c] =
                             IF cmd[c] = "stop" THEN "unlisten" ELSE "register"]
                 /\ UNCHANGED <<owner, result>>
            ELSE Return(c, "SUCCESS")

AfterTimeout(c) ==
    /\ ~reply[c].pending
    /\ pc' = [pc EXCEPT ![c] = "remove"]
    /\ UNCHANGED <<owner, result>>

CheckPending(c) ==
    /\ pc[c] = "check"
    /\ AfterReply(c) \/ AfterTimeout(c)
    /\ UNCHANGED <<agentVars, cmd, seq, channelVars, ioVars, arg, active,
                   closing>>

ChannelStep == UNCHANGED <<agentVars, cmd, seq, reply, unpacker, ioPc, hdr,
                           channel, obj, fate, m_socket, m_thread, m_shutdown,
                           m_seq, arg, closing>>

(* Mutants: a Stop that timed out deletes the listener; the channel is     *)
(* registered under the last number handed out.                            *)
StoppedSeq(c) == IF cmd[c] = "stop" THEN arg[c] ELSE seq[c]
LastSeq(c) == m_seq - 1

SentSeq(c) == seq[c]
AnsweredSeq(c) == reply[c].seq

RemoveTimedOut(c) ==
    /\ pc[c] = "remove"
    /\ RemoveChannel(SentSeq(c))
    /\ Return(c, IF cmd[c] = "handshake" THEN "FAILURE" ELSE "TIMEOUT")
    /\ UNCHANGED active
    /\ ChannelStep

Register(c) ==
    /\ pc[c] = "register"
    /\ AddChannel(AnsweredSeq(c), Listener(c, cmd[c]))
    /\ Return(c, "SUCCESS")
    /\ active' = active \cup (IF cmd[c] = "query" THEN {} ELSE {reply[c].seq})
    /\ ChannelStep

Unlisten(c) ==
    /\ pc[c] = "unlisten"
    /\ RemoveChannel(arg[c])
    /\ Return(c, "SUCCESS")
    /\ UNCHANGED active
    /\ ChannelStep

-----------------------------------------------------------------------------
(* Connect and Close. *)

MayConnect(c) == Fresh(c) /\ MayCall(Main) /\ (Joinable => "retry" \in Faults)

(* socket() or connect() fails. *)
ConnectFails(c) ==
    /\ MayConnect(c)
    /\ m_socket' = "none"
    /\ Return(c, "FAILURE")
    /\ AgentForget
    /\ UNCHANGED <<cmd, seq, channelVars, m_thread, m_shutdown, m_seq,
                   m_channels, arg, active, closing>>

(* Connected: the I/O thread starts before the handshake is sent. *)
ConnectOpens(c) ==
    /\ MayConnect(c)
    /\ ~Joinable
    /\ m_socket' = "open"
    /\ m_thread' = "running"
    /\ ioPc' = "top"
    /\ pc' = [pc EXCEPT ![c] = "handshake"]
    /\ cmd' = [cmd EXCEPT ![c] = "handshake"]
    /\ owner' = [owner EXCEPT ![c] = Main]
    /\ active' = {}
    /\ UNCHANGED <<agentVars, seq, reply, heap, unpacker, hdr, channel, obj,
                   fate, m_shutdown, m_seq, m_channels, arg, result, closing>>

(* Assigning to a joinable std::thread ends the program. *)
ConnectTerminates(c) ==
    /\ MayConnect(c)
    /\ Joinable
    /\ fate' = "terminated"
    /\ UNCHANGED <<agentVars, frameVars, reply, heap, unpacker, ioPc, hdr,
                   channel, obj, ioVars, clientVars>>

Handshake(c) ==
    /\ pc[c] = "handshake"
    /\ \/ /\ SendDataOk(c, "handshake", 0)
          /\ pc' = [pc EXCEPT ![c] = "wait"]
          /\ UNCHANGED <<owner, result>>
       \/ /\ SendDataFails
          /\ Return(c, "FAILURE")
    /\ UNCHANGED <<cmd, channelVars, arg, active, closing>>

(* Mutant: the I/O thread is not told to stop. *)
ToldNothing == m_shutdown
Told == IsConnected \/ m_shutdown

CloseBegin ==
    /\ ~closing /\ ~Busy(Main)
    /\ InCall => "busyClose" \in Faults
    /\ closing' = TRUE
    /\ m_shutdown' = Told
    /\ UNCHANGED <<agentVars, frameVars, channelVars, m_socket, m_thread,
                   m_seq, m_channels, owner, arg, result, active>>

(* m_seq is reset without m_mutex: the write is lost if it falls into the  *)
(* m_seq++ of a sendData of another thread, which without busyClose can    *)
(* only be an I/O thread, not joined, inside a listener.                   *)
ResetSeq == IF "busyClose" \in Faults \/ ioPc = "callback"
            THEN {0, m_seq} ELSE {0}

CloseEnd ==
    /\ closing
    /\ IsConnected => m_thread # "running"
    /\ closing' = FALSE
    /\ m_thread' = IF IsConnected THEN "none" ELSE m_thread
    /\ m_shutdown' = FALSE
    /\ m_seq' \in ResetSeq
    /\ UNCHANGED <<agentVars, frameVars, channelVars, m_socket, m_channels,
                   owner, arg, result, active>>

(* Close from a listener: join finds the calling thread itself and throws, *)
(* the listener is left by the exception, and produce, or processRpc,      *)
(* swallows it.  m_shutdown stays set.  If a failed Connect has taken the  *)
(* socket from under the I/O thread, Close only resets m_shutdown and, as  *)
(* other threads may be in sendData, perhaps m_seq.                        *)
ListenerCloses ==
    /\ "listenerClose" \in Faults
    /\ ioPc = "callback"
    /\ ~Busy(IoThread)
    /\ \/ /\ IsConnected
          /\ m_shutdown' = TRUE
          /\ BackToDrain
          /\ UNCHANGED m_seq
       \/ /\ ~IsConnected
          /\ m_shutdown' = FALSE
          /\ m_seq' \in {0, m_seq}
          /\ UNCHANGED <<ioPc, hdr, channel, obj>>
    /\ UNCHANGED <<agentVars, frameVars, reply, heap, unpacker, fate, m_socket,
                   m_thread, m_channels, clientVars>>

-----------------------------------------------------------------------------
RpcMethod(t, c) ==
    \/ Join(t, c) \/ Auth(t, c) \/ InstallKey(t, c) \/ ListKeys(t, c)
    \/ UseKey(t, c) \/ RemoveKey(t, c) \/ Members(t, c)
    \/ MembersFiltered(t, c) \/ Event(t, c) \/ Respond(t, c)
    \/ ForceLeave(t, c) \/ Tags(t, c) \/ Leave(t, c) \/ Monitor(t, c)
    \/ Query(t, c) \/ Stream(t, c) \/ Stop(t, c) \/ Stats(t, c)
    \/ GetCoordinate(t, c)

Finish(c) == Consume(c) \/ CheckPending(c) \/ RemoveTimedOut(c)
             \/ Register(c) \/ Unlisten(c)

Connect(c) == ConnectFails(c) \/ ConnectOpens(c) \/ ConnectTerminates(c)
              \/ Handshake(c)

Close == CloseBegin \/ CloseEnd \/ ListenerCloses

(* The I/O thread leaves a listener only when the listener's call is over. *)
IoStep == /\ m_thread = "running"
          /\ IoLoop \/ (~Busy(IoThread) /\ IoCallbackReturn)
          /\ UNCHANGED clientVars

AgentAnswers ==
    \E r \in requests : AgentReply(r) \/ AgentError(r) \/ AgentDrop(r)

(* Without early records a subscription is silent until its call returned. *)
AgentPublishes ==
    \E q \in subs : /\ pc[q.call] = "done" \/ "earlyRecord" \in Faults
                    /\ AgentRecord(q) \/ AgentQueryDone(q)

(* The agent closes its end.  What it has written can still be read. *)
AgentCloses ==
    /\ "agentCloses" \in Faults
    /\ m_socket = "open"
    /\ m_socket' = "shut"
    /\ requests' = {}
    /\ subs' = {}
    /\ UNCHANGED <<wire, sent, frameVars, channelVars, m_thread, m_shutdown,
                   m_seq, m_channels, clientVars>>

AgentStep == /\ AgentAnswers \/ AgentPublishes
             /\ UNCHANGED <<frameVars, channelVars, ioVars, clientVars>>

Next == /\ fate = "ok"
        /\ \/ \E t \in Threads \cup {IoThread}, c \in Calls :
                 RpcMethod(t, c) \/ SendKills(t, c)
           \/ \E c \in Calls : Finish(c) \/ Connect(c)
           \/ Close
           \/ IoStep
           \/ AgentStep
           \/ AgentCloses

Spec == Init /\ [][Next]_vars

(* Fairness: the operating system runs every thread that can run, waits    *)
(* end, listeners return, and a request is either answered or given up     *)
(* (AgentDrop), so that the time a wait may take passes.  Nothing obliges  *)
(* the application to start a call or a Close.                             *)
Fairness ==
    /\ \A c \in Calls : WF_vars(fate = "ok" /\ Finish(c))
    /\ \A c \in Calls : WF_vars(fate = "ok" /\ Handshake(c))
    /\ WF_vars(fate = "ok" /\ CloseEnd)
    /\ WF_vars(fate = "ok" /\ IoStep)
    /\ WF_vars(/\ fate = "ok" /\ AgentAnswers
               /\ UNCHANGED <<frameVars, channelVars, ioVars, clientVars>>)

FairSpec == Spec /\ Fairness

-----------------------------------------------------------------------------
(* Properties. *)

(* Headers the I/O thread has not looked up yet. *)
UnreadHeaders == {o \in Range(wire) \cup Range(unpacker) : o.kind = "header"}

Waiting(c) == pc[c] \in {"wait", "check"} /\ ~reply[c].pending

NoAnswer == [err |-> FALSE, data |-> "empty"]
StoredAnswer(c) == IF reply[c].pending
                   THEN [err |-> reply[c].err, data |-> reply[c].data]
                   ELSE NoAnswer

(* Every entry of m_channels points to a channel that still exists, so     *)
(* removeChannel and a lookup under m_mutex never meet a dead channel.     *)
RegisteredAlive == \A s \in Seqs : m_channels[s] # Null => Alive(m_channels[s])

(* Why: the invariant that makes it inductive.                             *)
(* An entry for a request is there only while its call waits unanswered.   *)
RequestEntries ==
    \A s \in Seqs : m_channels[s].type = "REQUEST" =>
       LET c == m_channels[s].call IN
          /\ seq[c] = s
          /\ pc[c] \in {"wait", "check", "remove"}
          /\ ~reply[c].pending

(* An entry for a listener is under the number of the call that made it.   *)
ListenerEntries ==
    \A s \in Seqs : m_channels[s].type \in ListenerTypes =>
       LET c == m_channels[s].call IN
          seq[c] = s /\ pc[c] = "done" /\ c \in heap

(* An answer carries the number of the request, and a method goes on to    *)
(* register or remove a listener only after an answer.                     *)
AnswersKeepNumbers ==
    \A c \in Calls :
       /\ reply[c].pending => /\ pc[c] \notin {"idle", "handshake"}
                              /\ reply[c].seq = seq[c]
       /\ pc[c] \in {"register", "unlisten"} => reply[c].pending

(* The request the I/O thread is answering is the one hdr names, and its   *)
(* entry is gone before the answer is stored.                              *)
RequestInHand ==
    ioPc \in {"found", "produce", "notify"} /\ channel.type = "REQUEST" =>
       /\ seq[channel.call] = hdr.seq
       /\ pc[channel.call] \notin {"idle", "handshake"}
       /\ ioPc # "found" => \A s \in Seqs : m_channels[s] # channel

MapInv == /\ RequestEntries
          /\ ListenerEntries
          /\ AnswersKeepNumbers
          /\ RequestInHand

(* The I/O thread never uses a channel whose frame has returned or that    *)
(* was deleted: notify_one under the lock keeps a caller from returning    *)
(* before its channel has been signalled (SerfChannel.h, produce).         *)
NoDangling == fate # "dangling"

(* Every call is a mailbox: it is answered at most once, with an answer    *)
(* that stays as it is, and returns what that answer says; a call gives up *)
(* only on an empty mailbox, and no answer is stored for one that returned.*)
Mailbox(c) == INSTANCE SerfMailbox WITH
    Bodies <- {"none", "own", "foreign"},
    phase <- IF pc[c] \in {"idle", "handshake"} THEN "idle"
             ELSE IF pc[c] = "done" THEN "over"
             ELSE IF pc[c] = "remove" THEN "gaveUp" ELSE "asked",
    slot <- StoredAnswer(c),
    got <- IF result[c] = "SUCCESS" THEN StoredAnswer(c) ELSE NoAnswer,
    result <- result[c]

CallsBegin == \A c \in Calls : Mailbox(c)!MailboxInit
CallsStep == \A c \in Calls : [Mailbox(c)!MailboxNext]_(Mailbox(c)!mailboxVars)
CallsAreMailboxes == CallsBegin /\ [][CallsStep]_vars

(* An answer is only ever stored for the call that asked: numbers are not  *)
(* reused while an answer under them may come, across reconnects too.      *)
ReplyMatches == \A c \in Calls : reply[c].pending => reply[c].of = c

(* As long as a call waits, its answer will find its channel: nothing else *)
(* took or erased the entry under its number.                              *)
AnswerFindsCaller ==
    \A o \in UnreadHeaders :
       (o.what = "reply" /\ Waiting(o.call)) =>
           m_channels[o.seq] = Request(o.call)

(* A data call that reports success hands out the body the agent sent.     *)
DataComplete ==
    \A c \in Calls : result[c] = "SUCCESS" /\ HasBody(cmd[c]) =>
                         reply[c].data = "own"

(* A listener is called only with the header and body of its own records,  *)
(* and only a log listener is called when the body has not been read.      *)
ListenerHearsOwn ==
    ioPc = "callback" =>
       /\ hdr.call = channel.call
       /\ IF obj = NoObject
          THEN channel.type = "LOG"
          ELSE obj.call = channel.call /\ obj.what = hdr.what

(* "callback method for each event": when the I/O thread comes to a record *)
(* of a subscription, the listener is registered.                          *)
RecordFindsListener ==
    ioPc = "drain" /\ unpacker # <<>> =>
       LET o == Head(unpacker) IN
          o.kind = "header" /\ o.what # "reply" =>
             m_channels[o.seq] = Listener(o.call, cmd[o.call])

(* A listener channel is not deleted while the I/O thread is about to use  *)
(* it or inside its listener.                                              *)
DeletedNotInUse ==
    [][\A c \in heap \ heap' :
          ~(/\ ioPc \in {"found", "produce", "callback"}
            /\ channel = Listener(c, cmd[c]))]_vars

(* A listener channel that is still allocated drops out of the map, and so *)
(* can never be freed, only when a later connection hands out its number   *)
(* again (Close sets m_seq back to 0 and leaves m_channels as it is).      *)
Listed(c) == \E s \in Seqs : m_channels[s] = Listener(c, cmd[c])
LeaksOnlyReused ==
    [][\A c \in heap \cap heap' :
          Listed(c) /\ ~Listed(c)' => m_seq = seq[c] /\ m_seq' = m_seq + 1]_vars

Killed == fate = "killed"

(* The connection is being closed by Close, or a listener closed it. *)
Ending == Killed \/ m_shutdown

(* Every call returns, whether or not the agent answers or stays: a wait   *)
(* ends, unless SIGPIPE ends the process.                                  *)
CallsReturn == \A c \in Calls : pc[c] = "wait" ~> pc[c] = "done" \/ Killed

(* Close returns: the I/O thread sees m_shutdown and can be joined, from   *)
(* inside a listener that waits in a call of its own too.                  *)
CloseReturns == closing ~> ~closing \/ Killed

(* The successful answer to a waiting call, once sent, makes it succeed. *)
AnswerComes(c) ==
    \E o \in Range(wire) : /\ o.kind = "header" /\ o.call = c
                           /\ o.what = "reply" /\ ~o.err /\ Waiting(c)
AnsweredCallSucceeds ==
    \A c \in Calls : AnswerComes(c) ~> result[c] = "SUCCESS" \/ Ending

(* The same where listeners may issue calls and so keep the I/O thread     *)
(* from reading: nothing else keeps an answer from its call, not even that *)
(* the agent closed the connection after sending it.                       *)
AnsweredUnlessBlocked ==
    \A c \in Calls :
       AnswerComes(c) ~> result[c] = "SUCCESS" \/ Ending \/ Busy(IoThread)

(* A record sent to a registered listener is heard, unless Close comes.    *)
RecordIsHeard ==
    \A c \in Calls :
       (\E o \in Range(wire) : /\ o.kind = "header" /\ o.call = c
                              /\ o.what # "reply" /\ c \in heap)
           ~> Ending \/ (ioPc = "callback" /\ obj.call = c)

(* Once the agent has reported the end of a query, its channel is freed,   *)
(* unless Close comes.                                                     *)
FinishedQueryIsFreed ==
    \A c \in Calls :
       (\E o \in Range(wire) : /\ o.kind = "header" /\ o.call = c
                              /\ o.what = "done")
           ~> Ending \/ c \notin heap
=============================================================================
