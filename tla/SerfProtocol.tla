---------------------------- MODULE SerfProtocol ----------------------------
(***************************************************************************)
(* The vocabulary shared by the client library and the serf agent: the RPC *)
(* commands, the msgpack objects that cross the socket, the channels an    *)
(* answer can be delivered to, and the environment of one client.          *)
(*                                                                         *)
(* A "call" is one execution of a SerfClient method.  Calls are used once, *)
(* so that a pointer to the stack frame of a call that returned can be     *)
(* told from a pointer to the frame of a later call of the same method.    *)
(***************************************************************************)
EXTENDS Naturals, Sequences, FiniteSets

CONSTANTS
    Calls,       \* executions of SerfClient methods, each used at most once
    NoCall,      \* "no call", for null pointers and unset fields
    Threads,     \* application threads that use the client
    Main,        \* the thread that calls Connect and Close
    IoThread,    \* the thread that runs SerfIoThread::processRpc
    NoThread,    \* owner of a call nobody has started
    Commands,    \* the commands this instance of the model issues
    Faults,      \* what the agent, the clock and the application may do
    MaxRecords,  \* bound: records the agent sends, over all streams
    MaxSeq       \* bound: the largest sequence number handed out

-----------------------------------------------------------------------------
(* Commands.  The answer to a data command carries a body after its header *)
(* and is received in a ResultChannel<T>; the answer to any other command  *)
(* is a header alone, received in the specialisation ResultChannel<bool>.  *)

DataCommands == {"join", "install-key", "list-keys", "remove-key", "members",
                 "members-filtered", "stats", "get-coordinate"}

ListenerCommands == {"monitor", "stream", "query"}

BoolCommands == ListenerCommands \cup
                {"handshake", "auth", "use-key", "event", "respond",
                 "force-leave", "tags", "leave", "stop"}

AllCommands == DataCommands \cup BoolCommands

HasBody(k) == k \in DataCommands

(* Environment behaviour an instance may include.                          *)
(*   error       the agent answers with a non-empty Error                  *)
(*   drop        the agent never answers a request                         *)
(*   bareError   an error answer to a data command has no body             *)
(*   badBody     a body does not convert to the struct it is read into     *)
(*   splitRead   a read returns part of what the agent wrote               *)
(*   earlyRecord records follow the answer to a listener command at once   *)
(*   lateRecord  records still follow the answer to a stop command         *)
(*   lateAnswer  an answer may take longer than TIMEOUT_SECONDS            *)
(*   sendFail    send() on an open socket fails                            *)
(*   fdReuse     the number of a closed socket names another open file     *)
(*   busyClose   Close is called while another application thread is       *)
(*               inside a call                                             *)
(*   earlyCall   other threads issue calls while Connect is in progress    *)
(*   retry       Connect is called while the I/O thread is joinable        *)
(*   reentrant   a listener issues a call from its callback                *)
(*   listenerClose  a listener calls Close from its callback               *)
(*   anyStop     Stop is given a number no Monitor or Stream returned on   *)
(*               this connection                                           *)
(*   agentCloses the agent closes the connection                           *)
AllFaults == {"error", "drop", "bareError", "badBody", "splitRead",
              "earlyRecord", "lateRecord", "lateAnswer", "sendFail",
              "fdReuse", "busyClose", "earlyCall", "retry", "reentrant",
              "listenerClose", "anyStop", "agentCloses"}

Seqs == 0..MaxSeq

ASSUME CallsAssumption == NoCall \notin Calls
ASSUME ThreadsAssumption == /\ Main \in Threads
                            /\ IoThread \notin Threads
                            /\ NoThread \notin Threads \cup {IoThread}
ASSUME CommandsAssumption == Commands \subseteq AllCommands \ {"handshake"}
ASSUME FaultsAssumption == Faults \subseteq AllFaults
ASSUME BoundsAssumption == MaxRecords \in Nat /\ MaxSeq \in Nat

-----------------------------------------------------------------------------
(* The msgpack objects of a connection.  The field call says whose request *)
(* the object belongs to; no code reads it, properties do.                 *)

Object == [kind : {"header", "body"}, call : Calls, seq : Seqs,
           err : BOOLEAN, what : {"reply", "record", "done"}, ok : BOOLEAN]

NoObject == [kind |-> "none", call |-> NoCall, seq |-> 0,
             err |-> FALSE, what |-> "reply", ok |-> TRUE]

Header(c, s, e, w) == [kind |-> "header", call |-> c, seq |-> s,
                       err |-> e, what |-> w, ok |-> TRUE]

Body(c, w, ok) == [kind |-> "body", call |-> c, seq |-> 0,
                   err |-> FALSE, what |-> w, ok |-> ok]

(* Structs are read from msgpack maps by key: a map without "Seq" and      *)
(* "Error" leaves both at their defaults, so any body can pass for the     *)
(* header of a successful answer to request 0.                             *)
AsResponseHeader(o) ==
    [kind |-> o.kind, call |-> o.call, what |-> o.what, ok |-> o.ok,
     seq |-> IF o.kind = "header" THEN o.seq ELSE 0,
     err |-> IF o.kind = "header" THEN o.err ELSE FALSE]

-----------------------------------------------------------------------------
(* Pointers to channels.  A REQUEST channel is a local variable of its     *)
(* call; the others are allocated by the call and owned by m_channels.     *)

Null == [type |-> "null", call |-> NoCall]

Request(c) == [type |-> "REQUEST", call |-> c]

ListenerTypes == {"LOG", "EVENT", "QUERY"}

Pointer == {Null} \cup [type : {"REQUEST"} \cup ListenerTypes, call : Calls]

ListenerType(k) ==
    IF k = "monitor" THEN "LOG" ELSE IF k = "stream" THEN "EVENT" ELSE "QUERY"

Listener(c, k) == [type |-> ListenerType(k), call |-> c]
=============================================================================
