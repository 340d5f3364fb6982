----------------------------- MODULE SerfAgent -----------------------------
(***************************************************************************)
(* The serf agent, as the client library uses it.  The agent is not part   *)
(* of the repository: what is modelled is the protocol the library relies  *)
(* on, a reliable stream in each direction over which every request is     *)
(* answered at most once, under its own sequence number, and a successful  *)
(* listener command opens a subscription whose records repeat its number.  *)
(***************************************************************************)
EXTENDS SerfProtocol

VARIABLES
    wire,      \* objects the agent has written and the client has not read
    requests,  \* requests the client has sent and the agent has not handled
    subs,      \* requests whose subscription is open
    sent       \* records sent so far

agentVars == <<wire, requests, subs, sent>>

RequestMessage == [call : Calls, seq : Seqs, cmd : AllCommands,
                   arg : Seqs]

AgentTypeOK ==
    /\ wire \in Seq(Object)
    /\ requests \subseteq RequestMessage
    /\ subs \subseteq RequestMessage
    /\ sent \in 0..MaxRecords

AgentInit == wire = <<>> /\ requests = {} /\ subs = {} /\ sent = 0

(* Subscriptions open once request r has been answered without error.  A   *)
(* stop closes the one it names, unless the instance has late records.     *)
Closes(r, q) == /\ r.cmd = "stop" /\ r.arg = q.seq
                /\ q.cmd # "query" /\ "lateRecord" \notin Faults

SubsAfter(r) == {q \in subs : ~Closes(r, q)} \cup
                (IF r.cmd \in ListenerCommands THEN {r} ELSE {})

ReplyBody(r, ok) ==
    IF HasBody(r.cmd) THEN <<Body(r.call, "reply", ok)>> ELSE <<>>

AgentReply(r) ==
    /\ requests' = requests \ {r}
    /\ \E ok \in BOOLEAN :
          /\ ok \/ ("badBody" \in Faults /\ HasBody(r.cmd))
          /\ wire' = wire \o <<Header(r.call, r.seq, FALSE, "reply")>>
                          \o ReplyBody(r, ok)
    /\ subs' = SubsAfter(r)
    /\ UNCHANGED sent

AgentError(r) ==
    /\ "error" \in Faults
    /\ requests' = requests \ {r}
    /\ \E body \in {ReplyBody(r, TRUE)} \cup
                   (IF "bareError" \in Faults THEN {<<>>} ELSE {}) :
          wire' = wire \o <<Header(r.call, r.seq, TRUE, "reply")>> \o body
    /\ UNCHANGED <<subs, sent>>

AgentDrop(r) ==
    /\ "drop" \in Faults
    /\ requests' = requests \ {r}
    /\ UNCHANGED <<wire, subs, sent>>

AgentRecord(q) ==
    /\ sent < MaxRecords
    /\ sent' = sent + 1
    /\ \E ok \in BOOLEAN :
          /\ ok \/ "badBody" \in Faults
          /\ wire' = wire \o <<Header(q.call, q.seq, FALSE, "record"),
                               Body(q.call, "record", ok)>>
    /\ UNCHANGED <<requests, subs>>

AgentQueryDone(q) ==
    /\ q.cmd = "query"
    /\ subs' = subs \ {q}
    /\ wire' = wire \o <<Header(q.call, q.seq, FALSE, "done"),
                         Body(q.call, "done", TRUE)>>
    /\ UNCHANGED <<requests, sent>>

(* The connection is gone, and with it everything in flight. *)
AgentForget == wire' = <<>> /\ requests' = {} /\ subs' = {} /\ UNCHANGED sent
=============================================================================
