---------------------------- MODULE MCSerfClient ----------------------------
(***************************************************************************)
(* Instances of SerfClient for TLC: sets of commands and environments by   *)
(* name.  Threads, calls and bounds are in the configurations.             *)
(***************************************************************************)
EXTENDS SerfInvariants

(* The agent answers in time, or with an error, or never, or closes the    *)
(* connection; other threads wait neither for Connect to return nor for a  *)
(* new socket after Close.                                                 *)
Prompt == {"error", "drop", "earlyCall", "fdReuse", "agentCloses"}

(* The connection ends early: the agent closes it, or a listener does, or  *)
(* Main while a listener waits in a call; the agent may stay silent.       *)
Ended == {"drop", "agentCloses", "listenerClose", "reentrant"}

(* Answers are late, in pieces and out of step with the application, which *)
(* closes the connection under calls of other threads.                     *)
Hostile == {"splitRead", "lateAnswer", "busyClose", "anyStop"}

(* Connections come and go, sends fail, answers and records come in pieces,*)
(* errors lack bodies, records come at once and after a Stop.              *)
Flaky == {"error", "drop", "bareError", "splitRead", "earlyRecord",
          "lateRecord", "sendFail", "retry", "listenerClose"}

(* Errors lack bodies, and bodies do not convert.                          *)
Sloppy == {"error", "bareError", "badBody"}

(* Every method of the interface. *)
AllMethods == AllCommands \ {"handshake"}
=============================================================================
