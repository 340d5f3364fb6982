----------------------------- MODULE SerfMailbox -----------------------------
(***************************************************************************)
(* What one call of the client promises its caller.  The call asks once,   *)
(* its mailbox receives at most one answer, and it returns once: with what *)
(* the answer says, or with TIMEOUT if there was no answer when it looked. *)
(*                                                                         *)
(* SerfResultChannel implements this with a mutex and a condition          *)
(* variable, SerfClient with the map of channels and the I/O thread.       *)
(***************************************************************************)
CONSTANT Bodies      \* what an answer may carry besides its header

VARIABLES
    phase,   \* how far the call is
    slot,    \* the answer in the mailbox
    got,     \* the answer the call returned with
    result   \* what the call returned

mailboxVars == <<phase, slot, got, result>>

Answer == [err : BOOLEAN, data : Bodies]
Empty == [err |-> FALSE, data |-> "empty"]

MailboxInit ==
    /\ phase = "idle"
    /\ slot = Empty
    /\ got = Empty
    /\ result = "none"

Return(r, a) == phase' = "over" /\ result' = r /\ got' = a

Ask ==
    /\ phase = "idle"
    /\ phase' = "asked"
    /\ UNCHANGED <<slot, got, result>>

AskFails ==
    /\ phase = "idle"
    /\ Return("FAILURE", Empty)
    /\ UNCHANGED slot

(* An answer is stored whole, once, and never after the call returned. *)
Put(a) ==
    /\ phase \in {"asked", "gaveUp"}
    /\ slot = Empty
    /\ slot' = a
    /\ UNCHANGED <<phase, got, result>>

Take ==
    /\ phase = "asked"
    /\ slot # Empty
    /\ IF slot.err THEN Return("FAILURE", Empty) ELSE Return("SUCCESS", slot)
    /\ UNCHANGED slot

(* Only an empty mailbox is given up; an answer that comes later is lost. *)
GiveUp ==
    /\ phase = "asked"
    /\ slot = Empty
    /\ phase' = "gaveUp"
    /\ UNCHANGED <<slot, got, result>>

(* Connect has no TIMEOUT to return. *)
TimeOut ==
    /\ phase = "gaveUp"
    /\ \E r \in {"TIMEOUT", "FAILURE"} : Return(r, Empty)
    /\ UNCHANGED slot

MailboxNext == \/ Ask \/ AskFails \/ Take \/ GiveUp \/ TimeOut
               \/ \E a \in Answer : Put(a)

Spec == MailboxInit /\ [][MailboxNext]_mailboxVars
=============================================================================
