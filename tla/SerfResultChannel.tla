-------------------------- MODULE SerfResultChannel --------------------------
(***************************************************************************)
(* ResultChannel<T>::consume and produce, statement by statement: a caller *)
(* that waits on a condition variable, and the I/O thread that stores an   *)
(* answer, from the moment the request was sent to the end of the caller's *)
(* frame, with which the channel ends.                                     *)
(*                                                                         *)
(* SerfChannel and SerfClient take larger steps (Store, Consume); that     *)
(* both implement SerfMailbox is what makes those steps legitimate.        *)
(***************************************************************************)
EXTENDS Naturals

CONSTANT MaxWakeups   \* bound: wake-ups of the condition variable for no reason

ASSUME MaxWakeupsAssumption == MaxWakeups \in Nat

VARIABLES
    late,           \* in this behaviour an answer may take longer than the wait
    due,            \* the answer is under way
    msg,            \* the answer the I/O thread has in hand
    entry,          \* m_channels still points to the channel
    m_mutex,        \* who holds the channel's mutex
    m_hdr,          \* "none", or what m_hdr.Error says
    m_data,
    m_dataPending,
    pc,             \* the caller: in its method, or in consume
    ioPc,           \* the I/O thread: in processRpc, or in produce
    got,            \* what the caller read
    result,         \* what the method returned
    wakeups,        \* wake-ups for no reason so far
    fate            \* "ok" until the channel is used after its end

fields == <<m_hdr, m_data, m_dataPending>>
callVars == <<late, due, msg, entry, got, result, wakeups, fate>>
vars == <<callVars, m_mutex, fields, pc, ioPc>>

Pcs == {"idle", "enter", "test", "asleep", "woken", "expired", "leave",
        "check", "read", "remove", "done"}
IoPcs == {"idle", "found", "lock", "hdr", "body", "pending", "notify",
          "unlock", "end"}

Data == {"none", "own"}
Message == [err : BOOLEAN, body : Data \cup {"bad"}]
NoMessage == [err |-> FALSE, body |-> "none"]
Nothing == [err |-> FALSE, data |-> "empty"]

TypeOK ==
    /\ late \in BOOLEAN /\ due \in BOOLEAN /\ entry \in BOOLEAN
    /\ msg \in Message
    /\ m_mutex \in {"free", "caller", "io"}
    /\ m_hdr \in BOOLEAN
    /\ m_data \in Data
    /\ m_dataPending \in BOOLEAN
    /\ pc \in Pcs
    /\ ioPc \in IoPcs
    /\ got \in [err : {FALSE}, data : Data] \cup {Nothing}
    /\ result \in {"none", "SUCCESS", "FAILURE", "TIMEOUT"}
    /\ wakeups \in 0..MaxWakeups
    /\ fate \in {"ok", "dangling"}

Init ==
    /\ late \in BOOLEAN
    /\ due = FALSE
    /\ msg = NoMessage
    /\ entry = FALSE
    /\ m_mutex = "free"
    /\ m_hdr = FALSE
    /\ m_data = "none"
    /\ m_dataPending = FALSE
    /\ pc = "idle"
    /\ ioPc = "idle"
    /\ got = Nothing
    /\ result = "none"
    /\ wakeups = 0
    /\ fate = "ok"

(* The channel is a local variable of the caller. *)
Alive == pc # "done"

-----------------------------------------------------------------------------
(* The caller. *)

Returns(r, a) == pc' = "done" /\ result' = r /\ got' = a

Send ==
    /\ pc = "idle"
    /\ pc' = "enter"
    /\ entry' = TRUE
    /\ due' = TRUE
    /\ UNCHANGED <<late, msg, m_mutex, fields, ioPc, got, result, wakeups, fate>>

SendFails ==
    /\ pc = "idle"
    /\ Returns("FAILURE", Nothing)
    /\ UNCHANGED <<late, due, msg, entry, m_mutex, fields, ioPc, wakeups, fate>>

(* Mutant: the caller waits before it looks. *)
EnterAsleep ==
    /\ pc = "enter"
    /\ m_mutex = "free"
    /\ pc' = "asleep"
    /\ UNCHANGED <<callVars, m_mutex, fields, ioPc>>

(* unique_lock<std::mutex> lock(m_mutex). *)
Enter ==
    /\ pc = "enter"
    /\ m_mutex = "free"
    /\ m_mutex' = "caller"
    /\ pc' = "test"
    /\ UNCHANGED <<callVars, fields, ioPc>>

(* The loop condition; wait_for lets go of the mutex as it goes to sleep. *)
Test ==
    /\ pc = "test"
    /\ IF m_dataPending
       THEN pc' = "leave" /\ UNCHANGED m_mutex
       ELSE pc' = "asleep" /\ m_mutex' = "free"
    /\ UNCHANGED <<callVars, fields, ioPc>>

WakeUp ==
    /\ pc = "asleep"
    /\ wakeups < MaxWakeups
    /\ wakeups' = wakeups + 1
    /\ pc' = "woken"
    /\ UNCHANGED <<late, due, msg, entry, m_mutex, fields, ioPc, got, result, fate>>

(* Unless answers may be late, TIMEOUT_SECONDS pass only if none comes. *)
TimesOut == late \/ (~due /\ ioPc \in {"idle", "end"} /\ ~m_dataPending)

Expire ==
    /\ pc = "asleep"
    /\ TimesOut
    /\ pc' = "expired"
    /\ UNCHANGED <<callVars, m_mutex, fields, ioPc>>

(* wait_for returns with the mutex; a timeout ends the loop. *)
Reacquire ==
    /\ pc \in {"woken", "expired"}
    /\ m_mutex = "free"
    /\ m_mutex' = "caller"
    /\ pc' = IF pc = "woken" THEN "test" ELSE "leave"
    /\ UNCHANGED <<callVars, fields, ioPc>>

Leave ==
    /\ pc = "leave"
    /\ m_mutex' = "free"
    /\ pc' = "check"
    /\ UNCHANGED <<callVars, fields, ioPc>>

(* The method looks at m_dataPending, without the mutex ... *)
Check ==
    /\ pc = "check"
    /\ pc' = IF m_dataPending THEN "read" ELSE "remove"
    /\ UNCHANGED <<callVars, m_mutex, fields, ioPc>>

(* ... and at m_hdr and m_data. *)
Read ==
    /\ pc = "read"
    /\ IF m_hdr
       THEN Returns("FAILURE", Nothing)
       ELSE Returns("SUCCESS", [err |-> FALSE, data |-> m_data])
    /\ UNCHANGED <<late, due, msg, entry, m_mutex, fields, ioPc, wakeups, fate>>

Remove ==
    /\ pc = "remove"
    /\ entry' = FALSE
    /\ Returns("TIMEOUT", Nothing)
    /\ UNCHANGED <<late, due, msg, m_mutex, fields, ioPc, wakeups, fate>>

-----------------------------------------------------------------------------
(* The I/O thread. *)

Lose ==
    /\ due
    /\ due' = FALSE
    /\ UNCHANGED <<late, msg, entry, m_mutex, fields, pc, ioPc, got, result,
                   wakeups, fate>>

IoFind ==
    /\ due
    /\ due' = FALSE
    /\ msg' \in Message
    /\ ioPc' = IF entry THEN "found" ELSE "end"
    /\ UNCHANGED <<late, entry, m_mutex, fields, pc, got, result, wakeups, fate>>

IoErase ==
    /\ ioPc = "found"
    /\ Alive
    /\ entry' = FALSE
    /\ ioPc' = "lock"
    /\ UNCHANGED <<late, due, msg, m_mutex, fields, pc, got, result, wakeups, fate>>

(* Mutant: produce does not take the mutex. *)
LockNothing ==
    /\ ioPc = "lock"
    /\ Alive
    /\ ioPc' = "hdr"
    /\ UNCHANGED <<callVars, m_mutex, fields, pc>>

(* std::lock_guard<std::mutex> lock(m_mutex). *)
Lock ==
    /\ ioPc = "lock"
    /\ Alive
    /\ m_mutex = "free"
    /\ m_mutex' = "io"
    /\ ioPc' = "hdr"
    /\ UNCHANGED <<callVars, fields, pc>>

(* Mutant: m_dataPending is set before the answer is complete. *)
StoreHdrPending ==
    /\ ioPc = "hdr"
    /\ Alive
    /\ m_hdr' = msg.err
    /\ m_dataPending' = TRUE
    /\ ioPc' = "body"
    /\ UNCHANGED <<callVars, m_mutex, m_data, pc>>

StoreHdr ==
    /\ ioPc = "hdr"
    /\ Alive
    /\ m_hdr' = msg.err
    /\ ioPc' = "body"
    /\ UNCHANGED <<callVars, m_mutex, m_data, m_dataPending, pc>>

(* A body that does not convert throws, and the lock_guard lets go. *)
StoreBody ==
    /\ ioPc = "body"
    /\ Alive
    /\ IF msg.body = "bad"
       THEN ioPc' = "end" /\ m_mutex' = "free" /\ UNCHANGED m_data
       ELSE ioPc' = "pending" /\ m_data' = msg.body /\ UNCHANGED m_mutex
    /\ UNCHANGED <<callVars, m_hdr, m_dataPending, pc>>

(* Mutant: the mutex is released before notify_one. *)
SetPendingUnlocked ==
    /\ ioPc = "pending"
    /\ Alive
    /\ m_dataPending' = TRUE
    /\ m_mutex' = "free"
    /\ ioPc' = "notify"
    /\ UNCHANGED <<callVars, m_hdr, m_data, pc>>

SetPending ==
    /\ ioPc = "pending"
    /\ Alive
    /\ m_dataPending' = TRUE
    /\ ioPc' = "notify"
    /\ UNCHANGED <<callVars, m_mutex, m_hdr, m_data, pc>>

Notify ==
    /\ ioPc = "notify"
    /\ Alive
    /\ pc' = IF pc = "asleep" THEN "woken" ELSE pc
    /\ ioPc' = "unlock"
    /\ UNCHANGED <<callVars, m_mutex, fields>>

Unlock ==
    /\ ioPc = "unlock"
    /\ Alive
    /\ m_mutex' = "free"
    /\ ioPc' = "end"
    /\ UNCHANGED <<callVars, fields, pc>>

(* The channel the I/O thread is about to use is gone. *)
Dangle ==
    /\ ioPc \notin {"idle", "end"}
    /\ ~Alive
    /\ fate' = "dangling"
    /\ UNCHANGED <<late, due, msg, entry, m_mutex, fields, pc, ioPc, got,
                   result, wakeups>>

-----------------------------------------------------------------------------
Caller == \/ Send \/ SendFails \/ Enter \/ Test \/ WakeUp \/ Expire
          \/ Reacquire \/ Leave \/ Check \/ Read \/ Remove

IoThread == \/ IoFind \/ IoErase \/ Lock \/ StoreHdr \/ StoreBody
            \/ SetPending \/ Notify \/ Unlock \/ Dangle

Next == fate = "ok" /\ (Caller \/ IoThread \/ Lose)

Spec == Init /\ [][Next]_vars

(* Both threads run and a wait that can end ends; nothing makes a caller   *)
(* call, or wakes it for no reason.                                        *)
Fairness ==
    /\ WF_vars(fate = "ok" /\ Enter)
    /\ WF_vars(fate = "ok" /\ (Test \/ Leave \/ Check \/ Read \/ Remove))
    /\ WF_vars(fate = "ok" /\ Expire)
    /\ WF_vars(fate = "ok" /\ Reacquire)
    /\ WF_vars(fate = "ok" /\ (IoThread \/ Lose))

FairSpec == Spec /\ Fairness

-----------------------------------------------------------------------------
(* Properties. *)

(* The answer is handled once, and nothing of it is written any more when  *)
(* m_dataPending is set.                                                   *)
OneAnswer ==
    /\ pc = "idle" => ~due /\ ioPc = "idle"
    /\ due => ioPc = "idle"
    /\ m_dataPending => ioPc \in {"notify", "unlock", "end"}
    /\ pc = "read" => m_dataPending

(* The mutex is held where the code says, and only there. *)
MutexHeld ==
    /\ m_mutex = "caller" <=> pc \in {"test", "leave"}
    /\ m_mutex = "io" <=> ioPc \in {"hdr", "body", "pending", "notify", "unlock"}

(* A caller that has stopped waiting knows that produce is over or never   *)
(* comes, as long as answers are not late.                                 *)
Quiet == ~due /\ ioPc \in {"idle", "end"}
LeavesQuiet ==
    ~late /\ pc \in {"expired", "leave", "check", "read", "remove", "done"}
        => Quiet

(* What holds in every state, and is kept by every step: the caller and    *)
(* the I/O thread are never both in the channel, and the caller leaves it  *)
(* behind only when the I/O thread is done with it.                        *)
ChannelInv == /\ TypeOK
              /\ OneAnswer
              /\ MutexHeld
              /\ LeavesQuiet
              /\ ~late => fate = "ok"

(* The channel is a mailbox: it fills once, with a complete answer, and    *)
(* the method returns what is in it, read with or without the mutex.       *)
Mailbox == INSTANCE SerfMailbox WITH
    Bodies <- Data,
    phase <- IF pc = "idle" THEN "idle"
             ELSE IF pc = "done" THEN "over"
             ELSE IF pc = "remove" THEN "gaveUp" ELSE "asked",
    slot <- IF m_dataPending THEN [err |-> m_hdr, data |-> m_data] ELSE Nothing

ImplementsMailbox == Mailbox!Spec

(* produce is through with mutex and condition variable before the caller  *)
(* destroys them, as long as answers are not late (SerfChannel.h,          *)
(* notify_one inside the block of the lock_guard).                         *)
NotifyBeforeDestroy == ~late => fate = "ok"

(* Two threads at m_hdr, m_data or m_dataPending, one of them writing: it  *)
(* takes a late answer, and a caller that has let go of the mutex.         *)
Writing == ioPc \in {"hdr", "body", "pending"}
Reading == pc \in {"test"} \cup IF late THEN {} ELSE {"check", "read"}
FieldsNotRaced == ~(Writing /\ Reading)

(* A call returns: by its answer, which wakes it without the help of the   *)
(* timeout, or by the timeout (unless the program is past its end).        *)
CallReturns == pc = "enter" ~> pc = "done"
=============================================================================
