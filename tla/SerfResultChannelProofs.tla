----------------------- MODULE SerfResultChannelProofs -----------------------
(***************************************************************************)
(* Proofs about SerfResultChannel: ChannelInv is an invariant, produce and *)
(* consume implement the mailbox, and with answers that are not late the   *)
(* channel is neither raced for nor used after its end.                    *)
(***************************************************************************)
EXTENDS SerfResultChannel, TLAPS

LEMMA InitInv == Init => ChannelInv
<1> SUFFICES ASSUME Init PROVE ChannelInv
  OBVIOUS
<1>1. TypeOK
  <2>1. NoMessage \in Message /\ "none" \in Data
    BY DEF NoMessage, Message, Data
  <2>2. wakeups \in 0..MaxWakeups
    BY MaxWakeupsAssumption DEF Init
  <2>3. pc \in Pcs /\ ioPc \in IoPcs
    BY DEF Init, Pcs, IoPcs
  <2> QED BY <2>1, <2>2, <2>3 DEF Init, TypeOK
<1>2. OneAnswer /\ MutexHeld /\ LeavesQuiet
  BY DEF Init, OneAnswer, MutexHeld, LeavesQuiet, Quiet
<1> QED BY <1>1, <1>2 DEF ChannelInv, Init

(* Types. *)
LEMMA CallerType ==
    TypeOK /\ Caller => TypeOK'
<1> SUFFICES ASSUME TypeOK, Caller PROVE TypeOK'
  OBVIOUS
<1> USE DEF callVars, fields, TypeOK, Pcs, Returns
<1>1. CASE Send        BY <1>1 DEF Send
<1>2. CASE SendFails   BY <1>2 DEF SendFails
<1>3. CASE Enter       BY <1>3 DEF Enter
<1>4. CASE Test        BY <1>4 DEF Test
<1>5. CASE WakeUp
  <2>1. wakeups' \in 0..MaxWakeups
    BY <1>5, MaxWakeupsAssumption DEF WakeUp
  <2> QED BY <1>5, <2>1 DEF WakeUp
<1>6. CASE Expire      BY <1>6 DEF Expire, TimesOut
<1>7. CASE Reacquire   BY <1>7 DEF Reacquire
<1>8. CASE Leave       BY <1>8 DEF Leave
<1>9. CASE Check       BY <1>9 DEF Check
<1>10. CASE Read
  <2>1. CASE m_hdr
    BY <1>10, <2>1 DEF Read
  <2>2. CASE ~m_hdr
    <3>1. [err |-> FALSE, data |-> m_data] \in [err : {FALSE}, data : Data]
      OBVIOUS
    <3>2. got' = [err |-> FALSE, data |-> m_data] /\ result' = "SUCCESS"
      BY <1>10, <2>2 DEF Read
    <3> QED BY <1>10, <3>1, <3>2 DEF Read
  <2> QED BY <2>1, <2>2
<1>11. CASE Remove      BY <1>11 DEF Remove
<1> QED
  BY <1>1, <1>2, <1>3, <1>4, <1>5, <1>6, <1>7, <1>8, <1>9, <1>10, <1>11
  DEF Caller

(* One answer, complete before m_dataPending is set. *)
LEMMA CallerOneAnswer ==
    OneAnswer /\ Caller => OneAnswer'
<1> SUFFICES ASSUME OneAnswer, Caller PROVE OneAnswer'
  OBVIOUS
<1> USE DEF callVars, fields, OneAnswer, Returns
<1>1. CASE Send        BY <1>1 DEF Send
<1>2. CASE SendFails   BY <1>2 DEF SendFails
<1>3. CASE Enter       BY <1>3 DEF Enter
<1>4. CASE Test        BY <1>4 DEF Test
<1>5. CASE WakeUp      BY <1>5 DEF WakeUp
<1>6. CASE Expire      BY <1>6 DEF Expire, TimesOut
<1>7. CASE Reacquire   BY <1>7 DEF Reacquire
<1>8. CASE Leave       BY <1>8 DEF Leave
<1>9. CASE Check       BY <1>9 DEF Check
<1>10. CASE Read        BY <1>10 DEF Read
<1>11. CASE Remove      BY <1>11 DEF Remove
<1> QED
  BY <1>1, <1>2, <1>3, <1>4, <1>5, <1>6, <1>7, <1>8, <1>9, <1>10, <1>11
  DEF Caller

(* The mutex is held where the code says. *)
LEMMA CallerMutex ==
    TypeOK /\ MutexHeld /\ Caller => MutexHeld'
<1> SUFFICES ASSUME TypeOK /\ MutexHeld, Caller PROVE MutexHeld'
  OBVIOUS
<1> USE DEF callVars, fields, TypeOK, Pcs, IoPcs, MutexHeld, Returns
<1>1. CASE Send        BY <1>1 DEF Send
<1>2. CASE SendFails   BY <1>2 DEF SendFails
<1>3. CASE Enter       BY <1>3 DEF Enter
<1>4. CASE Test        BY <1>4 DEF Test
<1>5. CASE WakeUp      BY <1>5 DEF WakeUp
<1>6. CASE Expire      BY <1>6 DEF Expire, TimesOut
<1>7. CASE Reacquire   BY <1>7 DEF Reacquire
<1>8. CASE Leave       BY <1>8 DEF Leave
<1>9. CASE Check       BY <1>9 DEF Check
<1>10. CASE Read        BY <1>10 DEF Read
<1>11. CASE Remove      BY <1>11 DEF Remove
<1> QED
  BY <1>1, <1>2, <1>3, <1>4, <1>5, <1>6, <1>7, <1>8, <1>9, <1>10, <1>11
  DEF Caller

(* A caller that stopped waiting leaves a quiet channel. *)
LEMMA CallerQuiet ==
    ChannelInv /\ Caller => LeavesQuiet' /\ (~late => fate = "ok")'
<1> SUFFICES ASSUME ChannelInv, Caller PROVE LeavesQuiet' /\ (~late => fate = "ok")'
  OBVIOUS
<1> USE DEF callVars, fields, ChannelInv, OneAnswer, MutexHeld, LeavesQuiet, Quiet, Returns
<1>1. CASE Send        BY <1>1 DEF Send
<1>2. CASE SendFails   BY <1>2 DEF SendFails
<1>3. CASE Enter       BY <1>3 DEF Enter
<1>4. CASE Test        BY <1>4 DEF Test
<1>5. CASE WakeUp      BY <1>5 DEF WakeUp
<1>6. CASE Expire      BY <1>6 DEF Expire, TimesOut
<1>7. CASE Reacquire   BY <1>7 DEF Reacquire
<1>8. CASE Leave       BY <1>8 DEF Leave
<1>9. CASE Check       BY <1>9 DEF Check
<1>10. CASE Read        BY <1>10 DEF Read
<1>11. CASE Remove      BY <1>11 DEF Remove
<1> QED
  BY <1>1, <1>2, <1>3, <1>4, <1>5, <1>6, <1>7, <1>8, <1>9, <1>10, <1>11
  DEF Caller

(* Types. *)
LEMMA IoThreadType ==
    TypeOK /\ (IoThread \/ Lose) => TypeOK'
<1> SUFFICES ASSUME TypeOK, IoThread \/ Lose PROVE TypeOK'
  OBVIOUS
<1> USE DEF callVars, fields, TypeOK, Alive
<1>1. CASE IoFind      BY <1>1 DEF IoFind, IoPcs
<1>2. CASE IoErase     BY <1>2 DEF IoErase, IoPcs
<1>3. CASE Lock        BY <1>3 DEF Lock, IoPcs
<1>4. CASE StoreHdr    BY <1>4 DEF StoreHdr, IoPcs, Message
<1>5. CASE StoreBody
  <2>1. m_data' \in Data
    BY <1>5 DEF StoreBody, Message, Data
  <2> QED BY <1>5, <2>1 DEF StoreBody, IoPcs
<1>6. CASE SetPending  BY <1>6 DEF SetPending, IoPcs
<1>7. CASE Notify      BY <1>7 DEF Notify, IoPcs, Pcs
<1>8. CASE Unlock      BY <1>8 DEF Unlock, IoPcs
<1>9. CASE Dangle      BY <1>9 DEF Dangle
<1>10. CASE Lose        BY <1>10 DEF Lose
<1> QED
  BY <1>1, <1>2, <1>3, <1>4, <1>5, <1>6, <1>7, <1>8, <1>9, <1>10 DEF IoThread

(* One answer, complete before m_dataPending is set. *)
LEMMA IoThreadOneAnswer ==
    OneAnswer /\ (IoThread \/ Lose) => OneAnswer'
<1> SUFFICES ASSUME OneAnswer, IoThread \/ Lose PROVE OneAnswer'
  OBVIOUS
<1> USE DEF callVars, fields, OneAnswer, Alive
<1>1. CASE IoFind      BY <1>1 DEF IoFind
<1>2. CASE IoErase     BY <1>2 DEF IoErase
<1>3. CASE Lock        BY <1>3 DEF Lock
<1>4. CASE StoreHdr    BY <1>4 DEF StoreHdr
<1>5. CASE StoreBody   BY <1>5 DEF StoreBody
<1>6. CASE SetPending  BY <1>6 DEF SetPending
<1>7. CASE Notify      BY <1>7 DEF Notify
<1>8. CASE Unlock      BY <1>8 DEF Unlock
<1>9. CASE Dangle      BY <1>9 DEF Dangle
<1>10. CASE Lose        BY <1>10 DEF Lose
<1> QED
  BY <1>1, <1>2, <1>3, <1>4, <1>5, <1>6, <1>7, <1>8, <1>9, <1>10 DEF IoThread

(* The mutex is held where the code says. *)
LEMMA IoThreadMutex ==
    TypeOK /\ OneAnswer /\ MutexHeld /\ (IoThread \/ Lose) => MutexHeld'
<1> SUFFICES ASSUME TypeOK /\ OneAnswer /\ MutexHeld, IoThread \/ Lose PROVE MutexHeld'
  OBVIOUS
<1> USE DEF callVars, fields, OneAnswer, MutexHeld, Alive
<1>1. CASE IoFind      BY <1>1 DEF IoFind
<1>2. CASE IoErase     BY <1>2 DEF IoErase
<1>3. CASE Lock        BY <1>3 DEF Lock
<1>4. CASE StoreHdr    BY <1>4 DEF StoreHdr
<1>5. CASE StoreBody   BY <1>5 DEF StoreBody
<1>6. CASE SetPending  BY <1>6 DEF SetPending
<1>7. CASE Notify      BY <1>7 DEF Notify
<1>8. CASE Unlock      BY <1>8 DEF Unlock
<1>9. CASE Dangle      BY <1>9 DEF Dangle
<1>10. CASE Lose        BY <1>10 DEF Lose
<1> QED
  BY <1>1, <1>2, <1>3, <1>4, <1>5, <1>6, <1>7, <1>8, <1>9, <1>10 DEF IoThread

(* A caller that stopped waiting leaves a quiet channel. *)
LEMMA IoThreadQuiet ==
    ChannelInv /\ (IoThread \/ Lose) => LeavesQuiet' /\ (~late => fate = "ok")'
<1> SUFFICES ASSUME ChannelInv, IoThread \/ Lose PROVE LeavesQuiet' /\ (~late => fate = "ok")'
  OBVIOUS
<1> USE DEF callVars, fields, ChannelInv, OneAnswer, MutexHeld, LeavesQuiet, Quiet, Alive
<1>1. CASE IoFind
  <2>1. LeavesQuiet'
    BY <1>1 DEF IoFind
  <2> QED BY <1>1, <2>1 DEF IoFind
<1>2. CASE IoErase     BY <1>2 DEF IoErase
<1>3. CASE Lock        BY <1>3 DEF Lock
<1>4. CASE StoreHdr    BY <1>4 DEF StoreHdr
<1>5. CASE StoreBody   BY <1>5 DEF StoreBody
<1>6. CASE SetPending  BY <1>6 DEF SetPending
<1>7. CASE Notify      BY <1>7 DEF Notify
<1>8. CASE Unlock      BY <1>8 DEF Unlock
<1>9. CASE Dangle      BY <1>9 DEF Dangle
<1>10. CASE Lose        BY <1>10 DEF Lose
<1> QED
  BY <1>1, <1>2, <1>3, <1>4, <1>5, <1>6, <1>7, <1>8, <1>9, <1>10 DEF IoThread

LEMMA NextInv == ChannelInv /\ [Next]_vars => ChannelInv'
<1> SUFFICES ASSUME ChannelInv, [Next]_vars PROVE ChannelInv'
  OBVIOUS
<1>1. CASE Next
  BY <1>1, CallerType, CallerOneAnswer, CallerMutex, CallerQuiet, IoThreadType,
     IoThreadOneAnswer, IoThreadMutex, IoThreadQuiet
     DEF Next, ChannelInv
<1>2. CASE UNCHANGED vars
  <2> USE <1>2 DEF vars, callVars, fields
  <2>1. TypeOK'                    BY DEF ChannelInv, TypeOK
  <2>2. OneAnswer' /\ MutexHeld'   BY DEF ChannelInv, OneAnswer, MutexHeld
  <2>3. LeavesQuiet'               BY DEF ChannelInv, LeavesQuiet, Quiet
  <2> QED                          BY <2>1, <2>2, <2>3 DEF ChannelInv
<1> QED BY <1>1, <1>2

(* The caller and produce exclude each other, and the caller leaves the    *)
(* channel only when the I/O thread is done with it, for any number of     *)
(* wake-ups for no reason.                                                 *)
THEOREM ChannelCorrect == Spec => []ChannelInv
BY InitInv, NextInv, PTL DEF Spec

(* notify_one and the release of the mutex come before the end of the      *)
(* caller's frame, unless answers are late.                                *)
THEOREM NotifyFirst == Spec => []NotifyBeforeDestroy
<1>1. ChannelInv => NotifyBeforeDestroy
  BY DEF ChannelInv, NotifyBeforeDestroy
<1> QED BY <1>1, ChannelCorrect, PTL

(* The unlocked reads of m_dataPending, m_hdr and m_data meet no write,    *)
(* unless answers are late.                                                *)
THEOREM NoRace == Spec => []FieldsNotRaced
<1>1. ChannelInv => FieldsNotRaced
  BY DEF ChannelInv, MutexHeld, LeavesQuiet, Quiet, FieldsNotRaced, Writing,
         Reading
<1> QED BY <1>1, ChannelCorrect, PTL

-----------------------------------------------------------------------------
LEMMA RefinesInit == Init => Mailbox!MailboxInit
BY DEF Init, Mailbox!MailboxInit, Mailbox!Empty, Nothing

(* Steps of the caller: sending asks, the look at m_dataPending gives up,  *)
(* the last step returns; all others are invisible.                        *)
LEMMA RefinesCaller ==
    ChannelInv /\ Caller => [Mailbox!MailboxNext]_(Mailbox!mailboxVars)
<1> SUFFICES ASSUME ChannelInv, Caller
             PROVE  [Mailbox!MailboxNext]_(Mailbox!mailboxVars)
  OBVIOUS
<1> USE DEF fields, callVars, Mailbox!MailboxNext, Mailbox!mailboxVars
<1>1. CASE Send        BY <1>1 DEF Send, Mailbox!Ask
<1>2. CASE SendFails
  BY <1>2 DEF SendFails, Returns, Mailbox!AskFails, Mailbox!Return,
              Mailbox!Empty, Nothing
<1>3. CASE Enter       BY <1>3 DEF Enter
<1>4. CASE Test        BY <1>4 DEF Test
<1>5. CASE WakeUp      BY <1>5 DEF WakeUp
<1>6. CASE Expire      BY <1>6 DEF Expire
<1>7. CASE Reacquire   BY <1>7 DEF Reacquire
<1>8. CASE Leave       BY <1>8 DEF Leave
<1>9. CASE Check
  BY <1>9 DEF Check, Mailbox!GiveUp, Mailbox!Empty, Nothing
<1>10. CASE Read
  BY <1>10 DEF Read, Returns, ChannelInv, TypeOK, OneAnswer, Data,
               Mailbox!Take, Mailbox!Return, Mailbox!Empty, Nothing
<1>11. CASE Remove
  BY <1>11 DEF Remove, Returns, Mailbox!TimeOut, Mailbox!Return,
               Mailbox!Empty, Nothing
<1> QED
  BY <1>1, <1>2, <1>3, <1>4, <1>5, <1>6, <1>7, <1>8, <1>9, <1>10, <1>11
     DEF Caller

(* Steps of the I/O thread: the answer appears when m_dataPending is set.  *)
LEMMA RefinesIoThread ==
    ChannelInv /\ (IoThread \/ Lose)
        => [Mailbox!MailboxNext]_(Mailbox!mailboxVars)
<1> SUFFICES ASSUME ChannelInv, IoThread \/ Lose
             PROVE  [Mailbox!MailboxNext]_(Mailbox!mailboxVars)
  OBVIOUS
<1> USE DEF fields, callVars, Alive, ChannelInv, OneAnswer,
        Mailbox!MailboxNext, Mailbox!mailboxVars
<1>1. CASE IoFind      BY <1>1 DEF IoFind
<1>2. CASE IoErase     BY <1>2 DEF IoErase
<1>3. CASE Lock        BY <1>3 DEF Lock
<1>4. CASE StoreHdr    BY <1>4 DEF StoreHdr
<1>5. CASE StoreBody   BY <1>5 DEF StoreBody
<1>6. CASE SetPending
  <2> DEFINE a == [err |-> m_hdr, data |-> m_data]
  <2>1. a \in Mailbox!Answer
    BY DEF TypeOK, Data, Mailbox!Answer
  <2>2. Mailbox!Put(a)
    BY <1>6 DEF SetPending, Mailbox!Put, Mailbox!Empty, Nothing
  <2> QED BY <2>1, <2>2
<1>7. CASE Notify      BY <1>7 DEF Notify
<1>8. CASE Unlock      BY <1>8 DEF Unlock
<1>9. CASE Dangle      BY <1>9 DEF Dangle
<1>10. CASE Lose       BY <1>10 DEF Lose
<1> QED
  BY <1>1, <1>2, <1>3, <1>4, <1>5, <1>6, <1>7, <1>8, <1>9, <1>10 DEF IoThread

(* produce and consume, statement by statement and with unlocked reads,    *)
(* implement the mailbox: an answer is stored whole, at most once, and the *)
(* method returns what it says.                                            *)
THEOREM ChannelIsMailbox == Spec => ImplementsMailbox
<1>1. ChannelInv /\ [Next]_vars => [Mailbox!MailboxNext]_(Mailbox!mailboxVars)
  BY RefinesCaller, RefinesIoThread
     DEF Next, vars, callVars, fields, Mailbox!mailboxVars
<1> QED
  BY <1>1, RefinesInit, ChannelCorrect, PTL
     DEF Spec, ImplementsMailbox, Mailbox!Spec
=============================================================================
