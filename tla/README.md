# Verification of serf-cpp

TLA+ models of the serf RPC client library, the TLC runs that check them and
the theorems TLAPS proves about them. Paths are relative to the repository.

## 1. The system

serf-cpp is a C++ client for the RPC interface of a serf agent. An application
creates a `SerfClient`, calls `Connect`, issues RPC methods from any of its
threads, and may register listeners for log records (`Monitor`), events
(`Stream`) and query responses (`Query`).

| Component | State | Operations | Interacts through |
|---|---|---|---|
| `SerfClient` (`src/SerfClient.cpp`) | none of its own; each method has a local `seq` and, on its stack, a `ResultChannel` | `Connect`, `Close`, `IsConnected`, 19 RPC methods of one shape: `sendData`, `consume`, then return what `m_dataPending` and `m_hdr.Error` say, or `removeChannel` and `TIMEOUT` | calls into `SerfIoThread`; pointer to the stack channel |
| `SerfIoThread` (`src/SerfIoThread.cpp`) | `m_socket`, `m_thread`, `m_shutdown`, `m_seq`, `m_channels` (number to channel pointer, under `m_mutex`), `m_unpacker` | `Connect` (starts the thread, then handshake), `Close` (join), `sendData`, `add*Channel`, `removeChannel`, `processRpc` | socket; `m_channels`; `produce` |
| Channels (`src/SerfChannel.h/.cpp`) | `ResultChannel`: `m_hdr`, `m_data`, `m_dataPending`, mutex, condition variable. Listener channels: a listener pointer | `produce` (I/O thread), `consume` (caller, 5 s) | condition variable; listener callbacks on the I/O thread |
| Message structs (`include/serf-cpp/SerfMsgStructs.h`) | data | msgpack maps by key, equality, printing | the wire |
| Listeners (`include/serf-cpp/ISerfListener.h`) | application code | callbacks | may call the client again |
| Agent | not in this repository | answers, records, end of a query | TCP stream |
| Example, tests, build and CI | - | - | - |

What is hard here:

* **Lifetime.** `m_channels` holds pointers into stack frames of other threads.
  They are erased by the I/O thread when an answer comes, by the caller when it
  times out, or never; `processRpc` uses the pointer after it has let go of
  `m_mutex`.
* **Ordering.** A listener is registered after its caller has woken up, while
  records may be right behind the answer. A read may end between a header and
  its body.
* **Numbers.** `Close` sets `m_seq` back to 0, without `m_mutex`, and leaves
  `m_channels` as it is.
* **Threads.** Callbacks run on the I/O thread; `m_dataPending` is read without
  its mutex; `Close` may come under calls of other threads.
* **Bytes.** Objects arrive in any pieces and may be larger than the buffer;
  several reads fill it before any of it is decoded; the unpacker outlives the
  connection.
* **Failures.** Errors, silence, late answers, failing sends, bodies that do
  not convert, a connection the agent closes, reconnects.

Correctness, per component: the *map* never points to a dead channel and an
answer under a number finds the caller that used it; a *result channel* hands
over one answer, the right one and whole, and outlives the signal; the *receive
loop* hands on what the agent wrote, whole and in order; a *listener channel*
gets its own records, all of them, and is not deleted while in use; *calls and
Close* return. `PROJECT.json` lists each hazard at its line with the
properties that cover it.

## 2. Modules

The system, each module extending the one before it:

| Module | Models | State |
|---|---|---|
| `SerfProtocol` | commands, message objects, pointers to channels, the environment (`Faults`) | - |
| `SerfAgent` | the agent as the library uses it (external) | `wire`, `requests`, `subs`, `sent` |
| `SerfChannel` | `ResultChannel`, `LogChannel`, `EventChannel`, `QueryChannel` and their lifetime | `pc`, `cmd`, `seq` (frames of calls), `reply` (`m_hdr`, `m_data`, `m_dataPending`), `heap`, `unpacker`, `ioPc`, `hdr`, `channel`, `obj`, `fate` |
| `SerfIoThread` | `sendData`, `add*Channel`, `removeChannel`, `processRpc` | `m_socket`, `m_thread`, `m_shutdown`, `m_seq`, `m_channels` |
| `SerfClient` | RPC methods, `Connect`, `Close`, application threads; composition, fairness, properties | `owner`, `arg`, `result`, `active`, `closing` |
| `SerfInvariants` | the invariants, in layers, that carry the safety properties | - |
| `MCSerfClient` | command sets and environments for TLC | - |

The abstract specification and the two parts looked at more closely:

| Module | Models | State |
|---|---|---|
| `SerfMailbox` | what a call promises: it asks once, one answer is stored, it returns once, with what the answer says or with a timeout | `phase`, `slot`, `got`, `result` |
| `SerfResultChannel` | `produce`, `consume` and the method around them statement by statement: mutex, condition variable, spurious wake-ups, timeout, end of the frame | `m_mutex`, `m_hdr`, `m_data`, `m_dataPending`, `pc`, `ioPc`, ... |
| `SerfReceive` | the receive loop and the unpacker byte by byte, over several connections | `arrived`, `count`, `buffer`, `unpacker`, `ioPc`, `m_shutdown`, ... |

Proofs of the composed system, each module extending the one before it:
`SerfClientProofs` (types, the map), `SerfCallProofs` (calls as mailboxes),
`SerfTrafficProofs` (what is in transit), `SerfNumberProofs` (numbers and
answers), `SerfListenerProofs` (listeners, the life of channels) and
`SerfRecordProofs` (records). Proofs of the other two: `SerfResultChannelProofs`
and `SerfReceiveProofs`.

How they fit together:

* `SerfMailbox` is implemented twice. `SerfResultChannel` refines it (property
  `ImplementsMailbox`) by `slot <- IF m_dataPending THEN [m_hdr, m_data]`; each
  call of `SerfClient` refines it too (`CallsAreMailboxes`, one instance
  `Mailbox(c)` per call). So the large steps of `SerfChannel` and `SerfClient`,
  `Store` for the body of `produce` and `Consume` for a whole wait, show a caller
  nothing that the statements of the code would not show it.
* `SerfIoThread` reads whole objects. `InStep` of `SerfReceive` is why it may:
  what the loop hands on are the agent's objects, whole and in order. It holds
  until a connection ends inside an object; `v_leftover` shows what happens then.

How the code is cut into steps in `SerfClient`: one critical section, or one
stretch of code that touches no shared state, is one step. An RPC method is
`Call` (`sendData`, under `m_mutex`), `Consume` (the wait ends, with the
channel's mutex in hand), `CheckPending` (the read of `m_dataPending` and
`m_hdr` without the mutex), and `RemoveTimedOut`, `Register` or `Unlisten`.
`processRpc` is `IoTop`/`IoExit`, `IoReceive`/`IoIdle`, and per object `IoLookup`
(under `m_mutex`), `IoErase`, `IoProduce`, then `IoNotify` for a result channel,
or `IoCallbackReturn` and `IoDeregister` for a listener. `IoErase` and
`IoProduce` first need the channel to be alive; otherwise `IoDangle` sets `fate`
to `"dangling"` and the behaviour ends there, because a program that used a
destroyed object has no defined future. `fate` also records `std::terminate`,
`FD_SET(-1)` and the end of the process by `SIGPIPE` (`SendKills`: the `send` of
a method, or of the handshake when the agent has closed the new connection and
another thread's request has drawn the reset).

`m_socket` tells apart what the code cannot see: `"open"`, `"shut"` (the agent
closed its end: what it wrote can be read, then `read` returns 0 at once and the
loop spins through `IoIdle`), `"reset"` (the client wrote after that; the next
write raises `SIGPIPE`), `"stale"` (closed, the number kept) and `"none"` (-1).
`IsConnected` is `m_socket # "none"`, as in the code, and so stays true after
`Close` although `include/serf-cpp/SerfClient.h:68` speaks of an established
connection.

`Close` from a listener (`ListenerCloses`) sets `m_shutdown`, then `join` finds
the calling thread itself and throws; the exception leaves the listener and is
swallowed by `QueryChannel::produce`, `EventChannel::produce` or `processRpc`.
The I/O thread goes on to the top of its loop and ends. `m_shutdown` stays set.
If a repeated `Connect` has failed meanwhile, `m_socket` is -1, `IsConnected` is
false, and `Close` joins nothing: it clears `m_shutdown`, sets `m_seq` to 0 and
returns to the listener.

`Close` by the application is `CloseBegin` and, when the I/O thread has ended,
`CloseEnd`. It may always come while a listener is in a call of its own; the
listener may also begin one while `Close` waits. That it comes while another
*application* thread is in a call is the behaviour `busyClose`. The reset of
`m_seq` is not under `m_mutex` and may be lost in the `m_seq++` of a `sendData`
(`ResetSeq`) where another thread may be in one.

`active` is what the application knows: the numbers `Monitor` and `Stream` have
returned since the last `Connect`. `Stop` is given one of them or, with
`anyStop`, any number, one that an earlier connection returned included; the
code checks none of this.

A call is a constant used at most once. A pointer to the frame of a finished
call therefore stays different from a pointer to a new frame, where the real
program might see the same address reused; the model reports the dangling use
itself, so nothing is missed. Pointers, objects and calls carry the identity of
the request they belong to; no action decides anything by it, except that the
struct conversion by keys (`Understands`) looks at the kind of record.

In `SerfReceive` a byte knows its connection, its object, its place in it and
the object's size. `m_unpacker.next` takes as many bytes as the object at the
head has (`Decode`); in the middle of an object it may take any bytes for an
object, or throw outside the `try` block (`Misread`). Between a read and
`buffer_consumed` the bytes lie in the buffer uncommitted. `reserve_buffer` is
called for the whole buffer before each read and moves nothing as long as that
much memory is free, which it is until `buffer_consumed`. The message about a
buffer that is too small (`SerfIoThread.cpp:113`) is dead code: `TypeOK` bounds
`count` by the buffer, and a larger answer simply takes several passes.

`Faults` names what the environment of an instance may do; the list with the
meaning of each member is in `SerfProtocol`. The proofs hold for every subset.

## 3. Runs

Runs of the composed system use `MCSerfClient`. `Calls` are model values used
one after the other, the first of which is always a `Connect`. Bounds: the
number of calls, `MaxSeq` (one number per call suffices) and `MaxRecords` = 1
(records the agent sends). Two calls besides the handshake are what a race over
an entry or a number needs; three are what a reconnect needs. Calls are taken
in a fixed order (`Fresh`), which is the symmetry reduction. Deadlock checking
is off because an application that has made its last call and closed simply
stops.

| Run | Instance | Checks |
|---|---|---|
| `prompt` | 3 calls, 2 threads, one of which does not wait for `Connect`; `Members`/`Stream`/`Query`/`Stop`, errors and silence, the agent may close its end, a stale socket number may name another file; 999,000 states | `NoDangling`, `AnswerFindsCaller`, `RecordFindsListener`, `DeletedNotInUse`: with an agent that is in time the code is right, in particular because `produce` notifies under the lock; and the invariants their proofs rest on, `ListenerInv`, `StopInv`, `RecordInv` |
| `hostile` | 3 calls, 2 threads; late and split answers, `Stop` with any number, `Close` under calls; 747,000 states | `ReplyMatches`: an answer still goes to the call that asked; `MapInv`: the map stays sound; `CallsAreMailboxes`. Records may go astray here (section 5, `busyClose`) |
| `reconnect` | 4 calls, 2 threads; two connections, failing sends, split answers, errors without bodies, late records and records at once, repeated `Connect`, `Close` from a listener; 871,000 states | `TypeOK`, `MapInv`, `RegisteredAlive`, `ReplyMatches`, `ListenerHearsOwn`, `AnswerFindsCaller` across the reset of `m_seq`; `LeaksOnlyReused`: a listener's channel leaks only when a later connection hands out its number again; `TransitInv`, `NumberInv`: what is in transit belongs to a call with that number, and calls in progress, two at a time on either connection, have numbers of their own |
| `methods` | 3 calls, all 19 methods, errors without bodies, bodies that do not convert; 477,000 states | `DataComplete`: success of a data method means the agent's body; `PairInv`: headers and bodies are decoded in step |
| `live` | 3 calls, 2 threads, `FairSpec`; the agent may be silent or close the connection, listeners call the client and `Close`, and `Close` may come while a listener waits in a call; 52,000 states | `CallsReturn`, `CloseReturns`, `AnsweredUnlessBlocked`, `RecordIsHeard`, `FinishedQueryIsFreed` |
| `mailbox` | `SerfResultChannel`, 2 spurious wake-ups, answers late or in time | `ChannelInv`, `NotifyBeforeDestroy`, `FieldsNotRaced`, `ImplementsMailbox`, `CallReturns` |
| `receive` | `SerfReceive`, a buffer of 4 bytes, objects of 1, 3 and 6, 2 objects on each of 2 connections: an object that fits, one that leaves room for part of the next, one larger than the buffer; 160,000 states | `TypeOK`, `InStep`, `AllDecoded` |

Five runs end in a counterexample, each a place where the code does not do what
its documentation says (`PROJECT.json`, findings):

* `v_dangling`: the answer arrives while its call times out. The I/O thread has
  the pointer, the method returns, `produce` writes into a dead frame.
* `v_record`: a record right behind the answer to `Stream` is looked up before
  `addEventChannel` and lost.
* `v_split`: the read ends between header and body; `Members` returns `SUCCESS`
  with no data.
* `v_leftover`: a connection ends inside an object. `m_unpacker` keeps the part
  that was read and completes it with the first bytes of the next connection.
* `v_respond`: `Respond` called from a query listener, as the example does,
  always returns `TIMEOUT`: the thread it waits for is the one that waits.

Which properties hold depends on the environment; section 5 says on which parts
of it, and what goes wrong otherwise. Each run but one stays within the
conditions of the theorems about its safety properties, so they hold beyond its
bounds. `prompt` goes further, within its bounds: it has calls during `Connect`
(`earlyCall`) and a reused socket number (`fdReuse`). Both need an answer, or the
body of one, that nobody waits for to do harm (section 5), and the agent of
`prompt` leaves none behind.

`NotifyBeforeDestroy` and `FieldsNotRaced` say under which condition the
statements of `ResultChannel` are safe: no late answer (`late` is chosen once
per behaviour). With late answers the frame may end under `produce`, as
`v_dangling` shows for the composed system, and the unlocked reads after the
wait race with `produce`. `ImplementsMailbox` holds with late answers too:
even a call that reads its mailbox unlocked finds it empty or complete.
`FieldsNotRaced` counts the reads after the wait only where answers are in time.
A method that finds `m_dataPending` set after its wait timed out returns the
answer; its entry was erased by the I/O thread, so nothing is left behind.

Every property has a mutant in `PROJECT.json`: a defined alternative to one
action or helper, the kind of slip the code could have, under which TLC finds
the property violated. Mutant operators stand next to the original and are
marked as such.

## 4. Fairness

`Fairness` of `SerfClient` is weak fairness of every call's next step, of the
handshake, of the end of `Close`, of the I/O thread as a whole, and of the
agent's handling of requests. The code justifies the first four: no thread holds
a mutex across a blocking call, waits are bounded by `TIMEOUT_SECONDS`, `select`
by 50 ms, and the operating system runs runnable threads. A listener is assumed
to return; one that waits in a call of its own does so when that wait ends, and
with it a `Close` that is joining the I/O thread (`CloseReturns`). Handling a request includes giving it up (`AgentDrop`), so the agent
is not assumed to answer: it stands for the passing of the time after which an
unanswered wait ends. Records, new calls, `Close` and the end of the connection
are not fair. `TimesOut` lets a wait end without an answer only when none is on
its way (or the I/O thread is inside a listener that waits itself), unless
`lateAnswer` is given. `AnsweredUnlessBlocked` excepts exactly that: an I/O
thread that waits inside a listener (the subject of `v_respond`), and a
connection that is being closed.

In `SerfResultChannel` the steps of the caller that need no mutex, each
acquisition of the mutex, the timeout and the I/O thread are weakly fair; a
mutex held is always released by a fair step, so weak fairness of the
acquisitions suffices. Spurious wake-ups are not fair and bounded: each starts
the five seconds anew, and a condition variable that woke up for ever would keep
the call for ever. In `SerfReceive` only the I/O thread is fair; `AllDecoded` is
about bytes that have arrived.

## 5. Proofs

Checked by TLAPS, for every finite or infinite set of calls and threads, all
bounds, all buffer sizes and sizes of objects, and all environments, unless a
theorem names the behaviours it excludes. Assumptions: the named ASSUMEs of
`SerfProtocol` (distinct constants, known commands and faults, natural bounds),
`SerfResultChannel` (a natural bound) and `SerfReceive` (a positive buffer size,
positive sizes, natural bounds).

`SerfClientProofs`:

* `TypeCorrect == Spec => []TypeOK`. Besides types, `TypeOK` says that the I/O
  thread has a channel and a header exactly while it handles a message, and is
  at the top of its loop when its thread does not run.
* `MapCorrect == Spec => []MapInv` and `MapSound == Spec => []RegisteredAlive`.
  `RegisteredAlive` is not inductive: that an entry's channel is alive now says
  nothing about the return of its call. `MapInv` adds what makes it so:
  - `RequestEntries`: an entry for a request is under the number of its call,
    which still waits, unanswered; so the two ways to return each remove it,
    the timeout by `removeChannel(seq)`, the answer because the I/O thread
    erased it before it stored the answer;
  - `ListenerEntries`: a listener's entry is under the number of the call that
    made it, so deleting one channel never empties another entry;
  - `AnswersKeepNumbers`: an answer carries the number of its request, so
    `add*Channel(m_hdr.Seq)` overwrites no other entry;
  - `RequestInHand`: the header in the I/O thread's hand names the call it is
    answering, and its entry is gone before the answer is stored.

  There is one lemma per operation on the map (`MapInvSend`, `MapInvRemove`,
  `MapInvAdd`, `MapInvErase`, ...), one for steps that leave it alone
  (`MapInvFrame`), one for calls that move on (`MapInvMove`), and the step
  lemmas combine them action by action.

  The theorem holds with every fault, the reset of `m_seq` and `Close` under
  waiting calls included. What it does not cover is a pointer the I/O thread
  took out of the map earlier: that is `NoDangling`, which `v_dangling` refutes.

`SerfCallProofs` builds on these invariants:

* `CallsImplementMailbox == Spec => CallsAreMailboxes`: every call implements
  `SerfMailbox`, in every environment, late answers, reconnects and `Close`
  under calls included. The inductive invariant is `CallInv`: what a call has
  returned and whether it was answered agree with how far it is
  (`CallProgress`), and an answer the I/O thread is about to store is for a
  call without one (`AnswerInHand`). The latter is where the map comes in: by
  `RequestInHand` the entry of an answered call is gone, so no second answer
  finds it.

`SerfResultChannelProofs`:

* `ChannelCorrect == Spec => []ChannelInv`. `ChannelInv` is inductive: the
  mutex is held exactly in the stretches the code locks (`MutexHeld`), the
  answer is handled once and is complete when `m_dataPending` is set
  (`OneAnswer`), and a caller that has stopped waiting in time knows that
  `produce` is over (`LeavesQuiet`). The last follows from the mutex: a caller
  gets it back only when the I/O thread has left `produce`.
* `NotifyFirst`, `NoRace` (`NotifyBeforeDestroy` and `FieldsNotRaced`) are
  consequences.
* `ChannelIsMailbox == Spec => ImplementsMailbox`: each step is a step of the
  mailbox or a stutter; `SetPending` is the one that stores.

`SerfReceiveProofs`:

* `BufferFits == Spec => []TypeOK` (of `SerfReceive`): the reads of one pass
  never overrun the buffer.
* `FramingCorrect == Spec => []InStep`. The inductive invariant `FrameInv` says
  that what lies in the unpacker, in the buffer and in the socket, one behind
  the other (`Pending`), is a stretch of the agent's bytes without gap or
  repetition, which begins at the first byte of the next object to be handed
  out and ends at the last byte written; and that nothing is left over where no
  connection has ended inside an object. `Arrive` extends the stretch, `Read`
  and `BufferConsumed` move its parts, `Decode` cuts an object off its front.
  That the first `size` bytes are one object would take an induction along the
  stretch; `Stretch` carries that fact along instead, and `Arrive` keeps it
  (lemmas `StretchAppend`, `StretchRest`, `StretchFirst`).

The other safety properties of the composed system are not true in every
environment. Their theorems have the form `Without(F) => (Spec => []P)`: if
none of the behaviours in `F` may happen. `Without` restricts the constant
`Faults` and nothing else; whatever is not in `F` may happen, for any number of
calls, threads, records and connections.

| Module | Theorem | Property | `F` |
|---|---|---|---|
| `SerfTrafficProofs` | `TransitCorrect`, `OrderCorrect`, `PairCorrect` | `TransitInv`, `OrderInv`, `PairInv` | none |
| `SerfNumberProofs` | `NumberCorrect` | `NumberInv` | `busyClose` |
| | `LeaksOnReuse` | `LeaksOnlyReused` | `busyClose` |
| | `RepliesMatch` | `ReplyMatches` | `earlyCall`, `fdReuse` |
| | `DataIsComplete` | `DataComplete` | `earlyCall`, `fdReuse`, `splitRead` |
| `SerfListenerProofs` | `ListenerCorrect`, `ListenersHearOwn` | `ListenerInv`, `ListenerHearsOwn` | `busyClose`, `earlyCall`, `fdReuse` |
| | `AnswersFindCallers` | `AnswerFindsCaller` | these, `anyStop` |
| | `StopCorrect`, `DeletedOutOfUse` | `StopInv`, `DeletedNotInUse` | these, `lateRecord` |
| | `NeverDangles` | `NoDangling` | these, `lateAnswer`, `reentrant`, `earlyRecord` |
| `SerfRecordProofs` | `RecordCorrect`, `RecordsFindListeners` | `RecordInv`, `RecordFindsListener` | these, `bareError` |

The invariants are in `SerfInvariants`, one layer for each kind of fact, each
inductive relative to the layers before it:

1. `ThreadInv`, `OwnerInv`, `TransitInv`: nothing is in transit without a thread
   to read it (the I/O thread ends when all it has read is decoded, and what is
   unread goes with the socket), and a request, a subscription, an unread header
   or the header in hand carries the number of the call it belongs to, a number
   below `m_seq`.
2. `OrderInv`: the answer to a call is the first that is decoded of it.
3. `PairInv`: a header is followed by its body, unless a read parted them, so
   that `produce` and `processRpc` stay in step although each takes from the
   unpacker what comes next.
4. `NumberInv`: calls in progress have numbers of their own. `m_channels` is not
   emptied when `m_seq` goes back to 0; what matters is that a number is handed
   out again only when no call of the earlier connection is left. For the calls
   of listeners that is so because `Close` joins the I/O thread. Where it does
   not join (`Stranded`: a failed `Connect` left `m_socket` at -1 and the thread
   joinable) `m_seq` may go back under a listener's call, but nothing can be
   sent any more.
5. `ZeroInv`, `ConnectInv`, `MatchInv`, `StoredInv`: a body that is decoded as a
   header has number 0, so number 0 must belong to the handshake, which has
   been answered before any body is sent.
6. `ListenerInv`: no number in transit is shared with a call in progress, and
   what a listener's entry is used for is that listener's.
7. `ActiveInv`, `WaitInv`: the numbers `Stop` may name are not those of calls in
   progress, so the only ones to take a waiting call's entry away are the I/O
   thread with its answer and the call itself.
8. `StopInv`: nothing under the number a `Stop` names comes after its answer, so
   `Stop` deletes a channel the I/O thread is done with.
9. `PatienceInv`: a call gives up only when no answer is due; the call whose
   channel the I/O thread holds waits.
10. `LastInv`, `RecordInv`: until the listener is registered the answer that
    lets its call register it is underway or stored, and the end of a query is
    the last message that comes of it.

Why the conditions are there. For each of these TLC finds a counterexample to
the property named when the behaviour is allowed again, with two to five calls:

* `busyClose` (`Close` under calls of other application threads; `LeaksOnlyReused`,
  `AnswerFindsCaller`, `ListenerHearsOwn`, `NoDangling`): a `Stream` waits under
  number 1; `Close`, `Connect`, and a `Query` gets number 1 too. When the
  `Stream` times out, its `removeChannel(1)` deletes the listener of the
  `Query`, perhaps while the I/O thread has it in hand. Had it been answered, it
  would register its own listener in the other's place.
* `earlyCall` (`ReplyMatches`, `DataComplete`, `AnswerFindsCaller`,
  `DeletedNotInUse`, `ListenerHearsOwn`): `Members` times out during `Connect`.
  Its answer comes late, the header finds no entry, the body is decoded as a
  header with number 0 and no error, and the handshake takes it for its answer.
  If another thread's call got number 0, it is that call that believes it was
  answered; if that call was a `Monitor`, its listener is called for the body of
  any answer that a read parted from its header.
* `fdReuse` (`ReplyMatches`, `DataComplete`, `ListenerHearsOwn`, `NoDangling`;
  for `AnswerFindsCaller` TLC found no counterexample): number 0 was given to a
  call whose `send` went to a file that now has the old socket's number. It takes
  such a body for its answer, or gives up while that body is in the I/O thread's
  hand.
* `splitRead` (`DataComplete`): the run `v_split`.
* `anyStop` (`AnswerFindsCaller`, `DeletedNotInUse`, `NoDangling`):
  `Stop` removes whatever it is told to. A number of an earlier connection is
  enough for the last two: `Stream` returns 1; `Close`, `Connect`, `Query` gets 1, and a
  `Stop(1)`, which the agent confirms, deletes the channel of the `Query` under
  the I/O thread.
* `lateRecord` (`DeletedNotInUse`, `NoDangling`): a record the agent sent after
  it confirmed the `Stop` is looked up before `removeChannel`.
* `lateAnswer` (`NoDangling`): the run `v_dangling`. `reentrant`: while a
  listener waits in a call of its own the answers to others lie unread and they
  time out, with the same result.
* `earlyRecord` (`RecordFindsListener`, the run `v_record`; `NoDangling` together
  with `bareError`): a call whose answer was swallowed gives up while a record
  under its number is in the I/O thread's hand, which takes it for the answer.
* `bareError` (`RecordFindsListener`): `produce` takes the object after an error
  answer without body for the body. If that is the answer to a `Stream`, the
  `Stream` times out and its records come.

The step lemmas follow one pattern. `NothingNew` and `TrafficKept`
(`SerfTrafficProofs`) sum up what every step but those of the agent and of
`sendData` does to what is in transit; `Sends`, `Answered` and `Published` are
what those do. `EntrySteps`, `CallSteps`, `ReplySteps`, `HandSteps` and the like
say, for one variable at a time, which steps change it and how. An invariant is
then a matter of a few cases instead of every action of `Next`.

Only model-checked: all liveness (`CallsReturn`, `CloseReturns`,
`AnsweredUnlessBlocked`, `RecordIsHeard`, `FinishedQueryIsFreed`, `CallReturns`,
`AllDecoded`), which rests on fairness and ENABLED and is out of the prover's
reach. Every safety property a passing run checks is stated by a theorem.

## 6. Not modelled

* A `send` that writes only part of a message: it takes a full socket buffer,
  that is, an agent that does not read for long. The agent would then read a
  broken stream, about which the library assumes nothing.
* The C++ memory model: the unlocked reads of `m_dataPending`, `m_hdr` and
  `m_shutdown` are atomic reads of the current value. `FieldsNotRaced` says
  when the first two meet no write; a compiler that keeps `m_shutdown` in a
  register is outside the model.
* A spurious wake-up of the condition variable within the composed system
  (`SerfResultChannel` has them).
* Field contents, equality and printing of the message structs: plain data that
  no operation of the client decides anything by. (`operator==` of `Member`,
  `SerfMsgStructs.h:230`, compares `DelegateMin` twice and `DelegateCur` never;
  a unit test is the tool for that.)
* The command line client, beyond its listener that calls `Respond`; the tests;
  build files.

## 7. Plan

Done: the composed system; `ResultChannel` and every call as implementations of
one abstract mailbox; framing byte by byte; the agent closing the connection and
`Close` from a listener; theorems for every safety property the runs check. What
is left:

1. A refinement from `SerfReceive` to the queue of objects of `SerfIoThread`
   (`InStep` is its safety half).
2. `AnswersFindCallers` without the condition `fdReuse`, which TLC found no need
   for with up to four calls.
