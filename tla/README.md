# Formal models of ssp-server

TLA+ models of `decapod-atm/ssp-server`: a host-side server that drives an ITL
bank-note acceptor over a serial line (the SSP/eSSP protocol of the `ssp` crate)
and offers it to clients over a UNIX socket (JSON-RPC). Paths below are relative
to the repository; line numbers without a file are those of
`src/src/device_handle.rs`.

## 1. The system

| Component | Where | State it keeps | Operations |
|---|---|---|---|
| Event parser | `src/device_handle/inner.rs`, `src/macros.rs` | the process-wide flags `ESCROWED`, `ESCROWED_AMOUNT`, `CASHBOX_ATTACHED`, `UNSAFE_JAM`; its index into the response | `parse_events` |
| Push event queue | 212-228 | an unbounded channel | `send` (by the parser), `pop_event`, dropping the receiver |
| Background polling | 313-575 | `POLLING_INIT`, `stop_polling`, one thread per start | automatic (`start_background_polling`) and interactive (`..._with_queue`) |
| Handle operations | 864-1836 | `RESET_TIME`, `DISPENSING`, the escrow flags | `stack`, `reject`, `poll`, `reset`, `full_reset`, `on_dispense`, `set_encryption_key` and some thirty that send one command |
| Locks | 973-998 | a mutex around the `TTYPort` (10 s), one around the AES key (5 s) | `lock_serial_port`, `lock_encryption_key` |
| SSP transport | 1839-1998 | `SEQ_FLAG`, the line's input buffer | `poll_message_variant`, `poll_encrypted_message` |
| Key negotiation | 246-291, 1001-1096, 1478-1586 | generator, modulus, random, fixed and session keys | `negotiate_key`, `renegotiate_key`, `set_key`, `set_encryption_key`, `encryption_reset` |
| JSON-RPC server | `src/server.rs`, `on_*` of `device_handle.rs` | listener, bus, `STOP_SERVING_CLIENT`, the JSON-RPC id, a thread per client | `accept`, `on_message` |
| Server setup | `src/server.rs` 52-138 | reset counter, protocol version | `new_auto`, `new_uds`, with `enable_device` |
| Mock device, binaries | `src/mock.rs`, `src/bin/` | | test double, entry points |

The threads meet in four places. The two mutexes order all exchanges with the
device; the flags, statics of the process, tell the polling thread what the
operations have done; the channel carries what the device reports to the accept
loop, which copies it to a bounded bus; and the clients' threads take turns with
the handle behind a third mutex. The device is an actor too: *a poll stacks the
note that is in escrow*, so a poll at the wrong moment takes somebody's money.
That is what the flags, the locks and the `hold` command are there to prevent,
and it is the core of what is modelled.

### What is hard, and what correct means

* **Polling against decisions.** Between reading `ESCROWED` and `DISPENSING`
  and sending the poll nobody may change them. A note leaves the escrow only by
  a client's decision; `stack` returns the value of the note it has stacked; the
  flags agree with the device whenever the port is free.
* **Locks with timeouts.** Every operation takes the port and then the key,
  except `set_encryption_key`, which takes them in the opposite order. Every
  path through an error, a timeout or a `continue` must drop what it holds.
  Operations must return.
* **Long recoveries.** A jam keeps the port for 15 s, `full_reset` waits 20 s
  without it and up to 60 s with it, and `RESET_TIME` silences the polling
  thread meanwhile. Jams must end, resets must end, notes must be announced.
* **Responses with several events.** The flags must follow the last event that
  speaks of them; the application must hear of a lost cashbox once, although
  devices repeat the event and its end is inferred; the parse must end.
* **Threads that come and go.** A note that one polling thread has read must be
  held by the one that follows it; a stopped thread must end, also out of a
  recovery.
* **One reply per command.** The reply that a call returns must answer its own
  command, which the device must have executed once, with a sequence flag that
  is toggled when a message is written and an input buffer that keeps what came
  late.
* **One key on both sides.** Host and device make the session key each for
  themselves, in steps that may be refused, lost or overtaken by polls.
* **Many clients, one handle.** The JSON-RPC id and `STOP_SERVING_CLIENT` are
  globals, the bus blocks when a receiver is full, and `try_lock` is not fair.
* **A setup that gives up.** `new_uds` retries a sequence of commands with full
  resets in between, up to `MAX_RESETS`.

Every hazard is listed at its line in `PROJECT.json`, with the properties that
would catch it, or the reason why none does: where the code does go wrong, the
property that says so is violated (section 3).

## 2. Modules

| Module | Models | Corresponds to |
|---|---|---|
| `EventParser` | one iteration of the loop of `parse_events` | `data`, `idx`: the response in events instead of bytes; `escrowed`, `amount`, `cashbox`, `jam`: the statics; `queue`, `rxOpen`: the channel. One operator per arm, or per group of arms that do the same (`Forward`, `MoveNote`, `LoseCashbox`); `Unparsable` is `continue_on_err!` around `try_from`, `NoticeFails` around the failing `send` of the inferred event |
| `PollResponses` | the parser at work | `EventParser` with an environment: arbitrary responses, an application that pops or drops its receiver, the flag updates of `stack`/`reject` and of the jam recovery between two responses |
| `SspDevice` | the device (external) | a record: the note in escrow, whether it was reported, whether it is jammed, what the last command stacked, events to report. `Outcomes` adds what `poll_message_variant` can make of an exchange: the reply, an `Err` with the command executed or not, another status |
| `InteractivePolling` | the threads of a `DeviceHandle` in interactive mode | `pc`/`op` per thread, the owners of the two mutexes, the flags, the response being parsed (an `INSTANCE` of `EventParser`), the device. Pollers run the loop of lines 466-562; clients run `stack`, `reject`, `poll`, `reset`, `full_reset`, `on_dispense`, `set_encryption_key` or `command` (any operation that exchanges one command under both locks) |
| `EscrowContract` | what an application is promised about notes | abstract: a note is told of, then a client asks, and only then it leaves. `InteractivePolling!Contract` is the refinement mapping: the device's note, and a client's decision read off its `pc` |
| `PollingLifecycle` | starts and ends of polling threads, both modes | `caller`: where a caller is between the check of `POLLING_INIT` and its reset; `thread`, `mode`, `stop` per thread; a round, and a decision of the application, is one step (`InteractivePolling` has the steps of a round) |
| `SspTransport` | one call after the other over the line | `flag` is `SEQ_FLAG`, `msgFlag` that of the message; `air`, `buf`: replies under way and in the input buffer, by the number of the command they answer; `inStep`, a history variable, says that the flags agreed and nothing but replies was lost since, or that a `full_reset` has begun anew |
| `KeyNegotiation` | the key exchange, both sides | the numbers and keys of handle and device; a call is a list of steps (`Program`); powers are terms: base, who has raised it, modulo what. `poller` is the polling thread between two steps |
| `RpcServer` | accept loop, client threads, bus, `on_message` | `acc`, `pc` per client; `handle`: the owner of the mutex; `rx`: what the bus keeps for a receiver; requests and events are numbers |
| `ServerSetup` | `new_auto`, `new_uds`, `enable_device`, `full_reset` in sequence | `todo`: the commands that `enable_device` has left; `resets`, `version`, the device's configuration |
| `MC...` | alphabets and symmetry for TLC | |
| `...Proofs` | the theorems about the module of that name; those about the escrow and the contract of `InteractivePolling` are in `InteractiveEscrowProofs` | |

`PollResponses` and `InteractivePolling` compose the parser with an
environment; `InteractivePolling` and `PollingLifecycle` share the device. The
others are separate on purpose: the port's mutex, of which `InteractivePolling`
shows that every exchange has it, is what lets `SspTransport` and
`KeyNegotiation` have one call at a time, and `HandleFollowsRound` what lets
`RpcServer` treat an operation as one step.

The definitions that end in a comment beginning with `Mutant:` are variants of
the definition below them with a plausible bug; no specification uses them.
Each property of a passing run is checked to fail when such a variant replaces
the original.

### Abstractions that matter

* A step is one access to a lock, one exchange with the device, or the flag
  updates after it. The flags are atomics that, except for `RESET_TIME` and
  `UNSAFE_JAM` at the top of the loop, are only touched with the port locked;
  those two reads are steps of their own (`CheckReset`, `CheckJam`).
* Time is not a number. `try_lock_for` fails only behind an owner that can keep
  the mutex longer than the timeout (`OutlastsPort`, `OutlastsKey`): the jam
  recovery (15 s > 10 s), the `sync` loop of `full_reset` (60 s), the owner of
  the key that waits for the port (10 s > 5 s), or anybody when replies do not
  come (`Faults`). The wait for the key with the port held (5 s) is shorter
  than the 10 s for the port. `DeviceRestarted` uses that a poller which found
  the device jammed before the reset has finished its 15 s when the 20 s of
  `full_reset` are over; with faults it does not assume this. In `RpcServer`
  a thread may time out (5 s) whenever another has the handle.
* `on_dispense`'s two enabling commands are one step and so are its two
  disabling ones; their failing in between leaves the same flags. So are
  `enable_device_inner`, `disable_inner` and `poll_inner` at the end of
  `full_reset` in `InteractivePolling`; `ServerSetup` has them one by one.
* `escrowed` and the other flags are statics, shared by every handle of the
  process. One handle is modelled; `serial_port` is then the only line.
* Only `set_encryption_key` borrows the handle mutably (`Borrows`); the key
  negotiation does too, and so has one caller.
* `Disciplined` (`InteractivePolling`) and the application of
  `PollingLifecycle` decide once per `Read` event that was popped, or again
  after an `Err`.
* `RpcServer` gives every request an id of its own. What a read returns is a
  number of whole requests, with the end of one begun before and the beginning
  of another (`Parts`): a read takes 1024 bytes at most, wherever a request ends.
  What is left of a request that was cut is no request and may be taken for
  `ready`; when the parts exceed the buffer, which grows too late (624-626), the
  thread panics (`ReceiveTooMuch`). `cut`, a history variable, tells the requests
  to which that has happened. A cut falls within the text of a request: one
  just before its newline, after which the text would be a request all the same,
  is left out. Texts are ASCII. `garbage` is a text that is no
  request though it was read whole.
* `SspTransport` has one device that answers a repeated flag by its last reply,
  executes `SYNC` always, and takes either flag after a restart. A reply may be
  late (it comes after the read has timed out), cut (its rest stays in the
  buffer) or lost.

## 3. Runs

| Run | Question | Instance | States |
|---|---|---|---|
| `parser_safety` | do flags and queue follow the responses, and does the loop end? | 2 note values, responses of 2 events with cut off ones, 2 unreceived events | 47 015 |
| `parser_cut` | does the loop end when an event is cut off? | a cut `Read`, a cut `NoteCredit` | violated |
| `polling_general` | types, locks, flags | 2 pollers, 1 client, all operations, faults, no discipline, 1 note, 1 jam, 1 reset | 488 275 |
| `polling_decisions` | do flags, client and device agree? is `EscrowContract` implemented? | 2 pollers, 2 clients, 2 values, 2 notes, disciplined, no faults or resets, fairness | 47 393 |
| `polling_live` | are notes announced, do jams, resets and operations end? | 1 poller, 2 clients, 2 notes, 1 jam, 1 reset, fairness | 60 632 |
| `lifecycle` | do threads hand the note over, does a stop end a thread? | 1 caller, 2 threads, both modes, with and without faults, 2 notes, 1 jam, fairness | 240 444 |
| `lifecycle_two` | is there one polling thread at a time? | 1 caller, 2 threads | violated |
| `server_safety` | who owns the handle, who is answered, who is closed? | 2 clients, 2 requests each, operations and Disables, pipelined, read in parts | 1 575 516 |
| `server_serves` | is a client served, does it get its events, is a Disable forgotten, does the server stop? | 1 client, 3 requests of all kinds, read whole, 2 events, a bus of size 1, failures, fairness | 173 796 |
| `transport` | does a reply answer its command, does a call return? | 6 commands of all kinds, 3 faults of all kinds, fairness | 215 945 |
| `keys_agree` | do both sides have the same key? | 3 primes, 2 random numbers per side, 1 other fixed key, refused, lost and restarted steps, polling | 3 528 504 |
| `setup` | how does the setup leave the device? | all modes, lost messages, `MAX_RESETS` 10, fairness | 3 784 |

`parser_cut` and `lifecycle_two` are violated, see below; the others hold.

Why the bounds are enough. Two events per response give every ordered pair of
arms, and the flags that survive a response (`ESCROWED`, `CASHBOX_ATTACHED`)
link it to the next, without a bound on how many responses follow. Two pollers
and a client, or a poller and two clients, give every pair of threads that can
meet at a lock; a second note is what a late flag update would hit. One reset
and one jam give every order of the two recoveries. `MaxQueue` only delays a
poller while the application has not popped. `lifecycle` needs two threads to
hand a note over; a second caller adds only a second refusal. Two requests of
two clients are what the globals of the server can confuse: a Disable that closes
a connection is the second of two, and a request that is cut has one that
follows it. The client of `server_serves` waits for its answers, so that its
short requests are written, and read, at once (`Parts` FALSE). One place on the bus
is what fills it, and a second event what comes in the wrong order. Six commands
with three faults of all kinds are a loss, its late consequence and a
`full_reset` among ordinary commands. Three primes are the least with which a
generator, a modulus and another one differ in every order. `setup` has the
`MAX_RESETS` of the code. The other bounds count events of the world, never
steps of the code, and the proofs of section 4 do without any of them.

Deadlock is checked except where the system really stops: threads that were told
to stop have ended and no more can be spawned (`lifecycle`), the server has
stopped and its clients have hung up (`server_safety`, `server_serves`), the
setup is over (`setup`), and the last of the commands has been sent
(`transport`).

### Findings

1. `parser_cut` (`ParseEnds`): `parse_events` never leaves a response whose last
   event is cut off: the loop is repeated before `idx` has moved (`inner.rs` 45,
   `macros.rs` 13-24), with both locks held. `WholeResponseEnds` of
   `parser_safety` is what remains true.
2. `lifecycle_two` (`OneThreadAtATime`): the call that has set `POLLING_INIT`
   clears it as soon as its thread is spawned (403, 571), so that a second start
   spawns a second thread.

### Where the conditions of the properties come from

Some properties of the runs hold under a condition only, and the modules state
further ones, from comments and documentation, that the code does not keep. No
run of the project shows these; each is violated in the instance given here.

| Property | Instance | What happens |
|---|---|---|
| `DispensingWhilePayingOut` | `InteractivePolling`, 1 poller, 1 client, `dispense`, `Faults` | an `Err` between `set_dispensing(true)` and `(false)` returns with the flag set (961-964): pollers skip every poll |
| `JamResetsOnlyJammed` | 2 pollers, 1 note, 1 jam; or 1 poller, 1 client, `fullReset`, without the condition on `resets` | one poller waits at `jamSerial` while the other ends the jam, or while the client resets the device: its reset hits a device that works. Finding 2 is how there come to be two |
| `StackTellsTruth` | 1 client, `stack`, `reject`, `fullReset`, 1 note, 1 reset | `full_reset` leaves `ESCROWED` and `ESCROWED_AMOUNT`: the next `stack` returns a value that was not stacked |
| `NoteLeavesByDecision` | 1 client, `poll`, 1 note | a client's `poll` swallows the `Read`, the next background poll stacks the note |
| `NoteLeavesByDecision` | 1 client, `stack`, 1 note, `Faults` | the reply that carries the `Read` is lost, with the same end |
| `ResetsEnd` | `reset` and `command`, 1 reset, fairness | `reset` on its own silences polling for good: `poll_resetting` has no caller |
| `ResetSilencesPollers` | 2 clients, `fullReset`, 2 resets | the first of two overlapping resets to end clears `RESET_TIME` (51: "Time when a device reset was initiated.") |
| `AutoHandlesJams` | `PollingLifecycle`, mode `auto`, 3 notes, 1 jam, no faults, fairness | the automatic mode looks at the status (377), not at the event: a jam reported as an event is never recovered from (176: "Automically handle polling events.") |
| `RepliesMatch` | `SspTransport`, `command` and `reset`, no faults | `reset` leaves its reply in the buffer: every later call returns the reply to the one before |
| `FlagsAlternate` | `command`, one failed write | the retry toggles the flag again (1862-1872): a repeated command looks new, or a new one repeated |
| `ModulusSmaller` | `KeyNegotiation`, `renegotiate`, 3 primes | `new` orders the two one way (269-277), `new_modulus_key` the other (1010-1015), `new_generator_key` not at all |
| `ResetForgets` | `renegotiate`, `resetKey`, polling | `reset_key` gives up after 5 s behind a poll and the old key stays (1056) |
| `RetryAgrees`, `RetryHasKey` | `careful`, `refuse` | the retry that the docs of `set_modulus` and `set_encryption_key` ask for (1497, 1544) calls `new_modulus_key`, which may change the generator after it was sent (1014) and lets go of the key that `set_encryption_key` needs |
| `SessionsAgree` | `renegotiate`, `setFixed`, `refuse` | `set_encryption_key` stores the new fixed key whatever the status (1561) |
| `NotesWaitForClient` | `ServerSetup`, mode `encrypted` | with encryption `disable` only disables the payout: the device takes notes before a client asks for it (`server.rs` 111) |
| `ConfiguredUnlessGivenUp` | mode `clear`, `refuse` | `enable_device` does not look at the statuses |
| `ResetCures` | mode `encrypted`, `lose` | `full_reset` ends the device's session and leaves the handle's key: every later attempt fails |

`Orderly`, the condition of the escrow properties of `PollingLifecycle`, leaves
out threads in automatic mode for the same reason: `PollAuto` looks at no flag,
which `AutoTakesNotes` shows it is meant to.

### Fairness

* `InteractivePolling`: strong fairness of each thread's steps and weak fairness
  of `PopEvent`. A thread that waits for a mutex is enabled again and again, not
  always: the code's mutexes are `parking_lot`'s, whose eventual fairness hands
  a contended mutex to a waiter, which is strong fairness. `PopEvent` is the
  accept loop, which drains the queue every 250 ms. An error is never required
  to stay away by fairness: the liveness runs have `Faults = FALSE`.
  `NotesAnnounced`, `JamsEnd` and the liveness of the contract leave out an
  application that changes the key all the time (`KeyKeepsChanging`): the
  polling thread gives up the key first, and may do so each time.
* `PollingLifecycle`: weak fairness of every caller and thread, whose steps are
  whole rounds.
* `PollResponses`: weak fairness of `Parse`, a loop without waiting.
* `SspTransport`: weak fairness of the caller and of the arrival of a reply that
  is not lost. Nothing makes a write succeed: the code repeats it without bound
  (1862-1869), and a call whose writes fail from some time on never returns.
  `CallsReturn` says so (`<>[]failing`).
* `RpcServer`: weak fairness of the accept loop and of every client's thread.
  `lock_handle` spins on `try_lock`, which promises nothing to a thread among
  others, so there is no strong fairness, and that requests are answered is
  checked with one client only.
* `ServerSetup`: weak fairness of its one thread.

Nobody is obliged to insert a note, jam the device, start an operation, start or
stop polling, or send a request.

## 4. Proofs

All theorems hold for every value of the constants: any number of threads,
callers, clients, notes, requests, events, commands, faults and resets. They
rest on the named assumptions of the modules (threads and `NoThread` are
distinct, values are positive integers, alphabets and operations are among those
modelled); further conditions are part of the theorem.

* `InteractivePollingProofs!LocksCorrect` (`LocksFollowLabels`).
  The inductive invariant `ControlInv` adds to it the types of the control
  state: which labels a poller and a client get to, which operation is at which
  label. Without that, `AfterPort` and `AfterKey` could send a thread anywhere.
  Mutual exclusion on the serial line follows, as `port` has one value.
* `InteractivePollingProofs!TypeCorrect` (`TypeOK`) and `FlagsRespected`
  (`PollerRespectsFlags`). The inductive invariant `DataInv` consists of the
  data types, `PollerRespectsFlags`, and that a response is being parsed only
  by a poller at `parse`; the flags can change only by the owner of the port
  (`ControlInv`), which a poller at `poll` is itself.
* `InteractivePollingProofs!WaitsEnd`: a chain of threads that wait for each
  other's locks has two waits at most, unless it leads through a thread in
  `set_encryption_key`, so that without this call no threads wait in a circle.
  It holds with faults. `SetKeyInv` adds to `ControlInv` that only this call
  gets to the labels where the key is taken first. With it there is a circle,
  which the 5 s of the key end: that is `OperationsReturn`, a run.
* `InteractiveEscrowProofs!EscrowCorrect` (`EscrowMirrorsDevice`),
  `StackCorrect` (`StackTellsTruth`), `DecisionCorrect`
  (`NoteLeavesByDecision`) and `ContractCorrect` (every behaviour is one of
  `EscrowContract`, the safety of `KeepsContract`), for any number of pollers,
  clients and notes, under `Calm`: no faults, no jam, a `Disciplined`
  application and neither `poll` nor a reset among the operations. Each
  condition is needed for some of the four: a lost reply or a client's `poll`
  swallows a `Read`, and `full_reset` leaves `ESCROWED` behind, as shown above
  under "Where the conditions come from"; a jammed device stacks nothing, and
  `stack` returns the amount all the same; an undisciplined application calls
  `stack` before it was told of the note, and the poll in it swallows the `Read`.
  The properties say nothing of where the knowledge of a note is while it is
  on its way, so they are not inductive. `TokenInv` treats that knowledge as a
  token: the `Read` is in the response being parsed, then in the queue, then
  the application is `undecided`, then one client is about to decide. There is
  one token at most, and only while the device holds a note that it has told
  of. `ResponseInv` says that a `Read` comes last in its response and tells the
  truth, `NoteInv` when flag and device may differ: while the `Read` is to be
  parsed, and while a decision has been executed and not yet noted. `IInv` is
  their conjunction with `ControlInv`, `DataInv`, `CalmLabels` and
  `CalmDevice`.
  In the refinement the start of `stack` or `reject` is the contract's `Ask`, a
  lock that it does not get its `Fail`, the command sent its `Take`, the flag
  cleared its `Return`; the poll whose response brings the `Read` is its
  `Tell`, `InsertNote` its `Insert`, and every other step a stutter.
* `PollResponsesProofs!TypeCorrect`, `EscrowCorrect`
  (`EscrowFollowsResponse`), `CashboxCorrect` (`CashboxFollowsResponse`): each
  is inductive together with `TypeOK`; the event parsed becomes the last one
  that speaks of the flag, or changes nothing. `CashboxHeard`
  (`CashboxEventsAlternate`) and `NoteHeard` (`HeldNoteAnnounced`) need
  `HearInv`, which adds that a receiver that is gone holds nothing: the flags go
  on changing when nobody is told. What appending to the queue and taking its
  head do to the order of its events are lemmas of their own.
* `PollingLifecycleProofs!Mirror` (`EscrowMirrorsDevice`) and `Decided`
  (`NoteLeavesByDecision`) need `HeldInv`: the types (`TypeInv`: what the device
  has to report never includes a `Read` or a jam) and, while things are
  `Orderly`, that `ESCROWED`, the application and the device agree about the
  note, and that no jam is about (`Agreed`). `EscrowOfRead` and `EscrowOfIdle`
  say what `EscrowAfter` makes of the responses that can then come.
  `OnlyStopEnds`: a thread that is ending or has ended was told to stop, the
  safety half of `ThreadsEndWhenStopped`; no error, jam or timeout ends a loop.
* `SspTransportProofs!Answers` (`AnswerMeansDone`) and `Alternation`
  (`NextIsNew`). `IInv` says, while the exchanges are in step, at every label of
  a call what the device has seen and where the one reply is that is under way:
  nowhere before the command is written, in `air` or `buf` or lost after it.
* `RpcServerProofs!Ownership` (`HandleFollowsRound`) with `RoundInv`, which adds
  that a client that was not accepted has no thread; `Answers`
  (`AnswersInOrder`) with `AnswerInv`: during a round the global id is that of
  the request being handled, which is later than every one that was answered;
  this rests on `RoundInv`, since it is the handle that keeps others from
  setting the id. `Delivery` (`NoEventMissed`) with `EventInv`: what was sent
  and what the receiver holds continue each other up to the last broadcast.
  `ClosedCorrect` (`ClosedForAReason`): one Disable never closes a connection,
  and a client that has not hung up, with whole requests that have handlers,
  loses it only by its own Disable after another one, of whichever client. Its
  `EndInv` says that the flag is never set but by a Disable that was read, or by
  a request that was cut (`SetBySomeone`), that a thread handles or reads on in
  a request that it has begun (`ReadsOn`), and that who has ended had its
  `Reason`; reasons are never taken back. The property speaks of servers in
  which nothing fails; the theorem holds for either value of `Failures`, and of
  `Parts`.
* `KeyNegotiationProofs!KeyCorrect` (`KeyOfTheseNumbers`) with `KeyInv`: the key
  is set last in a negotiation, and every call that draws a number ends by
  letting go of it. `KeysCorrect` (`KeysAgree`) and `RenegotiationCorrect`
  (`RenegotiationWorks`) with `AgreeInv`: for each rest of the program that a
  negotiation can have left, what the device has been sent (`SentInv`), the
  secret that `set_key` is about to use (`SecretInv`), and what holds if nothing
  has gone wrong (`CleanInv`).
* `ServerSetupProofs!ClearCorrect` (`ClearWaitsForClient`) and
  `ConfiguredCorrect` (`ConfiguredUnlessGivenUp`), for a device that refuses
  nothing (`NoRefusal`). `EnablingInv` says that what `enable_device` has no
  longer to send has taken effect, `EnabledInv` and `DisabledInv` carry that to
  the end.

Each of the modules `PollingLifecycle`, `SspTransport`, `KeyNegotiation`,
`RpcServer` and `ServerSetup` has its type invariant proved along the way.

So every invariant and every action property that a passing run checks is a
theorem. Only model-checked are the properties that something happens at last,
which are out of the prover's reach: `WholeResponseEnds`, `NotesAnnounced`,
`JamsEnd`, `OperationsReturn`, `ResetsEnd`, `ThreadsEndWhenStopped`,
`AutoTakesNotes`, `AnsweredOrClosed`, `EventsArrive`, `StopEnds`, `CallsReturn`,
`DisableForgotten`, `SetupEnds`, and of `KeepsContract` its fairness. Of the waits for the locks and
of the end of a thread, `WaitsEnd` and `OnlyStopEnds` prove what is safety.

## 5. Not modelled

* The byte layout, checksums, byte stuffing and the encryption of messages (the
  `ssp` crate's), and with them the arithmetic of the key exchange: powers are
  terms. What a response is parsed into beyond its status and its events.
* `poll_resetting` (577-607), `poll_with_ack` and `event_ack`: nothing calls
  them. `ENABLED` is written and never read. The amounts of a payout.
* The JSON texts, and the fallback for a request without id (one expression,
  656): `RpcServer` gives every request an id, as the clients of the repository
  do.
* `mock.rs`, a test double with one default answer per request, the binaries,
  which read environment variables and call `Server`, and `lib.rs`, which
  declares modules: there is no behaviour to model.
* Timing beyond the order of the timeouts; logging. The queue cannot overflow:
  the channel is unbounded, and memory is not modelled.

## 6. What is left

1. A composition of `RpcServer` with `InteractivePolling`, so that an operation
   of a client has its steps; the runs that exist would have to be much smaller.
2. A payout with amounts: what was asked for against what was dispensed.
