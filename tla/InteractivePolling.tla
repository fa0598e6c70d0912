-------------------------- MODULE InteractivePolling --------------------------
(***************************************************************************)
(* A DeviceHandle in interactive mode: the threads that                    *)
(* start_background_polling_with_queue spawns and the threads that call    *)
(* the handle's operations share the serial port, the encryption key (both *)
(* behind a Mutex that is waited for with a timeout) and the process-wide  *)
(* flags of src/device_handle.rs:41-62.                                    *)
(*                                                                         *)
(* One step is one access to a lock, one exchange with the device, or the  *)
(* flag updates that follow it.  The sleeps and the 10 s of a serial read  *)
(* are the time a thread stays at its label.                               *)
(***************************************************************************)
EXTENDS SspDevice

CONSTANTS
  Pollers,          \* background polling threads
  Clients,          \* threads that call operations of the handle
  NoThread,         \* the owner of a free lock
  Values,           \* note values
  Ops,              \* the operations the clients call
  Disciplined,      \* stack and reject are called once per announced note
  MaxQueue,         \* bound: unreceived events when a poller starts a round
  MaxNotes,         \* bound: notes put into the device
  MaxJams,          \* bound: jams
  MaxResets         \* bound: resets that clients ask for

Decisions == {"stack", "reject"}
Resets == {"reset", "fullReset"}
AllOps == Decisions \cup Resets \cup {"command", "poll", "dispense", "setKey"}
Threads == Pollers \cup Clients

ASSUME ThreadAssumption == Pollers \cap Clients = {} /\ NoThread \notin Threads
ASSUME OpsAssumption == Ops \subseteq AllOps /\ Disciplined \in BOOLEAN
ASSUME NoteAssumption == Values \subseteq Nat \ {0}
ASSUME BoundAssumption ==
  /\ MaxQueue \in Nat /\ MaxNotes \in Nat /\ MaxJams \in Nat /\ MaxResets \in Nat

VARIABLES
  pc,               \* where each thread is
  op,               \* the operation each thread is in, "none" outside of one
  port,             \* owner of the serial port's mutex
  keyLock,          \* owner of the encryption key's mutex
  escrowed, amount, cashbox, jam,      \* flags, see EventParser
  dispensing,       \* DISPENSING
  resetting,        \* RESET_TIME # 0
  data, idx,        \* the poll response being parsed, see EventParser
  queue,            \* events sent to the application (all receivers together)
  undecided,        \* the application knows of a note it has not decided on
  dev,              \* the device
  notes, jams, resets     \* counters for the bounds

(* parse_events, with the receiver alive as long as the server is.         *)
Parser == INSTANCE EventParser WITH rxOpen <- TRUE

parsed  == <<data, idx, escrowed, amount, cashbox, jam, queue>>
locks   == <<port, keyLock>>
threads == <<pc, op, port, keyLock>>
bounds  == <<notes, jams, resets>>
vars == <<pc, op, port, keyLock, escrowed, amount, cashbox, jam, dispensing,
          resetting, data, idx, queue, undecided, dev, notes, jams, resets>>

-----------------------------------------------------------------------------
(* Labels                                                                  *)

PollerLabels ==
  {"idle", "jamCheck", "jamSerial", "jamSend", "jamWait",
   "pollSerial", "pollKey", "decide", "hold", "rest", "poll", "parse"}

JamLabels == {"jamCheck", "jamSerial", "jamSend", "jamWait"}

ClientLabels ==
  {"ready", "serial", "key", "keyFirst", "serialSecond", "send",
   "stacked", "rejected", "enable", "payout", "disable",
   "resetSend", "resetWait", "resetSerial", "resetClear", "sync", "lastPoll"}

HoldsPort ==
  {"jamSend", "jamWait", "pollKey", "decide", "hold", "rest", "poll", "parse",
   "key", "send", "stacked", "rejected", "enable", "payout", "disable",
   "resetSend", "resetClear", "sync", "lastPoll"}

HoldsKey ==
  {"decide", "hold", "rest", "poll", "parse",
   "serialSecond", "send", "enable", "payout", "disable"}

WaitsPort == {"jamSerial", "pollSerial", "serial", "serialSecond", "resetSerial"}
WaitsKey  == {"pollKey", "key", "keyFirst"}

(* Where a thread goes on once it has the lock it waits for.               *)
AfterPort(t) ==
  CASE pc[t] = "jamSerial"    -> "jamSend"
    [] pc[t] = "pollSerial"   -> "pollKey"
    [] pc[t] = "serial"       -> IF op[t] \in Resets THEN "resetSend" ELSE "key"
    [] pc[t] = "serialSecond" -> "send"
    [] pc[t] = "resetSerial"  -> "resetClear"

AfterKey(t) ==
  CASE pc[t] = "pollKey"  -> "decide"
    [] pc[t] = "key"      -> IF op[t] = "dispense" THEN "enable" ELSE "send"
    [] pc[t] = "keyFirst" -> "serialSecond"

Go(t, label) == pc' = [pc EXCEPT ![t] = label] /\ UNCHANGED op

-----------------------------------------------------------------------------
(* Locks                                                                   *)

(* try_lock_for gives up only behind an owner that can keep the mutex      *)
(* longer than the timeout: one that waits for the device to restart, that *)
(* waits for replies that do not come, or that itself waits for a lock.    *)
OutlastsPort(h) == Faults \/ pc[h] \in {"jamWait", "sync"}
OutlastsKey(h)  == Faults \/ pc[h] = "serialSecond"

TakePort(t) == port = NoThread /\ port' = t /\ UNCHANGED keyLock
TakeKey(t)  == keyLock = NoThread /\ keyLock' = t /\ UNCHANGED port
PortTimesOut == port # NoThread /\ OutlastsPort(port)
KeyTimesOut  == keyLock # NoThread /\ OutlastsKey(keyLock)

(* The guards of thread t are dropped.                                     *)
DropAll(t) ==
  /\ port' = IF port = t THEN NoThread ELSE port
  /\ keyLock' = IF keyLock = t THEN NoThread ELSE keyLock

(* A poller begins its next round, an operation returns.                   *)
Leave(t) ==
  /\ DropAll(t)
  /\ pc' = [pc EXCEPT ![t] = IF t \in Pollers THEN "idle" ELSE "ready"]
  /\ op' = [op EXCEPT ![t] = "none"]

(* ... because of an Err: the application has not decided after all.       *)
Fails(t) == Leave(t) /\ undecided' = (undecided \/ op[t] \in Decisions)

GetPort(t) ==
  /\ pc[t] \in WaitsPort
  /\ \/ TakePort(t) /\ Go(t, AfterPort(t)) /\ UNCHANGED undecided
     \/ PortTimesOut /\ Fails(t)
  /\ UNCHANGED <<parsed, dispensing, resetting, dev, bounds>>

GetKey(t) ==
  /\ pc[t] \in WaitsKey
  /\ \/ TakeKey(t) /\ Go(t, AfterKey(t)) /\ UNCHANGED undecided
     \/ KeyTimesOut /\ Fails(t)
  /\ UNCHANGED <<parsed, dispensing, resetting, dev, bounds>>

-----------------------------------------------------------------------------
(* The background polling thread                                           *)

(* if resetting() { sleep; continue }: no step.                            *)
CheckReset(p) ==
  /\ pc[p] = "idle" /\ ~resetting
  /\ Len(queue) < MaxQueue
  /\ Go(p, "jamCheck")
  /\ UNCHANGED <<locks, parsed, dispensing, resetting, undecided, dev, bounds>>

CheckJam(p) ==
  /\ pc[p] = "jamCheck"
  /\ Go(p, IF jam THEN "jamSerial" ELSE "pollSerial")
  /\ UNCHANGED <<locks, parsed, dispensing, resetting, undecided, dev, bounds>>

(* Mutant: the port is free while the device restarts.                     *)
ResetJamUnlocks(p) ==
  /\ pc[p] = "jamSend"
  /\ \E r \in Outcomes(dev, OnReset(dev)) :
       /\ dev' = r.dev
       /\ IF r.status = "Err" THEN Leave(p) ELSE Go(p, "jamWait") /\ DropAll(p)
  /\ UNCHANGED <<parsed, dispensing, resetting, undecided, bounds>>

(* The reset is sent in the clear; any reply will do.                      *)
ResetJam(p) ==
  /\ pc[p] = "jamSend"
  /\ \E r \in Outcomes(dev, OnReset(dev)) :
       /\ dev' = r.dev
       /\ IF r.status = "Err" THEN Leave(p)
          ELSE Go(p, "jamWait") /\ UNCHANGED locks
  /\ UNCHANGED <<parsed, dispensing, resetting, undecided, bounds>>

(* 15 s later, with the port still locked.                                 *)
JamOver(p) ==
  /\ pc[p] = "jamWait"
  /\ jam' = FALSE
  /\ Leave(p)
  /\ UNCHANGED <<data, idx, escrowed, amount, cashbox, queue, dispensing,
                 resetting, undecided, dev, bounds>>

(* Mutant: a note in escrow does not keep the poller from polling.         *)
DecideBlind(p) ==
  /\ pc[p] = "decide"
  /\ Go(p, IF dispensing THEN "rest" ELSE "poll")
  /\ UNCHANGED <<locks, parsed, dispensing, resetting, undecided, dev, bounds>>

Decide(p) ==
  /\ pc[p] = "decide"
  /\ Go(p, IF escrowed THEN "hold" ELSE IF dispensing THEN "rest" ELSE "poll")
  /\ UNCHANGED <<locks, parsed, dispensing, resetting, undecided, dev, bounds>>

Hold(p) ==
  /\ pc[p] = "hold"
  /\ \E r \in Outcomes(dev, OnCommand(dev)) :
       /\ dev' = r.dev
       /\ IF r.status = "Err" THEN Leave(p)
          ELSE Go(p, "rest") /\ UNCHANGED locks
  /\ UNCHANGED <<parsed, dispensing, resetting, undecided, bounds>>

(* Mutant: a busy loop that holds the note and keeps both locks.           *)
RestBusy(p) ==
  /\ pc[p] = "rest"
  /\ Go(p, "hold")
  /\ UNCHANGED <<locks, parsed, dispensing, resetting, undecided, dev, bounds>>

(* sleep and continue, which drops both guards.                            *)
Rest(p) ==
  /\ pc[p] = "rest"
  /\ Leave(p)
  /\ UNCHANGED <<parsed, dispensing, resetting, undecided, dev, bounds>>

(* Mutant: the events are parsed without the port.                         *)
PollUnlocks(p) ==
  /\ pc[p] = "poll"
  /\ \E r \in Outcomes(dev, OnPoll(dev)) :
       /\ dev' = r.dev
       /\ jam' = (jam \/ r.status = "UnsafeJam")
       /\ IF r.status = "Ok"
          THEN data' = r.events /\ Go(p, "parse") /\ DropAll(p)
          ELSE UNCHANGED data /\ Leave(p)
  /\ UNCHANGED <<idx, escrowed, amount, cashbox, queue, dispensing, resetting,
                 undecided, bounds>>

(* Mutant: the status UnsafeJam is not told from other failures.           *)
PollMissesJam(p) ==
  /\ pc[p] = "poll"
  /\ \E r \in Outcomes(dev, OnPoll(dev)) :
       /\ dev' = r.dev
       /\ IF r.status = "Ok"
          THEN data' = r.events /\ Go(p, "parse") /\ UNCHANGED locks
          ELSE UNCHANGED data /\ Leave(p)
  /\ UNCHANGED <<idx, escrowed, amount, cashbox, jam, queue, dispensing,
                 resetting, undecided, bounds>>

Poll(p) ==
  /\ pc[p] = "poll"
  /\ \E r \in Outcomes(dev, OnPoll(dev)) :
       /\ dev' = r.dev
       /\ jam' = (jam \/ r.status = "UnsafeJam")
       /\ IF r.status = "Ok"
          THEN data' = r.events /\ Go(p, "parse") /\ UNCHANGED locks
          ELSE UNCHANGED data /\ Leave(p)
  /\ UNCHANGED <<idx, escrowed, amount, cashbox, queue, dispensing, resetting,
                 undecided, bounds>>

Parse(p) ==
  /\ pc[p] = "parse"
  /\ Parser!ParseEvent
  /\ UNCHANGED <<threads, dispensing, resetting, undecided, dev, bounds>>

(* Mutant: the next response is not parsed from its beginning.             *)
EndParseKeepsIdx(p) ==
  /\ pc[p] = "parse" /\ ~Parser!Parsing
  /\ data' = <<>>
  /\ Leave(p)
  /\ UNCHANGED <<idx, escrowed, amount, cashbox, jam, queue, dispensing, resetting,
                 undecided, dev, bounds>>

EndParse(p) ==
  /\ pc[p] = "parse" /\ ~Parser!Parsing
  /\ data' = <<>> /\ idx' = 1
  /\ Leave(p)
  /\ UNCHANGED <<escrowed, amount, cashbox, jam, queue, dispensing, resetting,
                 undecided, dev, bounds>>

PollerStep(p) ==
  \/ CheckReset(p) \/ CheckJam(p) \/ GetPort(p) \/ GetKey(p)
  \/ ResetJam(p) \/ JamOver(p) \/ Decide(p) \/ Hold(p) \/ Rest(p)
  \/ Poll(p) \/ Parse(p) \/ EndParse(p)

-----------------------------------------------------------------------------
(* The operations of the handle                                            *)

(* set_encryption_key borrows the handle mutably, the others share it.     *)
Borrows(c, o) ==
  \A d \in Clients \ {c} : op[d] = "none" \/ (o # "setKey" /\ op[d] # "setKey")

(* Mutant: on_dispense sets the flag before it locks the port.             *)
StartDispensing(c, o) ==
  /\ pc[c] = "ready" /\ Borrows(c, o)
  /\ Disciplined /\ o \in Decisions => undecided
  /\ o \in Resets => resets < MaxResets
  /\ op' = [op EXCEPT ![c] = o]
  /\ pc' = [pc EXCEPT ![c] = IF o = "setKey" THEN "keyFirst" ELSE "serial"]
  /\ dispensing' = (dispensing \/ o = "dispense")
  /\ undecided' = (undecided /\ o \notin Decisions)
  /\ resets' = IF o \in Resets THEN resets + 1 ELSE resets
  /\ UNCHANGED <<locks, parsed, resetting, dev, notes, jams>>

Start(c, o) ==
  /\ pc[c] = "ready" /\ Borrows(c, o)
  /\ Disciplined /\ o \in Decisions => undecided
  /\ o \in Resets => resets < MaxResets
  /\ op' = [op EXCEPT ![c] = o]
  /\ pc' = [pc EXCEPT ![c] = IF o = "setKey" THEN "keyFirst" ELSE "serial"]
  /\ undecided' = (undecided /\ o \notin Decisions)
  /\ resets' = IF o \in Resets THEN resets + 1 ELSE resets
  /\ UNCHANGED <<locks, parsed, dispensing, resetting, dev, notes, jams>>

(* set_encryption_key finds no key: KeyNotSet, the port is never locked.   *)
KeyNotSet(c) ==
  /\ pc[c] = "keyFirst" /\ keyLock = NoThread
  /\ Fails(c)
  /\ UNCHANGED <<parsed, dispensing, resetting, dev, bounds>>

(* Mutant: stack drops the port before it has cleared the flags.           *)
SendStackUnlocks(c) ==
  /\ pc[c] = "send" /\ op[c] = "stack"
  /\ \E r \in Outcomes(dev, OnPoll(dev)) :
       /\ dev' = r.dev
       /\ IF r.status = "Ok" THEN Go(c, "stacked") /\ DropAll(c) /\ UNCHANGED undecided
          ELSE Fails(c)
  /\ UNCHANGED <<parsed, dispensing, resetting, bounds>>

(* stack: a poll.  The key's guard is dropped with the statement, the      *)
(* events of the reply are dropped unread.                                 *)
SendStack(c) ==
  /\ pc[c] = "send" /\ op[c] = "stack"
  /\ \E r \in Outcomes(dev, OnPoll(dev)) :
       /\ dev' = r.dev
       /\ IF r.status = "Ok"
          THEN Go(c, "stacked") /\ keyLock' = NoThread /\ UNCHANGED <<port, undecided>>
          ELSE Fails(c)
  /\ UNCHANGED <<parsed, dispensing, resetting, bounds>>

SendReject(c) ==
  /\ pc[c] = "send" /\ op[c] = "reject"
  /\ \E r \in Outcomes(dev, OnReject(dev)) :
       /\ dev' = r.dev
       /\ IF r.status = "Ok"
          THEN Go(c, "rejected") /\ keyLock' = NoThread /\ UNCHANGED <<port, undecided>>
          ELSE Fails(c)
  /\ UNCHANGED <<parsed, dispensing, resetting, bounds>>

(* Mutant: only the amount is cleared.                                     *)
ClearAmount(c) ==
  /\ pc[c] \in {"stacked", "rejected"}
  /\ amount' = 0
  /\ Leave(c)
  /\ UNCHANGED <<data, idx, escrowed, cashbox, jam, queue, dispensing, resetting,
                 undecided, dev, bounds>>

(* set_escrowed(false) and the amount: stack returns the amount before it. *)
ClearEscrow(c) ==
  /\ pc[c] \in {"stacked", "rejected"}
  /\ escrowed' = FALSE /\ amount' = 0
  /\ Leave(c)
  /\ UNCHANGED <<data, idx, cashbox, jam, queue, dispensing, resetting,
                 undecided, dev, bounds>>

(* poll: its caller gets the reply, parse_events does not see it.          *)
SendPoll(c) ==
  /\ pc[c] = "send" /\ op[c] = "poll"
  /\ \E r \in Outcomes(dev, OnPoll(dev)) : dev' = r.dev
  /\ Leave(c)
  /\ UNCHANGED <<parsed, dispensing, resetting, undecided, bounds>>

(* The operations that send one command that moves no note.                *)
SendCommand(c) ==
  /\ pc[c] = "send" /\ op[c] \in {"command", "setKey"}
  /\ \E r \in Outcomes(dev, OnCommand(dev)) : dev' = r.dev
  /\ Leave(c)
  /\ UNCHANGED <<parsed, dispensing, resetting, undecided, bounds>>

-----------------------------------------------------------------------------
(* on_dispense                                                             *)

(* EnableCommand, EnablePayoutCommand, set_dispensing(true).               *)
EnablePayout(c) ==
  /\ pc[c] = "enable"
  /\ \E r \in Outcomes(dev, OnCommand(dev)) :
       /\ dev' = r.dev
       /\ IF r.status = "Err" THEN Leave(c) /\ UNCHANGED dispensing
          ELSE Go(c, "payout") /\ dispensing' = TRUE /\ UNCHANGED locks
  /\ UNCHANGED <<parsed, resetting, undecided, bounds>>

(* PayoutByDenominationCommand: an Err only ends up in the response.       *)
Payout(c) ==
  /\ pc[c] = "payout"
  /\ \E r \in Outcomes(dev, OnCommand(dev)) : dev' = r.dev
  /\ Go(c, "disable")
  /\ UNCHANGED <<locks, parsed, dispensing, resetting, undecided, bounds>>

(* DisablePayoutCommand, DisableCommand, set_dispensing(false): an Err     *)
(* returns before the last.                                                *)
DisablePayout(c) ==
  /\ pc[c] = "disable"
  /\ \E r \in Outcomes(dev, OnCommand(dev)) :
       /\ dev' = r.dev
       /\ dispensing' = (r.status = "Err")
  /\ Leave(c)
  /\ UNCHANGED <<parsed, resetting, undecided, bounds>>

-----------------------------------------------------------------------------
(* reset, and full_reset, which begins with it                             *)

(* reset: the command is written, its reply is not read.                   *)
SendReset(c) ==
  /\ pc[c] = "resetSend"
  /\ \/ /\ \E r \in Outcomes(dev, OnReset(dev)) : dev' = r.dev
        /\ resetting' = TRUE
        /\ IF op[c] = "reset" THEN Leave(c) ELSE DropAll(c) /\ Go(c, "resetWait")
     \/ Faults /\ Leave(c) /\ UNCHANGED <<dev, resetting>>
  /\ UNCHANGED <<parsed, dispensing, undecided, bounds>>

(* 20 s later: when replies come, a poller that found the device jammed    *)
(* before the reset has got the port and is through with its 15 s.         *)
DeviceRestarted(c) ==
  /\ pc[c] = "resetWait"
  /\ Faults \/ \A p \in Pollers : pc[p] \notin JamLabels
  /\ Go(c, "resetSerial")
  /\ UNCHANGED <<locks, parsed, dispensing, resetting, undecided, dev, bounds>>

ClearPort(c) ==
  /\ pc[c] = "resetClear"
  /\ \/ Go(c, "sync") /\ UNCHANGED locks
     \/ Faults /\ Leave(c)
  /\ UNCHANGED <<parsed, dispensing, resetting, undecided, dev, bounds>>

(* Mutant: the reset is over, RESET_TIME stays.                            *)
SyncKeepsResetTime(c) ==
  /\ pc[c] = "sync"
  /\ \/ \E r \in Outcomes(dev, OnCommand(dev)) :
          /\ dev' = r.dev
          /\ Go(c, IF r.status = "Ok" THEN "lastPoll" ELSE "sync")
          /\ UNCHANGED <<locks, resetting>>
     \/ Faults /\ Leave(c) /\ UNCHANGED <<dev, resetting>>
  /\ UNCHANGED <<parsed, dispensing, undecided, bounds>>

(* One round of the loop over sync_inner, or the end of its 60 s.          *)
Sync(c) ==
  /\ pc[c] = "sync"
  /\ \/ \E r \in Outcomes(dev, OnCommand(dev)) :
          /\ dev' = r.dev
          /\ resetting' = (resetting /\ r.status # "Ok")
          /\ Go(c, IF r.status = "Ok" THEN "lastPoll" ELSE "sync")
          /\ UNCHANGED locks
     \/ Faults /\ Leave(c) /\ UNCHANGED <<dev, resetting>>
  /\ UNCHANGED <<parsed, dispensing, undecided, bounds>>

(* The device is enabled, disabled and polled; errors change nothing.      *)
LastPoll(c) ==
  /\ pc[c] = "lastPoll"
  /\ \E r \in Outcomes(dev, OnPoll(dev)) : dev' = r.dev
  /\ Leave(c)
  /\ UNCHANGED <<parsed, dispensing, resetting, undecided, bounds>>

ClientStep(c) ==
  \/ GetPort(c) \/ GetKey(c) \/ KeyNotSet(c)
  \/ SendStack(c) \/ SendReject(c) \/ ClearEscrow(c) \/ SendPoll(c) \/ SendCommand(c)
  \/ EnablePayout(c) \/ Payout(c) \/ DisablePayout(c)
  \/ SendReset(c) \/ DeviceRestarted(c) \/ ClearPort(c) \/ Sync(c) \/ LastPoll(c)

-----------------------------------------------------------------------------
(* The world: people put in notes, mechanics jam, the application receives *)

InsertNote(v) ==
  /\ dev.note = 0 /\ ~dev.jammed /\ notes < MaxNotes
  /\ dev' = [dev EXCEPT !.note = v]
  /\ notes' = notes + 1
  /\ UNCHANGED <<threads, parsed, dispensing, resetting, undecided, jams, resets>>

Jam ==
  /\ ~dev.jammed /\ jams < MaxJams
  /\ dev' = [dev EXCEPT !.jammed = TRUE]
  /\ jams' = jams + 1
  /\ UNCHANGED <<threads, parsed, dispensing, resetting, undecided, notes, resets>>

(* pop_event: the application learns of a note to decide on.               *)
PopEvent ==
  /\ queue # <<>>
  /\ queue' = Tail(queue)
  /\ undecided' = (undecided \/ Head(queue).kind = "Read")
  /\ UNCHANGED <<threads, data, idx, escrowed, amount, cashbox, jam, dispensing,
                 resetting, dev, bounds>>

-----------------------------------------------------------------------------
Init ==
  /\ pc = [t \in Threads |-> IF t \in Pollers THEN "idle" ELSE "ready"]
  /\ op = [t \in Threads |-> "none"]
  /\ port = NoThread /\ keyLock = NoThread
  /\ escrowed = FALSE /\ amount = 0 /\ cashbox = TRUE /\ jam = FALSE
  /\ dispensing = FALSE /\ resetting = FALSE
  /\ data = <<>> /\ idx = 1 /\ queue = <<>>
  /\ undecided = FALSE
  /\ dev = IdleDevice
  /\ notes = 0 /\ jams = 0 /\ resets = 0

Next ==
  \/ \E p \in Pollers : PollerStep(p)
  \/ \E c \in Clients : ClientStep(c) \/ \E o \in Ops : Start(c, o)
  \/ \E v \in Values : InsertNote(v)
  \/ Jam \/ PopEvent

Spec == Init /\ [][Next]_vars

(* No thread starves: the scheduler runs it, and parking_lot hands a lock  *)
(* that is asked for again and again to the thread that waits for it.      *)
(* Nobody has to start an operation, insert a note or jam the device.      *)
Fairness ==
  /\ \A p \in Pollers : SF_vars(PollerStep(p))
  /\ \A c \in Clients : SF_vars(ClientStep(c))
  /\ WF_vars(PopEvent)

FairSpec == Spec /\ Fairness

-----------------------------------------------------------------------------
(* Properties                                                              *)

Device ==
  [note : Values \cup {0}, told : BOOLEAN, jammed : BOOLEAN,
   stacked : Values \cup {0}, news : Seq(Parser!Event)]

ThreadTypes ==
  /\ pc \in [Threads -> PollerLabels \cup ClientLabels]
  /\ \A p \in Pollers : pc[p] \in PollerLabels
  /\ \A c \in Clients : pc[c] \in ClientLabels
  /\ op \in [Threads -> Ops \cup {"none"}]
  /\ port \in Threads \cup {NoThread}
  /\ keyLock \in Threads \cup {NoThread}

DataTypes ==
  /\ escrowed \in BOOLEAN /\ amount \in Values \cup {0}
  /\ cashbox \in BOOLEAN /\ jam \in BOOLEAN
  /\ dispensing \in BOOLEAN /\ resetting \in BOOLEAN
  /\ data \in Seq(Parser!Event) /\ idx \in 1..Len(data) + 1
  /\ queue \in Seq(Parser!Event)
  /\ undecided \in BOOLEAN
  /\ dev \in Device
  /\ notes \in Nat /\ jams \in Nat /\ resets \in Nat

(* Every variable has its type; a thread only gets to labels of its own    *)
(* code, and idx stays within the response being parsed or one past it.    *)
TypeOK == ThreadTypes /\ DataTypes

(* Every exchange with the device and every access to the escrow flags     *)
(* happens under the lock of the port, every encrypted one under that of   *)
(* the key, on every path through a timeout, an error or a continue, and   *)
(* no path returns with a lock (device_handle.rs:466-562, 864-913,         *)
(* 927-990, 1099-1236, 1547-1567).                                         *)
LocksFollowLabels ==
  \A t \in Threads : /\ port = t <=> pc[t] \in HoldsPort
                     /\ keyLock = t <=> pc[t] \in HoldsKey

(* What a poller read of the flags still holds when it sends its poll,     *)
(* whatever the clients and the other pollers did since, and no other      *)
(* thread is parsing a response then (device_handle.rs:506-539).           *)
PollerRespectsFlags ==
  \A p \in Pollers :
    pc[p] = "poll" => /\ ~escrowed /\ ~dispensing
                      /\ data = <<>>

(* Whenever nobody has the port, ESCROWED and ESCROWED_AMOUNT agree with   *)
(* the device about the note in its escrow (device_handle.rs:506-526,      *)
(* 1099-1112, 1214-1235; inner.rs:55-90).                                  *)
EscrowMirrorsDevice ==
  port = NoThread => /\ escrowed = dev.told
                     /\ escrowed => amount = dev.note

(* A note that the device has reported leaves the escrow only because a    *)
(* client stacked or rejected it (or polled the device itself), or because *)
(* the device was reset: never by a poll of the background thread ("Do not *)
(* automatically poll when device has a bill in escrow",                   *)
(* device_handle.rs:506-514).                                              *)
Moves(t) ==
  \/ pc[t] = "send" /\ op[t] \in Decisions \cup {"poll"}
  \/ pc[t] \in {"resetSend", "jamSend", "lastPoll"}

NoteLeavesByDecision ==
  [][dev.told /\ ~dev'.told => \E t \in Threads : Moves(t) /\ pc'[t] # pc[t]]_vars

(* stack returns the value of the note that it has stacked                 *)
(* (device_handle.rs:1098-1112).                                           *)
StackTellsTruth ==
  \A c \in Clients : pc[c] = "stacked" => amount = dev.stacked

(* RESET_TIME, which keeps the pollers from polling, does not stay set     *)
(* (device_handle.rs:473-476, 864-913, 1148-1164).                         *)
ResetsEnd == resetting ~> ~resetting

(* set_encryption_key waits for the port with the key locked, and whoever  *)
(* has the port gives up waiting for the key first.                        *)
KeyKeepsChanging == []<>(\E c \in Clients : op[c] = "setKey")

(* A jam ends, although nobody but a poller resets the device because of   *)
(* it; while a note is held in escrow the pollers do not learn of the jam, *)
(* and while the key is changed all the time they do not poll              *)
(* (device_handle.rs:478-493, 553-555).                                    *)
JamsEnd == ((dev.jammed /\ ~escrowed) ~> (~dev.jammed \/ escrowed)) \/ KeyKeepsChanging

(* Every operation returns, although set_encryption_key takes the locks in *)
(* the opposite order (device_handle.rs:983-997, 1547-1567).               *)
OperationsReturn == \A c \in Clients : pc[c] # "ready" ~> pc[c] = "ready"

(* A note in the escrow is announced to the application, unless it has     *)
(* left, or the key is changed all the time (device_handle.rs:528-548,     *)
(* inner.rs:55-75).                                                        *)
NotesAnnounced == (dev.note # 0 ~> (undecided \/ dev.note = 0)) \/ KeyKeepsChanging

(* What holds while nothing fails, or with one poller, and is broken by a  *)
(* fault or by a second poller: stated, and run by hand, to show it.       *)

(* DISPENSING is set exactly while on_dispense pays out: "Gets whether the *)
(* device is currently dispensing notes" (device_handle.rs:915-918).  An   *)
(* Err between the two assignments leaves it set (946-964).                *)
DispensingWhilePayingOut ==
  dispensing <=> \E c \in Clients : pc[c] \in {"payout", "disable"}

(* No poller resets the device because of a jam that is over, unless an    *)
(* operation has reset the device too: the reset would give back the note  *)
(* in its escrow.  A second poller that has learnt of the same jam does    *)
(* (device_handle.rs:478-493).                                             *)
JamResetsOnlyJammed ==
  [][\A p \in Pollers :
       pc[p] = "jamSend" /\ pc'[p] # "jamSend" /\ resets = 0 => dev.jammed]_vars

(* RESET_TIME, "Time when a device reset was initiated."                   *)
(* (device_handle.rs:51), is set until a full_reset has reached the device *)
(* again, so that the pollers wait (473-476).                              *)
ResetSilencesPollers ==
  \A c \in Clients :
    pc[c] \in {"resetWait", "resetSerial", "resetClear", "sync"} => resetting

(* stack and reject as the application sees them.                          *)
Decision(c) ==
  CASE op[c] \notin Decisions -> "none"
    [] pc[c] \in {"stacked", "rejected"} -> "done"
    [] OTHER -> "asked"

Contract ==
  INSTANCE EscrowContract
  WITH note <- dev.note, told <- dev.told,
       decision <- [c \in Clients |-> Decision(c)]

(* The pollers and the operations of the handle keep the contract about    *)
(* the escrow (device_handle.rs:466-562, 1098-1112, 1213-1235), its        *)
(* liveness unless the key is changed all the time.                        *)
KeepsContract == Contract!Spec /\ (Contract!Fairness \/ KeyKeepsChanging)
=============================================================================
