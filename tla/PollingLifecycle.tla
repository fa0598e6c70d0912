--------------------------- MODULE PollingLifecycle ---------------------------
(***************************************************************************)
(* How background polling threads come and go (src/device_handle.rs        *)
(* 313-407, 445-575): the guard POLLING_INIT that is checked, set, and     *)
(* cleared again as soon as the thread is spawned; the stop flag that each *)
(* start is given; the automatic mode, which drops what it polls, beside   *)
(* the mode with an event queue.                                           *)
(*                                                                         *)
(* InteractivePolling has the steps of a round and shows that a poller has *)
(* the port and the key from its look at ESCROWED to the end of the parse. *)
(* Here a round is one step, and so is a decision of the application.      *)
(***************************************************************************)
EXTENDS SspDevice, FiniteSets

CONSTANTS
  Callers,          \* threads that start polling
  Threads,          \* bound: polling threads that can be spawned
  Modes,            \* "auto": start_background_polling, "queue": ..._with_queue
  Values,           \* note values
  MaxNotes,         \* bound: notes put into the device
  MaxJams           \* bound: jams

ASSUME ModesAssumption == Modes \subseteq {"auto", "queue"}
ASSUME BoundAssumption ==
  /\ Values \subseteq Nat \ {0}
  /\ MaxNotes \in Nat /\ MaxJams \in Nat
  /\ IsFiniteSet(Threads) /\ IsFiniteSet(Callers)

VARIABLES
  caller,           \* where each caller is in start_background_polling(_with_queue)
  wants,            \* the mode each caller asks for
  inited,           \* POLLING_INIT
  thread,           \* where each polling thread is
  mode,             \* the mode each thread was started in
  stop,             \* stop_polling of each thread
  escrowed, jam,    \* ESCROWED, UNSAFE_JAM
  undecided,        \* the application knows of a note it has not decided on
  noisy,            \* the line to the device loses messages: chosen once
  dev,              \* the device
  notes, jams       \* counters for the bounds

starts == <<caller, wants, inited>>
flags  == <<escrowed, jam, undecided, noisy>>
vars == <<caller, wants, inited, thread, mode, stop, escrowed, jam, undecided,
          noisy, dev, notes, jams>>

CallerLabels == {"ready", "set", "spawn", "unset"}
ThreadLabels == {"unborn", "top", "jam", "jamWait", "lap", "ending", "done"}

Running(t) == thread[t] \notin {"unborn", "ending", "done"}

-----------------------------------------------------------------------------
(* start_background_polling and start_background_polling_with_queue        *)

Unborn == {t \in Threads : thread[t] = "unborn"}
Starting == {c \in Callers : caller[c] \in {"set", "spawn"}}

(* if polling_inited() { Err(PollingReinit) }: the refusal is no step.     *)
Check(c, m) ==
  /\ caller[c] = "ready" /\ ~inited
  /\ Cardinality(Unborn) > Cardinality(Starting)
  /\ caller' = [caller EXCEPT ![c] = "set"]
  /\ wants' = [wants EXCEPT ![c] = m]
  /\ UNCHANGED <<inited, thread, mode, stop, flags, dev, notes, jams>>

SetInited(c) ==
  /\ caller[c] = "set"
  /\ inited' = TRUE
  /\ caller' = [caller EXCEPT ![c] = "spawn"]
  /\ UNCHANGED <<wants, thread, mode, stop, flags, dev, notes, jams>>

Spawn(c) ==
  /\ caller[c] = "spawn"
  /\ \E t \in Unborn :
       /\ thread' = [thread EXCEPT ![t] = "top"]
       /\ mode' = [mode EXCEPT ![t] = wants[c]]
  /\ caller' = [caller EXCEPT ![c] = "unset"]
  /\ UNCHANGED <<wants, inited, stop, flags, dev, notes, jams>>

(* set_polling_inited(false) by the caller itself, with the thread running. *)
Unset(c) ==
  /\ caller[c] = "unset"
  /\ inited' = FALSE
  /\ caller' = [caller EXCEPT ![c] = "ready"]
  /\ UNCHANGED <<wants, thread, mode, stop, flags, dev, notes, jams>>

CallerStep(c) == SetInited(c) \/ Spawn(c) \/ Unset(c)

(* The application sets the flag it has given to the thread.               *)
Stop(t) ==
  /\ Running(t) /\ ~stop[t]
  /\ stop' = [stop EXCEPT ![t] = TRUE]
  /\ UNCHANGED <<starts, thread, mode, flags, dev, notes, jams>>

-----------------------------------------------------------------------------
(* The polling thread                                                      *)

(* What an exchange can bring: see Outcomes.                               *)
Replies(ideal) == IF noisy THEN Outcomes(dev, ideal) ELSE ideal

(* The port is kept for more than a step by a jam recovery only.           *)
PortFree == \A t \in Threads : thread[t] # "jamWait"

At(t, label) == thread' = [thread EXCEPT ![t] = label]

(* Mutant: a jam is recovered from before the stop flag is looked at.      *)
LookAtJamFirst(t) ==
  /\ thread[t] = "top"
  /\ At(t, IF jam THEN "jam" ELSE IF stop[t] THEN "ending" ELSE "lap")
  /\ UNCHANGED <<starts, mode, stop, flags, dev, notes, jams>>

(* while !end_polling, and the look at unsafe_jam().                       *)
Look(t) ==
  /\ thread[t] = "top"
  /\ At(t, IF stop[t] THEN "ending" ELSE IF jam THEN "jam" ELSE "lap")
  /\ UNCHANGED <<starts, mode, stop, flags, dev, notes, jams>>

(* lock_serial_port gives up after 10 s behind the 15 s of a jam recovery. *)
PortTimesOut(t) ==
  /\ thread[t] \in {"jam", "lap"} /\ ~PortFree
  /\ At(t, "top")
  /\ UNCHANGED <<starts, mode, stop, flags, dev, notes, jams>>

(* continue_on_err! around the exchange.                                   *)
ResetJam(t) ==
  /\ thread[t] = "jam" /\ PortFree
  /\ \E r \in Replies(OnReset(dev)) :
       /\ dev' = r.dev
       /\ At(t, IF r.status = "Err" THEN "top" ELSE "jamWait")
  /\ UNCHANGED <<starts, mode, stop, flags, notes, jams>>

JamOver(t) ==
  /\ thread[t] = "jamWait"
  /\ jam' = FALSE
  /\ At(t, "top")
  /\ UNCHANGED <<starts, mode, stop, escrowed, undecided, noisy, dev, notes, jams>>

Speaks(e) ==
  e.kind \in {"Read", "NoteCredit", "Stacking", "Rejected", "UnsafeJam"}

(* What parse_events leaves in ESCROWED: what the last event of the        *)
(* response that speaks of the note says (see PollResponsesProofs).        *)
EscrowAfter(es) ==
  IF \E i \in DOMAIN es : Speaks(es[i])
  THEN \E i \in DOMAIN es :
         /\ es[i].kind = "Read"
         /\ \A j \in DOMAIN es : j > i => ~Speaks(es[j])
  ELSE escrowed

Reports(es, kind) == \E i \in DOMAIN es : es[i].kind = kind

Hold(t) ==
  /\ thread[t] = "lap" /\ PortFree
  /\ mode[t] = "queue" /\ escrowed
  /\ \E r \in Replies(OnCommand(dev)) : dev' = r.dev
  /\ At(t, "top")
  /\ UNCHANGED <<starts, mode, stop, flags, notes, jams>>

(* Mutant: a poller trusts a note to be held by the thread that read it.   *)
PollQueuedBlind(t) ==
  /\ thread[t] = "lap" /\ PortFree
  /\ mode[t] = "queue"
  /\ \E r \in Replies(OnPoll(dev)) :
       /\ dev' = r.dev
       /\ jam' = (jam \/ r.status = "UnsafeJam" \/ Reports(r.events, "UnsafeJam"))
       /\ escrowed' = EscrowAfter(r.events)
       /\ undecided' = (undecided \/ Reports(r.events, "Read"))
  /\ At(t, "top")
  /\ UNCHANGED <<starts, mode, stop, noisy, notes, jams>>

(* Mutant: the escrow belongs to the thread: a round starts it anew.       *)
PollQueuedAnew(t) ==
  /\ thread[t] = "lap" /\ PortFree
  /\ mode[t] = "queue" /\ ~escrowed
  /\ \E r \in Replies(OnPoll(dev)) :
       /\ dev' = r.dev
       /\ jam' = (jam \/ r.status = "UnsafeJam" \/ Reports(r.events, "UnsafeJam"))
       /\ escrowed' = (r.events # <<>> /\ r.events[1].kind = "Read")
       /\ undecided' = (undecided \/ Reports(r.events, "Read"))
  /\ At(t, "top")
  /\ UNCHANGED <<starts, mode, stop, noisy, notes, jams>>

PollQueued(t) ==
  /\ thread[t] = "lap" /\ PortFree
  /\ mode[t] = "queue" /\ ~escrowed
  /\ \E r \in Replies(OnPoll(dev)) :
       /\ dev' = r.dev
       /\ jam' = (jam \/ r.status = "UnsafeJam" \/ Reports(r.events, "UnsafeJam"))
       /\ escrowed' = EscrowAfter(r.events)
       /\ undecided' = (undecided \/ Reports(r.events, "Read"))
  /\ At(t, "top")
  /\ UNCHANGED <<starts, mode, stop, noisy, notes, jams>>

(* Mutant: a thread in automatic mode leaves a note to the clients, too.   *)
PollAutoHolds(t) ==
  /\ thread[t] = "lap" /\ PortFree
  /\ mode[t] = "auto"
  /\ \E r \in Replies(IF escrowed THEN OnCommand(dev) ELSE OnPoll(dev)) :
       /\ dev' = r.dev
       /\ jam' = (jam \/ r.status = "UnsafeJam")
  /\ At(t, "top")
  /\ UNCHANGED <<starts, mode, stop, escrowed, undecided, noisy, notes, jams>>

(* ESCROWED is not looked at, the events are logged and dropped.           *)
PollAuto(t) ==
  /\ thread[t] = "lap" /\ PortFree
  /\ mode[t] = "auto"
  /\ \E r \in Replies(OnPoll(dev)) :
       /\ dev' = r.dev
       /\ jam' = (jam \/ r.status = "UnsafeJam")
  /\ At(t, "top")
  /\ UNCHANGED <<starts, mode, stop, escrowed, undecided, noisy, notes, jams>>

(* set_polling_inited(false) by the thread, whoever is starting just now.  *)
End(t) ==
  /\ thread[t] = "ending"
  /\ inited' = FALSE
  /\ At(t, "done")
  /\ UNCHANGED <<caller, wants, mode, stop, flags, dev, notes, jams>>

ThreadStep(t) ==
  \/ Look(t) \/ PortTimesOut(t) \/ ResetJam(t) \/ JamOver(t)
  \/ Hold(t) \/ PollQueued(t) \/ PollAuto(t) \/ End(t)

-----------------------------------------------------------------------------
(* The application decides once per note it was told of; the world         *)

Stack ==
  /\ undecided /\ PortFree
  /\ \E r \in Replies(OnPoll(dev)) :
       /\ dev' = r.dev
       /\ escrowed' = (escrowed /\ r.status # "Ok")
       /\ undecided' = (r.status # "Ok")
  /\ UNCHANGED <<starts, thread, mode, stop, jam, noisy, notes, jams>>

Reject ==
  /\ undecided /\ PortFree
  /\ \E r \in Replies(OnReject(dev)) :
       /\ dev' = r.dev
       /\ escrowed' = (escrowed /\ r.status # "Ok")
       /\ undecided' = (r.status # "Ok")
  /\ UNCHANGED <<starts, thread, mode, stop, jam, noisy, notes, jams>>

InsertNote(v) ==
  /\ dev.note = 0 /\ ~dev.jammed /\ notes < MaxNotes
  /\ dev' = [dev EXCEPT !.note = v]
  /\ notes' = notes + 1
  /\ UNCHANGED <<starts, thread, mode, stop, flags, jams>>

Jam ==
  /\ ~dev.jammed /\ jams < MaxJams
  /\ dev' = [dev EXCEPT !.jammed = TRUE]
  /\ jams' = jams + 1
  /\ UNCHANGED <<starts, thread, mode, stop, flags, notes>>

Init ==
  /\ caller = [c \in Callers |-> "ready"]
  /\ \E m \in Modes : wants = [c \in Callers |-> m] /\ mode = [t \in Threads |-> m]
  /\ inited = FALSE
  /\ thread = [t \in Threads |-> "unborn"]
  /\ stop = [t \in Threads |-> FALSE]
  /\ escrowed = FALSE /\ jam = FALSE /\ undecided = FALSE
  /\ noisy \in {FALSE, Faults} /\ dev = IdleDevice
  /\ notes = 0 /\ jams = 0

Next ==
  \/ \E c \in Callers : CallerStep(c) \/ \E m \in Modes : Check(c, m)
  \/ \E t \in Threads : ThreadStep(t) \/ Stop(t)
  \/ Stack \/ Reject
  \/ \E v \in Values : InsertNote(v)
  \/ Jam

Spec == Init /\ [][Next]_vars

(* The scheduler runs every thread.  Nobody has to start or stop polling.  *)
Fairness ==
  /\ \A c \in Callers : WF_vars(CallerStep(c))
  /\ \A t \in Threads : WF_vars(ThreadStep(t))

FairSpec == Spec /\ Fairness

-----------------------------------------------------------------------------
(* Properties                                                              *)

(* Every variable has its type.                                            *)
TypeOK ==
  /\ caller \in [Callers -> CallerLabels] /\ wants \in [Callers -> {"auto", "queue"}]
  /\ inited \in BOOLEAN
  /\ thread \in [Threads -> ThreadLabels] /\ mode \in [Threads -> {"auto", "queue"}]
  /\ stop \in [Threads -> BOOLEAN]
  /\ escrowed \in BOOLEAN /\ jam \in BOOLEAN /\ undecided \in BOOLEAN /\ noisy \in BOOLEAN
  /\ dev.note \in Nat /\ dev.told \in BOOLEAN
  /\ notes \in Nat /\ jams \in Nat

(* "Set the global flag to disallow multiple background polling threads."  *)
(* (device_handle.rs:317, 453)                                             *)
OneThreadAtATime == \A t, u \in Threads : Running(t) /\ Running(u) => t = u

(* Nothing was lost, jammed or polled without a queue so far.              *)
Orderly ==
  /\ ~noisy /\ jams = 0
  /\ \A t \in Threads : thread[t] = "unborn" \/ mode[t] = "queue"

(* A note that the device has reported is held across stops and starts, by *)
(* any number of pollers with queues: it leaves by a decision              *)
(* (device_handle.rs:506-526).                                             *)
NoteLeavesByDecision ==
  [][Orderly /\ dev.told /\ ~dev'.told => undecided /\ ~undecided']_vars

(* ESCROWED, a static, agrees with the device whichever threads with       *)
(* queues have ended and started since the note was read                   *)
(* (device_handle.rs:41-44, 505-514).                                      *)
EscrowMirrorsDevice == Orderly => escrowed = dev.told

(* A thread that is told to stop ends, also out of the jam recovery and of *)
(* every continue; and no other does: no error ends the polling            *)
(* (device_handle.rs:327-404, 468-575).                                    *)
ThreadsEndWhenStopped ==
  /\ \A t \in Threads : Running(t) /\ stop[t] ~> thread[t] = "done"
  /\ [](\A t \in Threads : thread[t] \in {"ending", "done"} => stop[t])

(* A thread in automatic mode takes every note without anybody's decision, *)
(* whatever the threads beside it do, unless the device is jammed or       *)
(* messages are lost (device_handle.rs:313-407).                           *)
AutoPolled == \E t \in Threads : Running(t) /\ mode[t] = "auto" /\ ~stop[t]
AutoTakesNotes ==
  (dev.note # 0 /\ AutoPolled) ~> (dev.note = 0 \/ ~AutoPolled \/ dev.jammed \/ noisy)

(* "Automically handle polling events." (device_handle.rs:176): a jam that *)
(* the device reports, as a status or as an event, is recovered from.      *)
AutoHandlesJams == (dev.jammed /\ AutoPolled) ~> (~dev.jammed \/ ~AutoPolled)
=============================================================================
