------------------------ MODULE PollingLifecycleProofs ------------------------
(***************************************************************************)
(* However many callers start and stop however many threads: as long as    *)
(* nothing is lost, jammed or polled without a queue, the note that one    *)
(* thread has read is held by all of them until it is decided on, and no   *)
(* thread ends unless it is told to stop.                                  *)
(***************************************************************************)
EXTENDS PollingLifecycle, SequenceTheorems, TLAPS

QuietEvents ==
  [kind : {"DeviceReset", "Rejected", "NoteCredit"}, value : Nat, whole : BOOLEAN]

(* What the device has still to report never includes a Read or a jam.     *)
Device ==
  [note : Nat, told : BOOLEAN, jammed : BOOLEAN, stacked : Nat,
   news : Seq(QuietEvents)]

TypeInv ==
  /\ caller \in [Callers -> CallerLabels] /\ wants \in [Callers -> {"auto", "queue"}]
  /\ thread \in [Threads -> ThreadLabels] /\ mode \in [Threads -> {"auto", "queue"}]
  /\ stop \in [Threads -> BOOLEAN]
  /\ escrowed \in BOOLEAN /\ jam \in BOOLEAN /\ undecided \in BOOLEAN /\ noisy \in BOOLEAN
  /\ jams \in Nat
  /\ dev \in Device

-----------------------------------------------------------------------------
(* The replies of the device                                               *)

Typed(replies) == \A r \in replies : r.dev \in Device

LEMMA NoNews == <<>> \in Seq(QuietEvents)
OBVIOUS

LEMMA QuietNews ==
  ASSUME NEW s \in Seq(QuietEvents), NEW k \in {"DeviceReset", "Rejected", "NoteCredit"},
         NEW v \in Nat
  PROVE  /\ Append(s, DeviceEvent(k, v)) \in Seq(QuietEvents)
         /\ <<DeviceEvent(k, v)>> \in Seq(QuietEvents)
<1>1. DeviceEvent(k, v) \in QuietEvents
  BY DEF DeviceEvent, QuietEvents
<1> QED BY <1>1

LEMMA SettledTyped == ASSUME NEW d \in Device PROVE Settled(d) \in Device
BY DEF Settled, Device

LEMMA RepliesTyped ==
  ASSUME NEW d \in Device
  PROVE  Typed(OnCommand(d)) /\ Typed(OnReset(d)) /\ Typed(OnReject(d)) /\ Typed(OnPoll(d))
<1> USE DEF Typed, Reply
<1>1. Typed(OnCommand(d))
  BY SettledTyped DEF OnCommand
<1>2. Typed(OnReset(d))
  <2>1. [IdleDevice EXCEPT !.news = <<DeviceEvent("DeviceReset", 0)>>] \in Device
    BY QuietNews, NoNews DEF IdleDevice, Device
  <2> QED BY <2>1 DEF OnReset
<1>3. Typed(OnReject(d))
  <2>1. d.news \in Seq(QuietEvents)
    BY DEF Device
  <2>2. Append(d.news, DeviceEvent("Rejected", 0)) \in Seq(QuietEvents)
    BY <2>1, QuietNews
  <2>3. [Settled(d) EXCEPT !.note = 0, !.told = FALSE,
           !.news = Append(@, DeviceEvent("Rejected", 0))] \in Device
    BY <2>2 DEF Settled, Device
  <2> QED BY <2>3, SettledTyped DEF OnReject
<1>4. Typed(PollJammed(d)) /\ Typed(PollReads(d)) /\ Typed(PollIdle(d))
  <2>1. [Settled(d) EXCEPT !.news = <<>>] \in Device
    BY NoNews DEF Settled, Device
  <2>2. [Settled(d) EXCEPT !.told = TRUE, !.news = <<>>] \in Device
    BY NoNews DEF Settled, Device
  <2> QED BY <2>1, <2>2, SettledTyped DEF PollJammed, PollReads, PollIdle
<1>5. Typed(PollStacks(d))
  <2>1. d.note \in Nat
    BY DEF Device
  <2>2. <<DeviceEvent("NoteCredit", d.note)>> \in Seq(QuietEvents)
    BY <2>1, NoNews, QuietNews
  <2>3. [d EXCEPT !.note = 0, !.told = FALSE, !.stacked = d.note,
           !.news = <<DeviceEvent("NoteCredit", d.note)>>] \in Device
    BY <2>1, <2>2 DEF Device
  <2> QED BY <2>3 DEF PollStacks
<1>6. Typed(OnPoll(d))
  <2>1. d.jammed \in BOOLEAN /\ d.told \in BOOLEAN
    BY DEF Device
  <2> QED BY <1>4, <1>5, <2>1 DEF OnPoll
<1> QED BY <1>1, <1>2, <1>3, <1>6

LEMMA OutcomesTyped ==
  ASSUME dev \in Device, NEW S, Typed(S)
  PROVE  Typed(Replies(S))
<1>1. Typed(Outcomes(dev, S))
  BY SettledTyped DEF Typed, Outcomes, Reply
<1> QED BY <1>1 DEF Replies

LEMMA Exchanged ==
  ASSUME dev \in Device
  PROVE  /\ Typed(Replies(OnCommand(dev))) /\ Typed(Replies(OnReset(dev)))
         /\ Typed(Replies(OnReject(dev))) /\ Typed(Replies(OnPoll(dev)))
BY RepliesTyped, OutcomesTyped

LEMMA InitTypes == ASSUME Init PROVE TypeInv
<1>1. dev \in Device
  BY NoNews DEF Init, IdleDevice, Device
<1> QED BY <1>1, ModesAssumption, FaultsAssumption
        DEF Init, TypeInv, CallerLabels, ThreadLabels

LEMMA ThreadKeepsTypes ==
  ASSUME TypeInv, NEW t \in Threads, ThreadStep(t)
  PROVE  TypeInv'
<1> USE DEF TypeInv, ThreadLabels, At, flags, starts
<1>1. CASE Look(t)
  BY <1>1 DEF Look
<1>2. CASE PortTimesOut(t)
  BY <1>2 DEF PortTimesOut
<1>3. CASE ResetJam(t)
  BY <1>3, Exchanged DEF ResetJam, Typed
<1>4. CASE JamOver(t)
  BY <1>4 DEF JamOver
<1>5. CASE Hold(t)
  BY <1>5, Exchanged DEF Hold, Typed
<1>6. CASE PollQueued(t)
  <2>1. dev' \in Device
    BY <1>6, Exchanged DEF PollQueued, Typed
  <2>2. jam' \in BOOLEAN /\ escrowed' \in BOOLEAN /\ undecided' \in BOOLEAN
    BY <1>6 DEF PollQueued, EscrowAfter, Reports
  <2> QED BY <1>6, <2>1, <2>2 DEF PollQueued
<1>7. CASE PollAuto(t)
  BY <1>7, Exchanged DEF PollAuto, Typed
<1>8. CASE End(t)
  BY <1>8 DEF End
<1> QED BY <1>1, <1>2, <1>3, <1>4, <1>5, <1>6, <1>7, <1>8 DEF ThreadStep

LEMMA OthersKeepTypes ==
  ASSUME TypeInv,
         \/ \E c \in Callers : CallerStep(c) \/ \E m \in Modes : Check(c, m)
         \/ \E t \in Threads : Stop(t)
         \/ Stack \/ Reject \/ (\E v \in Values : InsertNote(v)) \/ Jam
         \/ UNCHANGED vars
  PROVE  TypeInv'
<1> USE DEF TypeInv, CallerLabels, ThreadLabels, flags, starts
<1>1. ASSUME NEW c \in Callers, CallerStep(c) PROVE TypeInv'
  BY <1>1 DEF CallerStep, SetInited, Spawn, Unset, Unborn
<1>2. ASSUME NEW c \in Callers, NEW m \in Modes, Check(c, m) PROVE TypeInv'
  BY <1>2, ModesAssumption DEF Check
<1>3. ASSUME NEW t \in Threads, Stop(t) PROVE TypeInv'
  BY <1>3 DEF Stop
<1>4. CASE Stack
  BY <1>4, Exchanged DEF Stack, Typed
<1>5. CASE Reject
  BY <1>5, Exchanged DEF Reject, Typed
<1>6. ASSUME NEW v \in Values, InsertNote(v) PROVE TypeInv'
  <2>1. v \in Nat
    BY BoundAssumption
  <2>2. dev' \in Device
    BY <1>6, <2>1 DEF InsertNote, Device
  <2> QED BY <1>6, <2>2 DEF InsertNote
<1>7. CASE Jam
  <2>1. dev' \in Device
    BY <1>7 DEF Jam, Device
  <2> QED BY <1>7, <2>1 DEF Jam
<1>8. CASE UNCHANGED vars
  BY <1>8 DEF vars
<1> QED BY <1>1, <1>2, <1>3, <1>4, <1>5, <1>6, <1>7, <1>8

LEMMA Types == Spec => []TypeInv
<1>1. ASSUME TypeInv, [Next]_vars PROVE TypeInv'
  BY <1>1, ThreadKeepsTypes, OthersKeepTypes DEF Next
<1> QED BY <1>1, InitTypes, PTL DEF Spec

(* The guard is a Boolean and the notes are counted.                       *)
CountInv == inited \in BOOLEAN /\ notes \in Nat

LEMMA Counted == Spec => []CountInv
<1>1. Init => CountInv
  <2>1. Init => inited \in BOOLEAN
    BY Zenon DEF Init
  <2>2. Init => notes \in Nat
    BY DEF Init
  <2> QED BY <2>1, <2>2 DEF CountInv
<1>2. ASSUME CountInv, NEW c \in Callers,
             CallerStep(c) \/ (\E m \in Modes : Check(c, m))
      PROVE  CountInv'
  <2>1. (UNCHANGED inited \/ inited' = TRUE \/ inited' = FALSE) /\ notes' = notes
    BY <1>2 DEF CallerStep, Check, SetInited, Spawn, Unset
  <2> QED BY <1>2, <2>1 DEF CountInv
<1>3. ASSUME CountInv, NEW t \in Threads, ThreadStep(t) \/ Stop(t) PROVE CountInv'
  <2>1. (UNCHANGED inited \/ inited' = FALSE) /\ notes' = notes
    BY <1>3 DEF ThreadStep, Look, PortTimesOut, ResetJam, JamOver, Hold, PollQueued,
                PollAuto, End, Stop, starts
  <2> QED BY <1>3, <2>1 DEF CountInv
<1>4. ASSUME CountInv,
             Stack \/ Reject \/ (\E v \in Values : InsertNote(v)) \/ Jam \/ UNCHANGED vars
      PROVE  CountInv'
  <2>1. UNCHANGED inited /\ (UNCHANGED notes \/ notes' = notes + 1)
    BY <1>4 DEF Stack, Reject, InsertNote, Jam, starts, vars
  <2> QED BY <1>4, <2>1 DEF CountInv
<1>5. ASSUME CountInv, [Next]_vars PROVE CountInv'
  BY <1>2, <1>3, <1>4, <1>5 DEF Next
<1> QED BY <1>1, <1>5, PTL DEF Spec

(* Every variable keeps its type, for any callers, threads and notes.      *)
THEOREM TypesCorrect == Spec => []TypeOK
<1>1. TypeInv /\ CountInv => TypeOK
  BY DEF TypeInv, CountInv, TypeOK, Device
<1> QED BY <1>1, Types, Counted, PTL

-----------------------------------------------------------------------------
(* The note in escrow                                                      *)

(* In order, ESCROWED and the application know of the note exactly when    *)
(* the device has told of it, and no jam is about.                         *)
Agreed ==
  /\ escrowed = dev.told /\ undecided = dev.told
  /\ dev.told => dev.note # 0
  /\ ~dev.jammed /\ ~jam
  /\ \A t \in Threads : thread[t] \notin {"jam", "jamWait"}

HeldInv == TypeInv /\ (Orderly => Agreed)

(* What EscrowAfter makes of the two kinds of response that come then.     *)
LEMMA EscrowOfRead ==
  ASSUME NEW s \in Seq(QuietEvents), NEW v
  PROVE  LET es == Append(s, DeviceEvent("Read", v))
         IN EscrowAfter(es) /\ Reports(es, "Read") /\ ~Reports(es, "UnsafeJam")
<1> DEFINE es == Append(s, DeviceEvent("Read", v))
<1>1. /\ Len(es) = Len(s) + 1 /\ Len(s) \in Nat
      /\ es[Len(s) + 1] = DeviceEvent("Read", v)
      /\ \A i \in 1..Len(s) : es[i] = s[i] /\ s[i] \in QuietEvents
  OBVIOUS
<1>2. DOMAIN es = 1..Len(s) + 1
  OBVIOUS
<1>3. es[Len(s) + 1].kind = "Read"
  BY <1>1 DEF DeviceEvent
<1>4. Len(s) + 1 \in DOMAIN es /\ \A j \in DOMAIN es : ~(j > Len(s) + 1)
  BY <1>1, <1>2
<1>5. \A i \in DOMAIN es : es[i].kind # "UnsafeJam"
  BY <1>1, <1>2, <1>3 DEF QuietEvents
<1> HIDE DEF es
<1>6. EscrowAfter(es)
  BY <1>3, <1>4 DEF EscrowAfter, Speaks
<1>7. Reports(es, "Read") /\ ~Reports(es, "UnsafeJam")
  BY <1>3, <1>4, <1>5 DEF Reports
<1> QED BY <1>6, <1>7 DEF es

LEMMA EscrowOfIdle ==
  ASSUME NEW s \in Seq(QuietEvents), ~escrowed
  PROVE  ~EscrowAfter(s) /\ ~Reports(s, "Read") /\ ~Reports(s, "UnsafeJam")
<1>1. \A i \in DOMAIN s : s[i] \in QuietEvents
  OBVIOUS
<1>2. \A i \in DOMAIN s : s[i].kind \in {"DeviceReset", "Rejected", "NoteCredit"}
  BY <1>1 DEF QuietEvents
<1> QED BY <1>2 DEF EscrowAfter, Reports

(* What is orderly after a step was so before it.                          *)
LEMMA OrderlyBefore ==
  ASSUME TypeInv, [Next]_vars, Orderly'
  PROVE  Orderly
<1> USE DEF TypeInv, Orderly, At, flags, starts
<1>1. ASSUME NEW c \in Callers, CallerStep(c) PROVE Orderly
  BY <1>1 DEF CallerStep, SetInited, Spawn, Unset, Unborn
<1>2. ASSUME NEW c \in Callers, NEW m \in Modes, Check(c, m) PROVE Orderly
  BY <1>2 DEF Check
<1>3. ASSUME NEW t \in Threads, ThreadStep(t) PROVE Orderly
  BY <1>3 DEF ThreadStep, Look, PortTimesOut, ResetJam, JamOver, Hold, PollQueued,
              PollAuto, End
<1>4. ASSUME NEW t \in Threads, Stop(t) PROVE Orderly
  BY <1>4 DEF Stop
<1>5. CASE Stack \/ Reject
  BY <1>5 DEF Stack, Reject
<1>6. ASSUME NEW v \in Values, InsertNote(v) PROVE Orderly
  BY <1>6 DEF InsertNote
<1>7. CASE Jam
  BY <1>7 DEF Jam
<1>8. CASE UNCHANGED vars
  BY <1>8 DEF vars
<1> QED BY <1>1, <1>2, <1>3, <1>4, <1>5, <1>6, <1>7, <1>8 DEF Next

(* A poll of a thread with a queue.                                        *)
LEMMA PollKeepsAgreed ==
  ASSUME TypeInv, Orderly, Agreed, NEW t \in Threads, PollQueued(t)
  PROVE  Agreed'
<1> USE DEF TypeInv, Agreed
<1>1. ~escrowed /\ ~dev.told /\ ~dev.jammed /\ dev.news \in Seq(QuietEvents)
  BY DEF PollQueued, Device
<1>2. Replies(OnPoll(dev)) = OnPoll(dev)
  BY DEF Orderly, Replies
<1>3. PICK r \in OnPoll(dev) :
        /\ dev' = r.dev
        /\ jam' = (jam \/ r.status = "UnsafeJam" \/ Reports(r.events, "UnsafeJam"))
        /\ escrowed' = EscrowAfter(r.events)
        /\ undecided' = (undecided \/ Reports(r.events, "Read"))
  BY <1>2 DEF PollQueued
<1>4. thread' = [thread EXCEPT ![t] = "top"]
  BY DEF PollQueued, At
<1>5. \A u \in Threads : thread'[u] \notin {"jam", "jamWait"}
  BY <1>4
<1>6. CASE dev.note # 0
  <2>1. OnPoll(dev) = PollReads(dev)
    BY <1>1, <1>6 DEF OnPoll
  <2>2. r = Reply([Settled(dev) EXCEPT !.told = TRUE, !.news = <<>>], "Ok",
                  Append(dev.news, DeviceEvent("Read", dev.note)))
    BY <1>3, <2>1 DEF PollReads
  <2>3. EscrowAfter(r.events) /\ Reports(r.events, "Read") /\ ~Reports(r.events, "UnsafeJam")
    BY <1>1, <2>2, EscrowOfRead DEF Reply
  <2>4. r.status = "Ok" /\ r.dev = [Settled(dev) EXCEPT !.told = TRUE, !.news = <<>>]
    BY <2>2 DEF Reply
  <2>5. dev'.told /\ dev'.note = dev.note /\ dev'.jammed = dev.jammed
    BY <1>3, <2>4 DEF Settled, Device
  <2>6. escrowed' /\ undecided' /\ ~jam'
    BY <1>3, <2>3, <2>4, Zenon
  <2>7. escrowed' = TRUE /\ undecided' = TRUE /\ dev'.told = TRUE
    BY <1>3, <2>3, <2>4 DEF Settled, Device
  <2> QED BY <1>1, <1>5, <1>6, <2>5, <2>6, <2>7
<1>7. CASE dev.note = 0
  <2>1. OnPoll(dev) = PollIdle(dev)
    BY <1>1, <1>7 DEF OnPoll
  <2>2. r = Reply([Settled(dev) EXCEPT !.news = <<>>], "Ok", dev.news)
    BY <1>3, <2>1 DEF PollIdle
  <2>3. ~EscrowAfter(r.events) /\ ~Reports(r.events, "Read") /\ ~Reports(r.events, "UnsafeJam")
    BY <1>1, <2>2, EscrowOfIdle DEF Reply
  <2>4. r.status = "Ok" /\ r.dev = [Settled(dev) EXCEPT !.news = <<>>]
    BY <2>2 DEF Reply
  <2>5. dev'.told = dev.told /\ dev'.note = dev.note /\ dev'.jammed = dev.jammed
    BY <1>3, <2>4 DEF Settled, Device
  <2>6. ~escrowed' /\ ~undecided' /\ ~jam'
    BY <1>1, <1>3, <2>3, <2>4
  <2>7. escrowed' \in BOOLEAN /\ undecided' \in BOOLEAN
    BY <1>3 DEF EscrowAfter, Reports
  <2> QED BY <1>1, <1>5, <2>5, <2>6, <2>7
<1>8. dev.note \in Nat
  BY DEF Device
<1> QED BY <1>6, <1>7

(* A decision: stack polls the device, reject gives the note back.         *)
LEMMA DecisionKeepsAgreed ==
  ASSUME TypeInv, Orderly, Agreed, Stack \/ Reject
  PROVE  Agreed' /\ undecided /\ ~undecided'
<1> USE DEF TypeInv, Agreed
<1>1. undecided /\ dev.told /\ dev.note # 0 /\ ~dev.jammed
  BY DEF Stack, Reject
<1>2. \A S : Replies(S) = S
  BY DEF Orderly, Replies
<1>3. jam' = jam /\ thread' = thread
  BY DEF Stack, Reject
<1>4. ~escrowed' /\ ~undecided' /\ ~dev'.told /\ ~dev'.jammed
  <2>1. CASE Stack
    <3>1. OnPoll(dev) = PollStacks(dev)
      BY <1>1 DEF OnPoll
    <3>2. PICK r \in PollStacks(dev) :
            /\ dev' = r.dev /\ escrowed' = (escrowed /\ r.status # "Ok")
            /\ undecided' = (r.status # "Ok")
      BY <2>1, <1>2, <3>1 DEF Stack
    <3>3. /\ r.dev = [dev EXCEPT !.note = 0, !.told = FALSE, !.stacked = dev.note,
                         !.news = <<DeviceEvent("NoteCredit", dev.note)>>]
          /\ r.status = "Ok"
      BY <3>2 DEF PollStacks, Reply
    <3>4. ~dev'.told /\ dev'.jammed = dev.jammed
      BY <3>2, <3>3 DEF Device
    <3> QED BY <1>1, <3>2, <3>3, <3>4
  <2>2. CASE Reject
    <3>1. PICK r \in OnReject(dev) :
            /\ dev' = r.dev /\ escrowed' = (escrowed /\ r.status # "Ok")
            /\ undecided' = (r.status # "Ok")
      BY <2>2, <1>2 DEF Reject
    <3>2. /\ r.dev = [Settled(dev) EXCEPT !.note = 0, !.told = FALSE,
                         !.news = Append(@, DeviceEvent("Rejected", 0))]
          /\ r.status = "Ok"
      BY <1>1, <3>1 DEF OnReject, Reply
    <3>3. ~dev'.told /\ dev'.jammed = dev.jammed
      BY <3>1, <3>2 DEF Settled, Device
    <3> QED BY <1>1, <3>1, <3>2, <3>3
  <2> QED BY <2>1, <2>2
<1>5. escrowed' \in BOOLEAN /\ undecided' \in BOOLEAN /\ dev'.told \in BOOLEAN
  <2>1. TypeInv'
    BY OthersKeepTypes
  <2> QED BY <2>1 DEF Device
<1> QED BY <1>1, <1>3, <1>4, <1>5

LEMMA ThreadKeepsAgreed ==
  ASSUME TypeInv, Orderly, Agreed, NEW t \in Threads, ThreadStep(t)
  PROVE  Agreed' /\ (dev.told => dev'.told)
<1> USE DEF TypeInv, Agreed, ThreadLabels, At, flags, starts
<1>0. thread[t] \notin {"jam", "jamWait"} /\ ~jam /\ dev.told \in BOOLEAN
  BY DEF Device
<1>1. CASE Look(t)
  BY <1>0, <1>1 DEF Look
<1>2. CASE PortTimesOut(t)
  BY <1>0, <1>2 DEF PortTimesOut
<1>3. CASE ResetJam(t) \/ JamOver(t)
  BY <1>0, <1>3 DEF ResetJam, JamOver
<1>4. CASE Hold(t)
  <2>1. dev' = Settled(dev)
    BY <1>4 DEF Hold, Replies, Orderly, OnCommand, Reply
  <2>2. dev'.told = dev.told /\ dev'.note = dev.note /\ dev'.jammed = dev.jammed
    BY <2>1 DEF Settled, Device
  <2> QED BY <1>0, <1>4, <2>2 DEF Hold
<1>5. CASE PollQueued(t)
  <2>1. Agreed'
    BY <1>5, PollKeepsAgreed
  <2>2. TypeInv'
    BY ThreadKeepsTypes
  <2>3. ~dev.told /\ dev'.told \in BOOLEAN
    BY <1>5, <2>2 DEF PollQueued, Device
  <2> QED BY <2>1, <2>3
<1>6. CASE PollAuto(t)
  BY <1>6 DEF PollAuto, Orderly
<1>7. CASE End(t)
  BY <1>0, <1>7 DEF End
<1> QED BY <1>1, <1>2, <1>3, <1>4, <1>5, <1>6, <1>7 DEF ThreadStep

LEMMA OthersKeepAgreed ==
  ASSUME TypeInv, Orderly, Agreed,
         \/ \E c \in Callers : CallerStep(c) \/ \E m \in Modes : Check(c, m)
         \/ \E t \in Threads : Stop(t)
         \/ (\E v \in Values : InsertNote(v)) \/ UNCHANGED vars
  PROVE  Agreed' /\ dev'.told = dev.told
<1> USE DEF TypeInv, Agreed, flags, starts
<1>1. ASSUME NEW c \in Callers, CallerStep(c) PROVE Agreed' /\ dev'.told = dev.told
  BY <1>1 DEF CallerStep, SetInited, Spawn, Unset, Unborn
<1>2. ASSUME NEW c \in Callers, NEW m \in Modes, Check(c, m)
      PROVE  Agreed' /\ dev'.told = dev.told
  BY <1>2 DEF Check
<1>3. ASSUME NEW t \in Threads, Stop(t) PROVE Agreed' /\ dev'.told = dev.told
  BY <1>3 DEF Stop
<1>4. ASSUME NEW v \in Values, InsertNote(v) PROVE Agreed' /\ dev'.told = dev.told
  <2>1. v # 0
    BY BoundAssumption
  <2>2. dev'.told = dev.told /\ dev'.note = v /\ dev'.jammed = dev.jammed
    BY <1>4 DEF InsertNote, Device
  <2> QED BY <1>4, <2>1, <2>2 DEF InsertNote
<1>5. CASE UNCHANGED vars
  BY <1>5 DEF vars
<1> QED BY <1>1, <1>2, <1>3, <1>4, <1>5

(* One step of anybody.                                                    *)
LEMMA StepKeepsAgreed ==
  ASSUME TypeInv, Orderly, Agreed, [Next]_vars
  PROVE  /\ Orderly' => Agreed'
         /\ dev.told /\ ~dev'.told => undecided /\ ~undecided'
<1>1. CASE \E t \in Threads : ThreadStep(t)
  BY <1>1, ThreadKeepsAgreed
<1>2. CASE Stack \/ Reject
  BY <1>2, DecisionKeepsAgreed
<1>3. CASE Jam
  <2>1. ~Orderly'
    BY <1>3 DEF Jam, Orderly, TypeInv
  <2>2. dev'.told = dev.told
    BY <1>3 DEF Jam, TypeInv, Device
  <2> QED BY <2>1, <2>2
<1>4. CASE \/ \E c \in Callers : CallerStep(c) \/ \E m \in Modes : Check(c, m)
           \/ \E t \in Threads : Stop(t)
           \/ (\E v \in Values : InsertNote(v)) \/ UNCHANGED vars
  BY <1>4, OthersKeepAgreed
<1> QED BY <1>1, <1>2, <1>3, <1>4 DEF Next

LEMMA Held == Spec => []HeldInv
<1>1. ASSUME Init PROVE Agreed
  BY <1>1 DEF Init, Agreed, IdleDevice
<1>2. HeldInv /\ [Next]_vars => (Orderly => Agreed)'
  BY StepKeepsAgreed, OrderlyBefore DEF HeldInv
<1> QED BY <1>1, <1>2, Types, PTL DEF Spec, HeldInv

(* ESCROWED agrees with the device across starts and stops.                *)
THEOREM Mirror == Spec => []EscrowMirrorsDevice
<1>1. HeldInv => EscrowMirrorsDevice
  BY DEF HeldInv, Agreed, EscrowMirrorsDevice
<1> QED BY <1>1, Held, PTL

(* A note that the device has told of leaves only by a decision.           *)
THEOREM Decided == Spec => NoteLeavesByDecision
<1>1. HeldInv /\ [Next]_vars =>
        [Orderly /\ dev.told /\ ~dev'.told => undecided /\ ~undecided']_vars
  BY StepKeepsAgreed DEF HeldInv
<1> QED BY <1>1, Held, PTL DEF Spec, NoteLeavesByDecision

-----------------------------------------------------------------------------
(* The end of a thread                                                     *)

EndedByStop == \A t \in Threads : thread[t] \in {"ending", "done"} => stop[t]

LEMMA ThreadEndsByStop ==
  ASSUME TypeInv, EndedByStop, NEW t \in Threads, ThreadStep(t) \/ Stop(t)
  PROVE  EndedByStop'
<1> USE DEF EndedByStop, TypeInv, At
<1>1. CASE Look(t)
  <2>1. stop' = stop /\ \A u \in Threads \ {t} : thread'[u] = thread[u]
    BY <1>1 DEF Look
  <2>2. stop[t] \/ thread'[t] \in {"jam", "lap"}
    BY <1>1 DEF Look
  <2> QED BY <2>1, <2>2
<1>2. CASE PortTimesOut(t) \/ ResetJam(t) \/ JamOver(t) \/ Hold(t) \/ PollQueued(t)
           \/ PollAuto(t)
  <2>1. stop' = stop /\ \E l \in {"top", "jamWait"} : thread' = [thread EXCEPT ![t] = l]
    BY <1>2 DEF PortTimesOut, ResetJam, JamOver, Hold, PollQueued, PollAuto
  <2> QED BY <2>1
<1>3. CASE End(t)
  BY <1>3 DEF End
<1>4. CASE Stop(t)
  BY <1>4, Zenon DEF Stop
<1> QED BY <1>1, <1>2, <1>3, <1>4 DEF ThreadStep

LEMMA OthersEndNothing ==
  ASSUME TypeInv, EndedByStop,
         \/ \E c \in Callers : CallerStep(c) \/ \E m \in Modes : Check(c, m)
         \/ Stack \/ Reject \/ (\E v \in Values : InsertNote(v)) \/ Jam
         \/ UNCHANGED vars
  PROVE  EndedByStop'
<1>1. ASSUME NEW c \in Callers, Spawn(c) PROVE EndedByStop'
  BY <1>1 DEF Spawn, Unborn, EndedByStop, TypeInv
<1>2. CASE UNCHANGED <<thread, stop>>
  BY <1>2 DEF EndedByStop
<1>3. UNCHANGED <<thread, stop>> \/ \E c \in Callers : Spawn(c)
  BY DEF CallerStep, SetInited, Unset, Check, Stack, Reject, InsertNote, Jam, vars
<1> QED BY <1>1, <1>2, <1>3

(* No thread ends unless it was told to: no error, no jam and no timeout   *)
(* ends the polling (device_handle.rs:327-404, 468-575).  It is the safety *)
(* half of ThreadsEndWhenStopped.                                          *)
THEOREM OnlyStopEnds ==
  Spec => [](\A t \in Threads : thread[t] \in {"ending", "done"} => stop[t])
<1>1. Init => EndedByStop
  BY DEF Init, EndedByStop
<1>2. TypeInv /\ EndedByStop /\ [Next]_vars => EndedByStop'
  BY ThreadEndsByStop, OthersEndNothing DEF Next
<1>3. EndedByStop <=> \A t \in Threads : thread[t] \in {"ending", "done"} => stop[t]
  BY DEF EndedByStop
<1> QED BY <1>1, <1>2, <1>3, Types, PTL DEF Spec
=============================================================================
