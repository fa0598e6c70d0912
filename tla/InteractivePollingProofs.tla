----------------------- MODULE InteractivePollingProofs -----------------------
(***************************************************************************)
(* Proofs about InteractivePolling, for any number of pollers and clients, *)
(* any notes and operations, with and without faults.                      *)
(*                                                                         *)
(* The ownership of the two locks is inductive together with the types of  *)
(* the control state (ControlInv): it needs nothing of the data.  The data *)
(* are then handled under ControlInv, whose mutual exclusion is what keeps *)
(* the flags a poller has read from changing before it polls.              *)
(***************************************************************************)
EXTENDS InteractivePolling, TLAPS

ControlInv == ThreadTypes /\ LocksFollowLabels

-----------------------------------------------------------------------------
(* How the control state may change                                        *)

(* A thread returns to where its loop or its callers start it.             *)
LEMMA LeaveKeepsControl ==
  ASSUME ControlInv, NEW t \in Threads, Leave(t)
  PROVE  ControlInv'
<1> USE ThreadAssumption DEF ControlInv, Threads
<1>1. ThreadTypes'
  BY DEF ThreadTypes, Leave, DropAll, PollerLabels, ClientLabels
<1>2. LocksFollowLabels'
  BY DEF ThreadTypes, LocksFollowLabels, Leave, DropAll, HoldsPort, HoldsKey
<1> QED BY <1>1, <1>2

(* A thread goes to a label at which it holds the locks it held.           *)
LEMMA GoKeepsControl ==
  ASSUME ControlInv, NEW t \in Threads, NEW l, Go(t, l), UNCHANGED locks,
         t \in Pollers => l \in PollerLabels,
         t \in Clients => l \in ClientLabels,
         pc[t] \in HoldsPort <=> l \in HoldsPort,
         pc[t] \in HoldsKey <=> l \in HoldsKey
  PROVE  ControlInv'
<1> USE ThreadAssumption DEF ControlInv, Threads, locks
<1>1. ThreadTypes'
  BY DEF ThreadTypes, Go
<1>2. LocksFollowLabels'
  BY DEF ThreadTypes, LocksFollowLabels, Go
<1> QED BY <1>1, <1>2

(* A lock is free before a thread takes it; the labels say what it holds.  *)
LEMMA GetPortKeepsControl ==
  ASSUME ControlInv, NEW t \in Threads, GetPort(t)
  PROVE  ControlInv'
<1> USE ThreadAssumption DEF ControlInv, Threads
<1>1. CASE TakePort(t) /\ Go(t, AfterPort(t))
  <2>1. /\ AfterPort(t) \in HoldsPort
        /\ AfterPort(t) \in HoldsKey <=> pc[t] \in HoldsKey
        /\ t \in Pollers => AfterPort(t) \in PollerLabels
        /\ t \in Clients => AfterPort(t) \in ClientLabels
    BY DEF GetPort, WaitsPort, AfterPort, ThreadTypes, HoldsPort, HoldsKey,
           PollerLabels, ClientLabels
  <2>2. ThreadTypes'
    BY <1>1, <2>1 DEF ThreadTypes, TakePort, Go
  <2>3. LocksFollowLabels'
    BY <1>1, <2>1 DEF ThreadTypes, LocksFollowLabels, TakePort, Go
  <2> QED BY <2>2, <2>3
<1>2. CASE PortTimesOut /\ Fails(t)
  BY <1>2, LeaveKeepsControl DEF Fails
<1> QED BY <1>1, <1>2 DEF GetPort

LEMMA GetKeyKeepsControl ==
  ASSUME ControlInv, NEW t \in Threads, GetKey(t)
  PROVE  ControlInv'
<1> USE ThreadAssumption DEF ControlInv, Threads
<1>1. CASE TakeKey(t) /\ Go(t, AfterKey(t))
  <2>1. /\ AfterKey(t) \in HoldsKey
        /\ AfterKey(t) \in HoldsPort <=> pc[t] \in HoldsPort
        /\ t \in Pollers => AfterKey(t) \in PollerLabels
        /\ t \in Clients => AfterKey(t) \in ClientLabels
    BY DEF GetKey, WaitsKey, AfterKey, ThreadTypes, HoldsPort, HoldsKey,
           PollerLabels, ClientLabels
  <2>2. ThreadTypes'
    BY <1>1, <2>1 DEF ThreadTypes, TakeKey, Go
  <2>3. LocksFollowLabels'
    BY <1>1, <2>1 DEF ThreadTypes, LocksFollowLabels, TakeKey, Go
  <2> QED BY <2>2, <2>3
<1>2. CASE KeyTimesOut /\ Fails(t)
  BY <1>2, LeaveKeepsControl DEF Fails
<1> QED BY <1>1, <1>2 DEF GetKey

-----------------------------------------------------------------------------
(* The locks are owned by the threads whose labels say so                  *)

LEMMA PollerKeepsControl ==
  ASSUME ControlInv, NEW p \in Pollers, PollerStep(p)
  PROVE  ControlInv'
<1> USE ThreadAssumption DEF Threads
<1> p \in Threads /\ p \notin Clients
  OBVIOUS
<1> USE GoKeepsControl, LeaveKeepsControl DEF PollerLabels, HoldsPort, HoldsKey
<1>1. CASE CheckReset(p)
  BY <1>1 DEF CheckReset
<1>2. CASE CheckJam(p)
  BY <1>2 DEF CheckJam
<1>3. CASE GetPort(p)
  BY <1>3, GetPortKeepsControl
<1>4. CASE GetKey(p)
  BY <1>4, GetKeyKeepsControl
<1>5. CASE ResetJam(p)
  BY <1>5 DEF ResetJam
<1>6. CASE JamOver(p)
  BY <1>6 DEF JamOver
<1>7. CASE Decide(p)
  BY <1>7 DEF Decide
<1>8. CASE Hold(p)
  BY <1>8 DEF Hold
<1>9. CASE Rest(p)
  BY <1>9 DEF Rest
<1>10. CASE Poll(p)
  BY <1>10 DEF Poll
<1>11. CASE Parse(p)
  BY <1>11 DEF Parse, threads, ControlInv, ThreadTypes, LocksFollowLabels
<1>12. CASE EndParse(p)
  BY <1>12 DEF EndParse
<1> QED BY <1>1, <1>2, <1>3, <1>4, <1>5, <1>6, <1>7, <1>8, <1>9, <1>10, <1>11,
           <1>12 DEF PollerStep

(* stack and reject go on without the key, reset without any lock.         *)
LEMMA SendKeepsControl ==
  ASSUME ControlInv, NEW c \in Clients, pc[c] = "send",
         NEW l \in {"stacked", "rejected"}, Go(c, l),
         keyLock' = NoThread, UNCHANGED port
  PROVE  ControlInv'
<1> USE ThreadAssumption DEF ControlInv, Threads
<1>1. ThreadTypes'
  BY DEF ThreadTypes, Go, ClientLabels
<1>2. LocksFollowLabels'
  BY DEF ThreadTypes, LocksFollowLabels, Go, HoldsPort, HoldsKey
<1> QED BY <1>1, <1>2

LEMMA ResetKeepsControl ==
  ASSUME ControlInv, NEW c \in Clients, DropAll(c), Go(c, "resetWait")
  PROVE  ControlInv'
<1> USE ThreadAssumption DEF ControlInv, Threads
<1>1. ThreadTypes'
  BY DEF ThreadTypes, Go, DropAll, ClientLabels
<1>2. LocksFollowLabels'
  BY DEF ThreadTypes, LocksFollowLabels, Go, DropAll, HoldsPort, HoldsKey
<1> QED BY <1>1, <1>2

LEMMA StartKeepsControl ==
  ASSUME ControlInv, NEW c \in Clients, NEW o \in Ops, Start(c, o)
  PROVE  ControlInv'
<1> USE ThreadAssumption DEF ControlInv, Threads, Start, locks
<1>1. ThreadTypes'
  BY DEF ThreadTypes, ClientLabels
<1>2. LocksFollowLabels'
  BY DEF ThreadTypes, LocksFollowLabels, HoldsPort, HoldsKey
<1> QED BY <1>1, <1>2

LEMMA ClientKeepsControl ==
  ASSUME ControlInv, NEW c \in Clients, ClientStep(c)
  PROVE  ControlInv'
<1> USE ThreadAssumption DEF Threads
<1> c \in Threads /\ c \notin Pollers
  OBVIOUS
<1> USE GoKeepsControl, LeaveKeepsControl DEF ClientLabels, HoldsPort, HoldsKey
<1>1. CASE GetPort(c)
  BY <1>1, GetPortKeepsControl
<1>2. CASE GetKey(c)
  BY <1>2, GetKeyKeepsControl
<1>3. CASE KeyNotSet(c)
  BY <1>3 DEF KeyNotSet, Fails
<1>4. CASE SendStack(c)
  BY <1>4, SendKeepsControl DEF SendStack, Fails
<1>5. CASE SendReject(c)
  BY <1>5, SendKeepsControl DEF SendReject, Fails
<1>6. CASE ClearEscrow(c)
  BY <1>6 DEF ClearEscrow
<1>7. CASE SendPoll(c)
  BY <1>7 DEF SendPoll
<1>8. CASE SendCommand(c)
  BY <1>8 DEF SendCommand
<1>9. CASE EnablePayout(c)
  BY <1>9 DEF EnablePayout
<1>10. CASE Payout(c)
  BY <1>10 DEF Payout
<1>11. CASE DisablePayout(c)
  BY <1>11 DEF DisablePayout
<1>12. CASE SendReset(c)
  BY <1>12, ResetKeepsControl DEF SendReset
<1>13. CASE DeviceRestarted(c)
  BY <1>13 DEF DeviceRestarted
<1>14. CASE ClearPort(c)
  BY <1>14 DEF ClearPort
<1>15. CASE Sync(c)
  BY <1>15 DEF Sync
<1>16. CASE LastPoll(c)
  BY <1>16 DEF LastPoll
<1> QED BY <1>1, <1>2, <1>3, <1>4, <1>5, <1>6, <1>7, <1>8, <1>9, <1>10, <1>11,
           <1>12, <1>13, <1>14, <1>15, <1>16 DEF ClientStep

LEMMA ControlInvInductive ==
  ASSUME ControlInv, [Next]_vars
  PROVE  ControlInv'
<1>1. CASE \E p \in Pollers : PollerStep(p)
  BY <1>1, PollerKeepsControl
<1>2. CASE \E c \in Clients : ClientStep(c) \/ \E o \in Ops : Start(c, o)
  BY <1>2, ClientKeepsControl, StartKeepsControl
<1>3. CASE UNCHANGED threads
  BY <1>3 DEF threads, ControlInv, ThreadTypes, LocksFollowLabels
<1>4. CASE \E v \in Values : InsertNote(v)
  BY <1>3, <1>4 DEF InsertNote
<1>5. CASE Jam
  BY <1>3, <1>5 DEF Jam
<1>6. CASE PopEvent
  BY <1>3, <1>6 DEF PopEvent
<1>7. CASE UNCHANGED vars
  BY <1>3, <1>7 DEF vars, threads
<1> QED BY <1>1, <1>2, <1>4, <1>5, <1>6, <1>7 DEF Next

LEMMA InitControl ==
  ASSUME Init
  PROVE  ControlInv
BY ThreadAssumption DEF Init, ControlInv, ThreadTypes, LocksFollowLabels, Threads,
   PollerLabels, ClientLabels, HoldsPort, HoldsKey

LEMMA ControlInvariant == Spec => []ControlInv
<1>1. Init => ControlInv
  BY InitControl
<1>2. ControlInv /\ [Next]_vars => ControlInv'
  BY ControlInvInductive
<1> QED BY <1>1, <1>2, PTL DEF Spec

(* On every path through a timeout, an error or a continue, a thread owns  *)
(* the port and the key exactly where the guards of its code are alive     *)
(* (device_handle.rs:466-562, 864-913, 927-990, 1099-1236, 1547-1567).     *)
THEOREM LocksCorrect == Spec => []LocksFollowLabels
<1>1. ControlInv => LocksFollowLabels
  BY DEF ControlInv
<1> QED BY <1>1, ControlInvariant, PTL

-----------------------------------------------------------------------------
(* Who waits for whom                                                      *)

(* Thread t waits for a lock that thread u has.                            *)
WaitsFor(t, u) == \/ pc[t] \in WaitsPort /\ port = u
                  \/ pc[t] \in WaitsKey /\ keyLock = u

SetKeyLabels == {"keyFirst", "serialSecond"}

(* Only set_encryption_key takes the key before the port.                  *)
SetKeyInv == \A t \in Threads : pc[t] \in SetKeyLabels => op[t] = "setKey"

LEMMA GoKeepsSetKey ==
  ASSUME ControlInv, SetKeyInv, NEW t \in Threads, NEW l, Go(t, l),
         l \in SetKeyLabels => pc[t] \in SetKeyLabels
  PROVE  SetKeyInv'
BY DEF ControlInv, ThreadTypes, SetKeyInv, Go

LEMMA LeaveKeepsSetKey ==
  ASSUME ControlInv, SetKeyInv, NEW t \in Threads, Leave(t)
  PROVE  SetKeyInv'
BY DEF ControlInv, ThreadTypes, SetKeyInv, SetKeyLabels, Leave

LEMMA LocksKeepSetKey ==
  ASSUME ControlInv, SetKeyInv, NEW t \in Threads, GetPort(t) \/ GetKey(t)
  PROVE  SetKeyInv'
<1>1. CASE GetPort(t)
  <2>1. AfterPort(t) \notin SetKeyLabels
    BY <1>1 DEF GetPort, WaitsPort, AfterPort, SetKeyLabels
  <2> QED BY <1>1, <2>1, GoKeepsSetKey, LeaveKeepsSetKey DEF GetPort, Fails
<1>2. CASE GetKey(t)
  <2>1. AfterKey(t) \in SetKeyLabels => pc[t] \in SetKeyLabels
    BY <1>2 DEF GetKey, WaitsKey, AfterKey, SetKeyLabels
  <2> QED BY <1>2, <2>1, GoKeepsSetKey, LeaveKeepsSetKey DEF GetKey, Fails
<1> QED BY <1>1, <1>2

LEMMA PollerKeepsSetKey ==
  ASSUME ControlInv, SetKeyInv, NEW p \in Pollers, PollerStep(p)
  PROVE  SetKeyInv'
<1> p \in Threads
  BY DEF Threads
<1>1. CASE GetPort(p) \/ GetKey(p)
  BY <1>1, LocksKeepSetKey
<1>2. CASE Parse(p)
  BY <1>2 DEF Parse, threads, SetKeyInv
<1>3. CASE CheckReset(p) \/ CheckJam(p) \/ ResetJam(p) \/ JamOver(p) \/ Decide(p)
           \/ Hold(p) \/ Rest(p) \/ Poll(p) \/ EndParse(p)
  <2>1. Leave(p) \/ \E l : Go(p, l) /\ l \notin SetKeyLabels
    BY <1>3 DEF CheckReset, CheckJam, ResetJam, JamOver, Decide, Hold, Rest, Poll,
                EndParse, SetKeyLabels
  <2> QED BY <2>1, GoKeepsSetKey, LeaveKeepsSetKey
<1> QED BY <1>1, <1>2, <1>3 DEF PollerStep

LEMMA ClientKeepsSetKey ==
  ASSUME ControlInv, SetKeyInv, NEW c \in Clients, ClientStep(c)
  PROVE  SetKeyInv'
<1> c \in Threads
  BY DEF Threads
<1>1. CASE GetPort(c) \/ GetKey(c)
  BY <1>1, LocksKeepSetKey
<1>2. CASE KeyNotSet(c) \/ SendStack(c) \/ SendReject(c) \/ ClearEscrow(c)
           \/ SendPoll(c) \/ SendCommand(c) \/ EnablePayout(c) \/ Payout(c)
  <2>1. Leave(c) \/ \E l : Go(c, l) /\ l \notin SetKeyLabels
    BY <1>2 DEF KeyNotSet, SendStack, SendReject, ClearEscrow, SendPoll, SendCommand,
                EnablePayout, Payout, Fails, SetKeyLabels
  <2> QED BY <2>1, GoKeepsSetKey, LeaveKeepsSetKey
<1>3. CASE DisablePayout(c) \/ SendReset(c) \/ DeviceRestarted(c) \/ ClearPort(c)
           \/ Sync(c) \/ LastPoll(c)
  <2>1. Leave(c) \/ \E l : Go(c, l) /\ l \notin SetKeyLabels
    BY <1>3 DEF DisablePayout, SendReset, DeviceRestarted, ClearPort, Sync, LastPoll,
                SetKeyLabels
  <2> QED BY <2>1, GoKeepsSetKey, LeaveKeepsSetKey
<1> QED BY <1>1, <1>2, <1>3 DEF ClientStep

LEMMA SetKeyInductive ==
  ASSUME ControlInv, SetKeyInv, [Next]_vars
  PROVE  SetKeyInv'
<1>1. ASSUME NEW c \in Clients, NEW o \in Ops, Start(c, o) PROVE SetKeyInv'
  <2>1. c \in Threads
    BY DEF Threads
  <2> QED BY <1>1, <2>1 DEF Start, ControlInv, ThreadTypes, SetKeyInv, SetKeyLabels
<1>2. CASE (\E v \in Values : InsertNote(v)) \/ Jam \/ PopEvent \/ UNCHANGED vars
  BY <1>2 DEF InsertNote, Jam, PopEvent, vars, threads, SetKeyInv
<1> QED BY <1>1, <1>2, PollerKeepsSetKey, ClientKeepsSetKey DEF Next

(* No thread waits for one that waits for one that waits, unless one of    *)
(* them is in set_encryption_key, which takes the key first: all others    *)
(* take the port first, whatever fails or times out.  Without that call no *)
(* threads wait for each other in a circle; with it the timeouts of the    *)
(* locks have to end it (device_handle.rs:927-990, 1547-1567).             *)
THEOREM WaitsEnd ==
  Spec => [](\A t, u, v, w \in Threads :
               WaitsFor(t, u) /\ WaitsFor(u, v) /\ WaitsFor(v, w) =>
                 op[u] = "setKey" \/ op[v] = "setKey")
<1> DEFINE Ends == \A t, u, v, w \in Threads :
                     WaitsFor(t, u) /\ WaitsFor(u, v) /\ WaitsFor(v, w) =>
                       op[u] = "setKey" \/ op[v] = "setKey"
<1>1. Init => SetKeyInv
  BY DEF Init, SetKeyInv, SetKeyLabels
<1>2. ControlInv /\ SetKeyInv /\ [Next]_vars => SetKeyInv'
  BY SetKeyInductive
<1>3. ASSUME ControlInv, SetKeyInv PROVE Ends
  <2> SUFFICES ASSUME NEW t \in Threads, NEW u \in Threads, NEW v \in Threads,
                      NEW w \in Threads,
                      WaitsFor(t, u), WaitsFor(u, v), WaitsFor(v, w)
               PROVE  pc[u] \in SetKeyLabels \/ pc[v] \in SetKeyLabels
    BY <1>3 DEF SetKeyInv
  <2>1. \A s \in {u, v} : pc[s] \in HoldsKey /\ pc[s] \in WaitsPort \cup WaitsKey =>
                            pc[s] \in SetKeyLabels
    BY DEF HoldsKey, WaitsPort, WaitsKey, SetKeyLabels
  <2>2. (port = u \/ keyLock = u) /\ pc[u] \in WaitsPort \cup WaitsKey
    BY DEF WaitsFor
  <2>3. CASE keyLock = u
    BY <1>3, <2>1, <2>2, <2>3 DEF ControlInv, LocksFollowLabels
  <2>4. CASE port = u
    <3>1. pc[u] \in HoldsPort /\ pc[u] \in WaitsKey /\ pc[u] \notin WaitsPort
      BY <1>3, <2>2, <2>4
         DEF ControlInv, LocksFollowLabels, HoldsPort, WaitsPort, WaitsKey
    <3>2. keyLock = v /\ pc[v] \in WaitsPort \cup WaitsKey
      BY <3>1 DEF WaitsFor
    <3> QED BY <1>3, <2>1, <3>2 DEF ControlInv, LocksFollowLabels
  <2> QED BY <2>2, <2>3, <2>4
<1> QED BY <1>1, <1>2, <1>3, ControlInvariant, PTL DEF Spec

-----------------------------------------------------------------------------
(* The device and the parser keep the types                                *)

TypedReplies(rs) == \A r \in rs : r.dev \in Device /\ r.events \in Seq(Parser!Event)

LEMMA SettledTyped ==
  ASSUME NEW d \in Device
  PROVE  Settled(d) \in Device
BY DEF Settled, Device

LEMMA DeviceEventTyped ==
  ASSUME NEW v \in Values \cup {0},
         NEW k \in {"DeviceReset", "Rejected", "UnsafeJam", "NoteCredit",
                    "Stacking", "Read"}
  PROVE  DeviceEvent(k, v) \in Parser!Event
BY DEF DeviceEvent, Parser!Event, Parser!Kinds, Parser!Forwarded, Parser!NoteMoved,
       Parser!CashboxGone, Parser!OneByte

LEMMA ReplyTyped ==
  ASSUME NEW d \in Device, NEW status, NEW es \in Seq(Parser!Event)
  PROVE  /\ Reply(d, status, es).dev \in Device
         /\ Reply(d, status, es).events \in Seq(Parser!Event)
BY DEF Reply

LEMMA NoEvents == <<>> \in Seq(Parser!Event)
OBVIOUS

(* A lost reply or a refusal keeps the types that the replies have.        *)
LEMMA OutcomesTyped ==
  ASSUME NEW d \in Device, NEW rs, TypedReplies(rs)
  PROVE  TypedReplies(Outcomes(d, rs))
<1>2. ASSUME NEW r \in Outcomes(d, rs)
      PROVE  r.dev \in Device /\ r.events \in Seq(Parser!Event)
  <2>1. CASE r \in rs
    BY <2>1 DEF TypedReplies
  <2>2. CASE \E q \in rs : r = Reply(q.dev, "Err", <<>>)
    BY <2>2, ReplyTyped, NoEvents DEF TypedReplies
  <2>3. CASE r \in {Reply(Settled(d), "Err", <<>>), Reply(Settled(d), "Busy", <<>>)}
    BY <2>3, SettledTyped, ReplyTyped, NoEvents
  <2> QED BY <1>2, <2>1, <2>2, <2>3 DEF Outcomes
<1> QED BY <1>2 DEF TypedReplies

LEMMA CommandTyped ==
  ASSUME NEW d \in Device
  PROVE  TypedReplies(Outcomes(d, OnCommand(d)))
<1>1. TypedReplies(OnCommand(d))
  BY SettledTyped, ReplyTyped, NoEvents DEF TypedReplies, OnCommand
<1> QED BY <1>1, OutcomesTyped

LEMMA ResetTyped ==
  ASSUME NEW d \in Device
  PROVE  TypedReplies(Outcomes(d, OnReset(d)))
<1>1. <<DeviceEvent("DeviceReset", 0)>> \in Seq(Parser!Event)
  <2>1. DeviceEvent("DeviceReset", 0) \in Parser!Event
    BY DeviceEventTyped
  <2> QED BY <2>1
<1>2. IdleDevice \in Device
  BY DEF IdleDevice, Device
<1>3. [IdleDevice EXCEPT !.news = <<DeviceEvent("DeviceReset", 0)>>] \in Device
  BY <1>1, <1>2 DEF Device
<1>4. TypedReplies(OnReset(d))
  BY <1>3, ReplyTyped, NoEvents DEF TypedReplies, OnReset
<1> QED BY <1>4, OutcomesTyped

LEMMA RejectTyped ==
  ASSUME NEW d \in Device
  PROVE  TypedReplies(Outcomes(d, OnReject(d)))
<1>1. Settled(d) \in Device
  BY SettledTyped
<1>2. Append(Settled(d).news, DeviceEvent("Rejected", 0)) \in Seq(Parser!Event)
  <2>1. DeviceEvent("Rejected", 0) \in Parser!Event
    BY DeviceEventTyped
  <2>2. Settled(d).news \in Seq(Parser!Event)
    BY <1>1 DEF Device
  <2> QED BY <2>1, <2>2
<1>3. [Settled(d) EXCEPT !.note = 0, !.told = FALSE,
         !.news = Append(@, DeviceEvent("Rejected", 0))] \in Device
  BY <1>1, <1>2 DEF Device
<1>4. TypedReplies(OnReject(d))
  BY <1>1, <1>3, ReplyTyped, NoEvents DEF TypedReplies, OnReject
<1> QED BY <1>4, OutcomesTyped

LEMMA PollTyped ==
  ASSUME NEW d \in Device
  PROVE  TypedReplies(Outcomes(d, OnPoll(d)))
<1> d.note \in Values \cup {0} /\ d.news \in Seq(Parser!Event)
    /\ d.told \in BOOLEAN /\ d.jammed \in BOOLEAN
  BY DEF Device
<1>1. Settled(d) \in Device
  BY SettledTyped
<1>0. [Settled(d) EXCEPT !.news = <<>>] \in Device
  BY <1>1, NoEvents DEF Device
<1>2. TypedReplies(PollJammed(d))
  <2>1. Append(d.news, DeviceEvent("UnsafeJam", 0)) \in Seq(Parser!Event)
    BY DeviceEventTyped
  <2> QED BY <1>1, <1>0, <2>1, ReplyTyped, NoEvents DEF TypedReplies, PollJammed
<1>3. TypedReplies(PollStacks(d))
  <2>1. Append(d.news, DeviceEvent("Stacking", 0)) \in Seq(Parser!Event)
    BY DeviceEventTyped
  <2>2. <<DeviceEvent("NoteCredit", d.note)>> \in Seq(Parser!Event)
    BY DeviceEventTyped
  <2>3. [d EXCEPT !.note = 0, !.told = FALSE, !.stacked = d.note,
           !.news = <<DeviceEvent("NoteCredit", d.note)>>] \in Device
    BY <2>2 DEF Device
  <2> QED BY <2>1, <2>3, ReplyTyped DEF TypedReplies, PollStacks
<1>4. TypedReplies(PollReads(d))
  <2>1. Append(d.news, DeviceEvent("Read", d.note)) \in Seq(Parser!Event)
    BY DeviceEventTyped
  <2>2. [Settled(d) EXCEPT !.told = TRUE, !.news = <<>>] \in Device
    BY <1>1, NoEvents DEF Device
  <2> QED BY <2>1, <2>2, ReplyTyped DEF TypedReplies, PollReads
<1>5. TypedReplies(PollIdle(d))
  BY <1>0, ReplyTyped DEF TypedReplies, PollIdle
<1>6. TypedReplies(OnPoll(d))
  BY <1>2, <1>3, <1>4, <1>5 DEF OnPoll
<1> QED BY <1>6, OutcomesTyped

(* One round of parse_events: the flags keep their types, idx stays within *)
(* the response or one past it, and the response stays as it is.           *)
ParserTypes ==
  /\ escrowed \in BOOLEAN /\ amount \in Values \cup {0}
  /\ cashbox \in BOOLEAN /\ jam \in BOOLEAN
  /\ data \in Seq(Parser!Event) /\ idx \in 1..Len(data) + 1
  /\ queue \in Seq(Parser!Event)

LEMMA ParseTyped ==
  ASSUME ParserTypes, Parser!ParseEvent
  PROVE  ParserTypes' /\ UNCHANGED data
<1> DEFINE e == data[idx]
<1>1. /\ e \in Parser!Event /\ idx \in 1..Len(data)
      /\ e.value \in Values \cup {0}
  <2>1. e \in Parser!Event /\ idx \in 1..Len(data)
    BY DEF ParserTypes, Parser!ParseEvent, Parser!Parsing
  <2> QED BY <2>1 DEF Parser!Event
<1>2. Parser!BackNotice(e) \in Seq(Parser!Event)
  <2>1. Parser!Plain("CashboxReplaced") \in Parser!Event
    BY DEF Parser!Plain, Parser!Event, Parser!Kinds
  <2>2. <<Parser!Plain("CashboxReplaced")>> \in Seq(Parser!Event)
    BY <2>1
  <2> QED BY <2>2, NoEvents DEF Parser!BackNotice
<1> HIDE DEF e
<1>3. ASSUME NEW es \in Seq(Parser!Event), Parser!Advance(e, es)
      PROVE  UNCHANGED data /\ idx' \in 1..Len(data) + 1 /\ queue' \in Seq(Parser!Event)
  BY <1>1, <1>2, <1>3 DEF ParserTypes, Parser!Advance, Parser!Send
<1>4. <<e>> \in Seq(Parser!Event) /\ <<>> \in Seq(Parser!Event)
  BY <1>1
<1> USE <1>1, <1>3, <1>4 DEF ParserTypes
<1>5. CASE Parser!NoticeFails(e)
  BY <1>5 DEF Parser!NoticeFails
<1>6. CASE Parser!Unparsable(e)
  BY <1>2, <1>6 DEF Parser!Unparsable, Parser!Send, Parser!CashboxIsBack
<1>7. CASE Parser!Forward(e)
  BY <1>7 DEF Parser!Forward, Parser!CashboxSeen, Parser!CashboxIsBack
<1>8. CASE Parser!ReadNote(e)
  BY <1>8 DEF Parser!ReadNote, Parser!CashboxSeen, Parser!CashboxIsBack
<1>9. CASE Parser!CreditNote(e)
  BY <1>9 DEF Parser!CreditNote, Parser!CashboxSeen, Parser!CashboxIsBack
<1>10. CASE Parser!MoveNote(e)
  BY <1>10 DEF Parser!MoveNote, Parser!CashboxSeen, Parser!CashboxIsBack
<1>11. CASE Parser!LoseCashbox(e)
  BY <1>11 DEF Parser!LoseCashbox
<1>12. CASE Parser!ReplaceCashbox(e)
  BY <1>12 DEF Parser!ReplaceCashbox
<1>13. CASE Parser!JamNote(e)
  BY <1>13 DEF Parser!JamNote, Parser!CashboxSeen, Parser!CashboxIsBack
<1>14. CASE Parser!Ignore(e)
  BY <1>14 DEF Parser!Ignore, Parser!CashboxSeen, Parser!CashboxIsBack
<1> QED BY <1>5, <1>6, <1>7, <1>8, <1>9, <1>10, <1>11, <1>12, <1>13, <1>14
       DEF Parser!ParseEvent, Parser!Parsed, e

-----------------------------------------------------------------------------
(* The data under the locks                                                *)

(* Only a poller that has polled works on a response.                      *)
ResponseBeingParsed == data # <<>> => \E p \in Pollers : pc[p] = "parse"

DataInv == DataTypes /\ PollerRespectsFlags /\ ResponseBeingParsed

(* A thread with the port is the only one.                                 *)
LEMMA PortExcludes ==
  ASSUME ControlInv, NEW t \in Threads, NEW u \in Threads,
         pc[t] \in HoldsPort, pc[u] \in HoldsPort
  PROVE  t = u
BY DEF ControlInv, LocksFollowLabels

(* Steps that touch neither the flags nor the response, and by which no    *)
(* poller starts to poll or ends parsing.                                  *)
LEMMA OtherStepsKeepData ==
  ASSUME DataInv, UNCHANGED <<parsed, dispensing>>,
         resetting' \in BOOLEAN, undecided' \in BOOLEAN, dev' \in Device,
         notes' \in Nat, jams' \in Nat, resets' \in Nat,
         \A p \in Pollers : pc'[p] = "poll" => pc[p] = "poll",
         \A p \in Pollers : pc[p] = "parse" => pc'[p] = "parse"
  PROVE  DataInv'
<1> USE DEF DataInv, parsed
<1>1. DataTypes'
  BY DEF DataTypes
<1>2. PollerRespectsFlags'
  BY DEF PollerRespectsFlags
<1>3. ResponseBeingParsed'
  BY DEF ResponseBeingParsed
<1> QED BY <1>1, <1>2, <1>3

(* Where the pollers are after a thread has gone somewhere.                *)
LEMMA GoMovesOne ==
  ASSUME ControlInv, NEW t \in Threads, NEW l, Go(t, l)
  PROVE  /\ pc'[t] = l
         /\ \A u \in Threads : u # t => pc'[u] = pc[u]
BY DEF ControlInv, ThreadTypes, Go

LEMMA LeaveMovesOne ==
  ASSUME ControlInv, NEW t \in Threads, Leave(t)
  PROVE  /\ pc'[t] \in {"idle", "ready"}
         /\ \A u \in Threads : u # t => pc'[u] = pc[u]
BY DEF ControlInv, ThreadTypes, Leave

(* No poller starts to poll or ends parsing by a step of t from l to m.    *)
LEMMA QuietGo ==
  ASSUME ControlInv, NEW t \in Threads, NEW l, Go(t, l), l # "poll",
         pc[t] # "parse"
  PROVE  /\ \A p \in Pollers : pc'[p] = "poll" => pc[p] = "poll"
         /\ \A p \in Pollers : pc[p] = "parse" => pc'[p] = "parse"
BY GoMovesOne DEF Threads

LEMMA QuietLeave ==
  ASSUME ControlInv, NEW t \in Threads, Leave(t), pc[t] # "parse"
  PROVE  /\ \A p \in Pollers : pc'[p] = "poll" => pc[p] = "poll"
         /\ \A p \in Pollers : pc[p] = "parse" => pc'[p] = "parse"
BY LeaveMovesOne DEF Threads

LEMMA LockStepKeepsData ==
  ASSUME ControlInv, DataInv, NEW t \in Threads, GetPort(t) \/ GetKey(t)
  PROVE  DataInv'
<1>1. GetPort(t) => pc[t] # "parse" /\ AfterPort(t) # "poll"
  BY DEF GetPort, WaitsPort, AfterPort
<1>2. GetKey(t) => pc[t] # "parse" /\ AfterKey(t) # "poll"
  BY DEF GetKey, WaitsKey, AfterKey
<1>3. /\ \A p \in Pollers : pc'[p] = "poll" => pc[p] = "poll"
      /\ \A p \in Pollers : pc[p] = "parse" => pc'[p] = "parse"
  BY <1>1, <1>2, QuietGo, QuietLeave DEF GetPort, GetKey, Fails
<1>4. undecided' \in BOOLEAN
  BY DEF DataInv, DataTypes, GetPort, GetKey, Fails
<1> QED BY <1>3, <1>4, OtherStepsKeepData
       DEF GetPort, GetKey, DataInv, DataTypes, bounds

LEMMA PollerKeepsData ==
  ASSUME ControlInv, DataInv, NEW p \in Pollers, PollerStep(p)
  PROVE  DataInv'
<1> p \in Threads /\ Pollers \subseteq Threads
  BY DEF Threads
<1> DEFINE Quiet == /\ \A q \in Pollers : pc'[q] = "poll" => pc[q] = "poll"
                    /\ \A q \in Pollers : pc[q] = "parse" => pc'[q] = "parse"
<1>a. ASSUME pc[p] \in HoldsPort
      PROVE  \A q \in Pollers : q # p => pc[q] # "poll" /\ pc[q] # "parse"
  BY <1>a, PortExcludes DEF HoldsPort
<1>b. ASSUME pc[p] \in {"decide", "poll"}
      PROVE  data = <<>>
  BY <1>a, <1>b DEF HoldsPort, DataInv, ResponseBeingParsed
<1>1. CASE CheckReset(p) \/ CheckJam(p) \/ Rest(p)
  <2>1. Quiet
    BY <1>1, QuietGo, QuietLeave DEF CheckReset, CheckJam, Rest
  <2> QED BY <1>1, <2>1, OtherStepsKeepData
          DEF CheckReset, CheckJam, Rest, DataInv, DataTypes, bounds
<1>2. CASE GetPort(p) \/ GetKey(p)
  BY <1>2, LockStepKeepsData
<1>3. CASE ResetJam(p)
  <2>1. Quiet
    BY <1>3, QuietGo, QuietLeave DEF ResetJam
  <2>2. dev' \in Device
    BY <1>3, ResetTyped DEF ResetJam, TypedReplies, DataInv, DataTypes
  <2> QED BY <1>3, <2>1, <2>2, OtherStepsKeepData
          DEF ResetJam, DataInv, DataTypes, bounds
<1>4. CASE JamOver(p)
  <2>1. Quiet
    BY <1>4, QuietLeave DEF JamOver
  <2>2. DataTypes'
    BY <1>4 DEF JamOver, DataInv, DataTypes, bounds
  <2>3. PollerRespectsFlags'
    BY <1>4, <2>1 DEF JamOver, DataInv, PollerRespectsFlags
  <2>4. ResponseBeingParsed'
    BY <1>4, <2>1 DEF JamOver, DataInv, ResponseBeingParsed
  <2> QED BY <2>2, <2>3, <2>4 DEF DataInv
<1>5. CASE Decide(p)
  <2>1. pc'[p] = "poll" => ~escrowed /\ ~dispensing /\ data = <<>>
    BY <1>5, <1>b, GoMovesOne DEF Decide
  <2>2. \A q \in Pollers : q # p => pc'[q] # "poll"
    BY <1>5, <1>a, GoMovesOne DEF Decide, HoldsPort
  <2>3. DataTypes'
    BY <1>5 DEF Decide, parsed, DataInv, DataTypes, bounds
  <2>4. PollerRespectsFlags'
    BY <1>5, <2>1, <2>2 DEF Decide, parsed, PollerRespectsFlags
  <2>5. ResponseBeingParsed'
    BY <1>5, <1>b DEF Decide, parsed, ResponseBeingParsed
  <2> QED BY <2>3, <2>4, <2>5 DEF DataInv
<1>6. CASE Hold(p)
  <2>1. Quiet
    BY <1>6, QuietGo, QuietLeave DEF Hold
  <2>2. dev' \in Device
    BY <1>6, CommandTyped DEF Hold, TypedReplies, DataInv, DataTypes
  <2> QED BY <1>6, <2>1, <2>2, OtherStepsKeepData
          DEF Hold, DataInv, DataTypes, bounds
<1>7. CASE Poll(p)
  <2>1. PICK r \in Outcomes(dev, OnPoll(dev)) :
          /\ dev' = r.dev
          /\ jam' = (jam \/ r.status = "UnsafeJam")
          /\ IF r.status = "Ok"
             THEN data' = r.events /\ Go(p, "parse") /\ UNCHANGED locks
             ELSE UNCHANGED data /\ Leave(p)
    BY <1>7 DEF Poll
  <2>2. dev' \in Device /\ r.events \in Seq(Parser!Event)
    BY <2>1, PollTyped DEF TypedReplies, DataInv, DataTypes
  <2>3. data = <<>> /\ idx = 1
    BY <1>7, <1>b DEF Poll, DataInv, DataTypes
  <2>4. DataTypes'
    <3>1. data' \in Seq(Parser!Event)
      BY <2>1, <2>2, <2>3, NoEvents
    <3>2. idx' \in 1..Len(data') + 1
      BY <1>7, <2>3, <3>1 DEF Poll
    <3>3. jam' \in BOOLEAN
      BY <2>1 DEF DataInv, DataTypes
    <3> QED BY <1>7, <2>2, <3>1, <3>2, <3>3 DEF Poll, DataInv, DataTypes, bounds
  <2>5. \A q \in Pollers : pc'[q] # "poll"
    BY <1>7, <1>a, <2>1, GoMovesOne, LeaveMovesOne DEF Poll, HoldsPort
  <2>6. data' # <<>> => pc'[p] = "parse"
    BY <2>1, <2>3, GoMovesOne
  <2> QED BY <2>4, <2>5, <2>6 DEF DataInv, PollerRespectsFlags, ResponseBeingParsed
<1>8. CASE Parse(p)
  <2>1. ParserTypes
    BY DEF DataInv, DataTypes, ParserTypes
  <2>2. ParserTypes' /\ UNCHANGED data
    BY <1>8, <2>1, ParseTyped DEF Parse
  <2>3. DataTypes'
    BY <1>8, <2>2 DEF Parse, DataInv, DataTypes, ParserTypes, bounds
  <2>4. \A q \in Pollers : pc'[q] # "poll"
    BY <1>8, <1>a DEF Parse, HoldsPort, threads
  <2>5. pc'[p] = "parse"
    BY <1>8 DEF Parse, threads
  <2> QED BY <2>3, <2>4, <2>5 DEF DataInv, PollerRespectsFlags, ResponseBeingParsed
<1>9. CASE EndParse(p)
  <2>1. DataTypes'
    BY <1>9, NoEvents DEF EndParse, DataInv, DataTypes, bounds
  <2>2. \A q \in Pollers : pc'[q] # "poll"
    BY <1>9, <1>a, LeaveMovesOne DEF EndParse, HoldsPort
  <2>3. data' = <<>>
    BY <1>9 DEF EndParse
  <2> QED BY <2>1, <2>2, <2>3 DEF DataInv, PollerRespectsFlags, ResponseBeingParsed
<1> QED BY <1>1, <1>2, <1>3, <1>4, <1>5, <1>6, <1>7, <1>8, <1>9 DEF PollerStep

LEMMA ClientKeepsData ==
  ASSUME ControlInv, DataInv, NEW c \in Clients, ClientStep(c)
  PROVE  DataInv'
<1> c \in Threads /\ c \notin Pollers
  BY ThreadAssumption DEF Threads
<1> DEFINE Quiet == /\ \A q \in Pollers : pc'[q] = "poll" => pc[q] = "poll"
                    /\ \A q \in Pollers : pc[q] = "parse" => pc'[q] = "parse"
<1>a. ASSUME pc[c] \in HoldsPort
      PROVE  \A q \in Pollers : pc[q] # "poll"
  BY <1>a, PortExcludes DEF HoldsPort, Threads
<1> dev \in Device
  BY DEF DataInv, DataTypes
<1>1. CASE GetPort(c) \/ GetKey(c)
  BY <1>1, LockStepKeepsData
<1>2. CASE KeyNotSet(c) \/ DeviceRestarted(c) \/ ClearPort(c)
  <2>1. Quiet
    BY <1>2, QuietGo, QuietLeave DEF KeyNotSet, DeviceRestarted, ClearPort, Fails
  <2>2. undecided' \in BOOLEAN
    BY <1>2 DEF KeyNotSet, DeviceRestarted, ClearPort, Fails, DataInv, DataTypes
  <2> QED BY <1>2, <2>1, <2>2, OtherStepsKeepData
          DEF KeyNotSet, DeviceRestarted, ClearPort, DataInv, DataTypes, bounds
<1>3. CASE SendStack(c)
  <2>1. Quiet
    BY <1>3, QuietGo, QuietLeave DEF SendStack, Fails
  <2>2. dev' \in Device /\ undecided' \in BOOLEAN
    BY <1>3, PollTyped DEF SendStack, Fails, TypedReplies, DataInv, DataTypes
  <2> QED BY <1>3, <2>1, <2>2, OtherStepsKeepData
          DEF SendStack, DataInv, DataTypes, bounds
<1>4. CASE SendReject(c)
  <2>1. Quiet
    BY <1>4, QuietGo, QuietLeave DEF SendReject, Fails
  <2>2. dev' \in Device /\ undecided' \in BOOLEAN
    BY <1>4, RejectTyped DEF SendReject, Fails, TypedReplies, DataInv, DataTypes
  <2> QED BY <1>4, <2>1, <2>2, OtherStepsKeepData
          DEF SendReject, DataInv, DataTypes, bounds
<1>5. CASE ClearEscrow(c)
  <2>1. Quiet
    BY <1>5, QuietLeave DEF ClearEscrow
  <2>2. DataTypes'
    BY <1>5 DEF ClearEscrow, DataInv, DataTypes, bounds
  <2>3. PollerRespectsFlags'
    BY <1>5, <2>1 DEF ClearEscrow, DataInv, PollerRespectsFlags
  <2>4. ResponseBeingParsed'
    BY <1>5, <2>1 DEF ClearEscrow, DataInv, ResponseBeingParsed
  <2> QED BY <2>2, <2>3, <2>4 DEF DataInv
<1>6. CASE SendPoll(c) \/ LastPoll(c)
  <2>1. Quiet
    BY <1>6, QuietLeave DEF SendPoll, LastPoll
  <2>2. dev' \in Device
    BY <1>6, PollTyped DEF SendPoll, LastPoll, TypedReplies
  <2> QED BY <1>6, <2>1, <2>2, OtherStepsKeepData
          DEF SendPoll, LastPoll, DataInv, DataTypes, bounds
<1>7. CASE SendCommand(c) \/ Payout(c)
  <2>1. Quiet
    BY <1>7, QuietGo, QuietLeave DEF SendCommand, Payout
  <2>2. dev' \in Device
    BY <1>7, CommandTyped DEF SendCommand, Payout, TypedReplies
  <2> QED BY <1>7, <2>1, <2>2, OtherStepsKeepData
          DEF SendCommand, Payout, DataInv, DataTypes, bounds
<1>8. CASE EnablePayout(c) \/ DisablePayout(c)
  <2>1. Quiet
    BY <1>8, QuietGo, QuietLeave DEF EnablePayout, DisablePayout
  <2>2. dev' \in Device
    BY <1>8, CommandTyped DEF EnablePayout, DisablePayout, TypedReplies
  <2>3. DataTypes'
    BY <1>8, <2>2 DEF EnablePayout, DisablePayout, parsed, DataInv, DataTypes, bounds
  <2>4. PollerRespectsFlags'
    BY <1>8, <1>a, <2>1 DEF EnablePayout, DisablePayout, HoldsPort, PollerRespectsFlags
  <2>5. ResponseBeingParsed'
    BY <1>8, <2>1 DEF EnablePayout, DisablePayout, parsed, DataInv, ResponseBeingParsed
  <2> QED BY <2>3, <2>4, <2>5 DEF DataInv
<1>9. CASE SendReset(c)
  <2>1. Quiet
    BY <1>9, QuietGo, QuietLeave DEF SendReset
  <2>2. dev' \in Device /\ resetting' \in BOOLEAN
    BY <1>9, ResetTyped DEF SendReset, TypedReplies, DataInv, DataTypes
  <2> QED BY <1>9, <2>1, <2>2, OtherStepsKeepData
          DEF SendReset, DataInv, DataTypes, bounds
<1>10. CASE Sync(c)
  <2>1. Quiet
    BY <1>10, QuietGo, QuietLeave DEF Sync
  <2>2. dev' \in Device /\ resetting' \in BOOLEAN
    BY <1>10, CommandTyped DEF Sync, TypedReplies, DataInv, DataTypes
  <2> QED BY <1>10, <2>1, <2>2, OtherStepsKeepData
          DEF Sync, DataInv, DataTypes, bounds
<1> QED BY <1>1, <1>2, <1>3, <1>4, <1>5, <1>6, <1>7, <1>8, <1>9, <1>10 DEF ClientStep

LEMMA StartKeepsData ==
  ASSUME ControlInv, DataInv, NEW c \in Clients, NEW o \in Ops, Start(c, o)
  PROVE  DataInv'
<1>1. pc' = [pc EXCEPT ![c] = IF o = "setKey" THEN "keyFirst" ELSE "serial"]
      /\ pc[c] = "ready"
  BY DEF Start
<1>2. /\ \A q \in Pollers : pc'[q] = "poll" => pc[q] = "poll"
      /\ \A q \in Pollers : pc[q] = "parse" => pc'[q] = "parse"
  BY <1>1, ThreadAssumption DEF ControlInv, ThreadTypes, Threads
<1>3. undecided' \in BOOLEAN /\ resets' \in Nat /\ dev' \in Device
      /\ notes' \in Nat /\ jams' \in Nat /\ resetting' \in BOOLEAN
  BY DEF Start, DataInv, DataTypes
<1> QED BY <1>2, <1>3, OtherStepsKeepData DEF Start

LEMMA WorldKeepsData ==
  ASSUME ControlInv, DataInv, (\E v \in Values : InsertNote(v)) \/ Jam \/ PopEvent
  PROVE  DataInv'
<1>1. CASE \E v \in Values : InsertNote(v)
  <2>1. dev' \in Device /\ notes' \in Nat
    <3>1. PICK v \in Values : dev' = [dev EXCEPT !.note = v] /\ notes' = notes + 1
      BY <1>1 DEF InsertNote
    <3>2. dev \in Device /\ notes \in Nat
      BY DEF DataInv, DataTypes
    <3>3. [dev EXCEPT !.note = v] \in Device
      BY <3>2 DEF Device
    <3> QED BY <3>1, <3>2, <3>3
  <2> QED BY <1>1, <2>1, OtherStepsKeepData DEF InsertNote, threads, DataInv, DataTypes
<1>2. CASE Jam
  <2>1. dev' \in Device /\ jams' \in Nat
    <3>1. dev \in Device /\ jams \in Nat
      BY DEF DataInv, DataTypes
    <3>2. [dev EXCEPT !.jammed = TRUE] \in Device
      BY <3>1 DEF Device
    <3> QED BY <1>2, <3>1, <3>2 DEF Jam
  <2> QED BY <1>2, <2>1, OtherStepsKeepData DEF Jam, threads, DataInv, DataTypes
<1>3. CASE PopEvent
  <2>1. queue' \in Seq(Parser!Event) /\ undecided' \in BOOLEAN
    <3>1. queue \in Seq(Parser!Event) /\ queue # <<>> /\ undecided \in BOOLEAN
      BY <1>3 DEF PopEvent, DataInv, DataTypes
    <3>2. Tail(queue) \in Seq(Parser!Event)
      BY <3>1
    <3> QED BY <1>3, <3>1, <3>2 DEF PopEvent
  <2>2. DataTypes'
    BY <1>3, <2>1 DEF PopEvent, DataInv, DataTypes, bounds
  <2>3. PollerRespectsFlags'
    BY <1>3 DEF PopEvent, threads, DataInv, PollerRespectsFlags
  <2>4. ResponseBeingParsed'
    BY <1>3 DEF PopEvent, threads, DataInv, ResponseBeingParsed
  <2> QED BY <2>2, <2>3, <2>4 DEF DataInv
<1> QED BY <1>1, <1>2, <1>3

LEMMA DataInvInductive ==
  ASSUME ControlInv, DataInv, [Next]_vars
  PROVE  DataInv'
<1>1. CASE UNCHANGED vars
  BY <1>1 DEF vars, DataInv, DataTypes, PollerRespectsFlags, ResponseBeingParsed
<1> QED BY <1>1, PollerKeepsData, ClientKeepsData, StartKeepsData, WorldKeepsData
       DEF Next

LEMMA InitData ==
  ASSUME Init
  PROVE  DataInv
<1>1. IdleDevice \in Device
  BY NoEvents DEF IdleDevice, Device
<1>2. DataTypes
  <2>1. data = <<>> /\ idx = 1 /\ queue = <<>> /\ dev = IdleDevice
    BY DEF Init
  <2>2. idx \in 1..Len(data) + 1
    BY <2>1
  <2> QED BY <1>1, <2>1, <2>2, NoEvents DEF Init, DataTypes
<1>3. PollerRespectsFlags /\ ResponseBeingParsed
  BY DEF Init, PollerRespectsFlags, ResponseBeingParsed
<1> QED BY <1>2, <1>3 DEF DataInv

LEMMA DataInvariant == Spec => []DataInv
<1>1. Init => DataInv
  BY InitData
<1>2. ControlInv /\ DataInv /\ [Next]_vars => DataInv'
  BY DataInvInductive
<1> QED BY <1>1, <1>2, ControlInvariant, PTL DEF Spec

(* Every thread stays in its own code, every flag and every response keeps *)
(* its type, and parse_events never indexes outside of the response.       *)
THEOREM TypeCorrect == Spec => []TypeOK
<1>1. ControlInv /\ DataInv => TypeOK
  BY DEF ControlInv, DataInv, TypeOK
<1> QED BY <1>1, ControlInvariant, DataInvariant, PTL

(* The flags that a polling thread checked still hold when it polls, with  *)
(* any number of polling threads and clients (device_handle.rs:506-539).   *)
THEOREM FlagsRespected == Spec => []PollerRespectsFlags
<1>1. DataInv => PollerRespectsFlags
  BY DEF DataInv
<1> QED BY <1>1, DataInvariant, PTL
=============================================================================
