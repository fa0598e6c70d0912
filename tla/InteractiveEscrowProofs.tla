------------------------ MODULE InteractiveEscrowProofs ------------------------
(***************************************************************************)
(* Proofs that the pollers and the operations of the handle keep the       *)
(* contract about the escrow, for any number of pollers and clients, any   *)
(* notes and any number of them.                                           *)
(*                                                                         *)
(* What the application knows of a note is a token that is handed on: the  *)
(* Read event is in the response being parsed, then in the queue, then the *)
(* application is undecided, then a client is about to decide.  There is   *)
(* one token at most, and only while the device holds a note that it has   *)
(* reported (TokenInv).  That is why a stack is never sent to a device     *)
(* without a reported note, although pollers, clients and people who       *)
(* insert notes take their steps in any order.                             *)
(***************************************************************************)
EXTENDS InteractivePollingProofs

(* No message is lost, nothing jams, and the application calls stack and   *)
(* reject once per note it was told of, never poll or a reset.             *)
Calm ==
  /\ ~Faults /\ MaxJams = 0
  /\ Disciplined /\ Ops \cap (Resets \cup {"poll"}) = {}

-----------------------------------------------------------------------------
(* The inductive invariant                                                 *)

DecisionLabels == {"serial", "key", "send", "stacked", "rejected"}
DoneLabels == {"stacked", "rejected"}
ResetLabels ==
  {"resetSend", "resetWait", "resetSerial", "resetClear", "sync", "lastPoll"}

(* Nobody recovers from a jam or resets the device; an operation is at a   *)
(* label of its own.                                                       *)
CalmLabels ==
  /\ \A p \in Pollers : pc[p] \notin {"jamSerial", "jamSend", "jamWait"} /\ op[p] = "none"
  /\ \A c \in Clients : /\ pc[c] \notin ResetLabels
                        /\ op[c] \in Decisions => pc[c] \in DecisionLabels
                        /\ pc[c] \in DoneLabels => op[c] \in Decisions

(* What the device has to report says nothing of a note in the escrow.     *)
OldNews == {"Rejected", "NoteCredit"}

CalmDevice ==
  /\ ~jam /\ ~dev.jammed
  /\ \A i \in 1..Len(dev.news) : dev.news[i].kind \in OldNews

(* A Read comes last in its response and tells the truth.                  *)
ResponseInv ==
  \A i \in 1..Len(data) :
    \/ data[i].kind \in OldNews
    \/ data[i].kind = "Read" /\ i = Len(data) /\ dev.told /\ data[i].value = dev.note

Done(c) == pc[c] \in DoneLabels
Pending == \E i \in 1..Len(data) : idx <= i /\ data[i].kind = "Read"

(* ESCROWED agrees with the device, except while the Read is still to be   *)
(* parsed and while stack or reject has taken the note and has not cleared *)
(* the flag.                                                               *)
NoteInv ==
  /\ dev.told => dev.note # 0 /\ (escrowed \/ Pending) /\ \A c \in Clients : ~Done(c)
  /\ escrowed => /\ ~Parser!Parsing
                 /\ (dev.told /\ amount = dev.note) \/ \E c \in Clients : Done(c)
  /\ StackTellsTruth

(* Who has the token.                                                      *)
Reads(q) == {i \in 1..Len(q) : q[i].kind = "Read"}
Deciding(c) == op[c] \in Decisions /\ ~Done(c)

TokenInv ==
  /\ Pending \/ Reads(queue) # {} \/ undecided \/ (\E c \in Clients : Deciding(c))
       => dev.told
  /\ Pending => Reads(queue) = {} /\ ~undecided
  /\ undecided => Reads(queue) = {}
  /\ Pending \/ Reads(queue) # {} \/ undecided => \A c \in Clients : ~Deciding(c)
  /\ \A i, j \in Reads(queue) : i = j
  /\ \A c, d \in Clients : Deciding(c) /\ Deciding(d) => c = d

CalmInv == ControlInv /\ DataInv /\ CalmLabels /\ CalmDevice
EscrowInv == ResponseInv /\ NoteInv /\ TokenInv
IInv == CalmInv /\ EscrowInv

-----------------------------------------------------------------------------
(* What the device answers while nothing is lost                           *)

LEMMA CommandReply ==
  ASSUME ~Faults, NEW d, NEW r \in Outcomes(d, OnCommand(d))
  PROVE  r.dev = Settled(d) /\ r.status = "Ok"
BY DEF Outcomes, OnCommand, Reply

LEMMA RejectReply ==
  ASSUME ~Faults, NEW d \in Device, d.note # 0, NEW r \in Outcomes(d, OnReject(d))
  PROVE  /\ r.status = "Ok"
         /\ r.dev.note = 0 /\ ~r.dev.told /\ r.dev.jammed = d.jammed
         /\ r.dev.news = Append(d.news, DeviceEvent("Rejected", 0))
<1>1. r = Reply([Settled(d) EXCEPT !.note = 0, !.told = FALSE,
                   !.news = Append(@, DeviceEvent("Rejected", 0))], "Ok", <<>>)
  BY DEF Outcomes, OnReject
<1> QED BY <1>1 DEF Reply, Settled, Device

LEMMA StackReply ==
  ASSUME ~Faults, NEW d \in Device, ~d.jammed, d.note # 0, d.told,
         NEW r \in Outcomes(d, OnPoll(d))
  PROVE  /\ r.status = "Ok"
         /\ r.dev.note = 0 /\ ~r.dev.told /\ ~r.dev.jammed /\ r.dev.stacked = d.note
         /\ r.dev.news = <<DeviceEvent("NoteCredit", d.note)>>
<1>1. OnPoll(d) = PollStacks(d)
  BY DEF OnPoll
<1>2. r = Reply([d EXCEPT !.note = 0, !.told = FALSE, !.stacked = d.note,
                   !.news = <<DeviceEvent("NoteCredit", d.note)>>], "Ok",
                Append(d.news, DeviceEvent("Stacking", 0)))
  BY <1>1 DEF Outcomes, PollStacks
<1> QED BY <1>2 DEF Reply, Device

LEMMA ReadReply ==
  ASSUME ~Faults, NEW d \in Device, ~d.jammed, d.note # 0, ~d.told,
         NEW r \in Outcomes(d, OnPoll(d))
  PROVE  /\ r.status = "Ok"
         /\ r.dev.note = d.note /\ r.dev.told /\ ~r.dev.jammed /\ r.dev.news = <<>>
         /\ r.events = Append(d.news, DeviceEvent("Read", d.note))
<1>1. OnPoll(d) = PollReads(d)
  BY DEF OnPoll
<1>2. r = Reply([Settled(d) EXCEPT !.told = TRUE, !.news = <<>>], "Ok",
                Append(d.news, DeviceEvent("Read", d.note)))
  BY <1>1 DEF Outcomes, PollReads
<1> QED BY <1>2 DEF Reply, Settled, Device

LEMMA IdleReply ==
  ASSUME ~Faults, NEW d \in Device, ~d.jammed, d.note = 0,
         NEW r \in Outcomes(d, OnPoll(d))
  PROVE  /\ r.status = "Ok"
         /\ r.dev.note = 0 /\ r.dev.told = d.told /\ ~r.dev.jammed /\ r.dev.news = <<>>
         /\ r.events = d.news
<1>1. OnPoll(d) = PollIdle(d)
  BY DEF OnPoll
<1>2. r = Reply([Settled(d) EXCEPT !.news = <<>>], "Ok", d.news)
  BY <1>1 DEF Outcomes, PollIdle
<1> QED BY <1>2 DEF Reply, Settled, Device

LEMMA SettledFields ==
  ASSUME NEW d \in Device
  PROVE  /\ Settled(d).note = d.note /\ Settled(d).told = d.told
         /\ Settled(d).jammed = d.jammed /\ Settled(d).news = d.news
BY DEF Settled, Device

-----------------------------------------------------------------------------
(* Nothing jams, nobody resets                                             *)

LEMMA CalmGo ==
  ASSUME CalmInv, NEW t \in Threads, NEW l, Go(t, l),
         t \in Pollers => l \notin {"jamSerial", "jamSend", "jamWait"},
         t \in Clients => /\ l \notin ResetLabels
                          /\ op[t] \in Decisions => l \in DecisionLabels
                          /\ l \in DoneLabels => op[t] \in Decisions
  PROVE  CalmLabels'
<1>1. \A u \in Threads : pc'[u] = IF u = t THEN l ELSE pc[u]
  BY GoMovesOne DEF CalmInv
<1>2. op' = op
  BY DEF Go
<1> QED BY <1>1, <1>2 DEF CalmInv, CalmLabels, Threads

LEMMA CalmLeave ==
  ASSUME CalmInv, NEW t \in Threads, Leave(t)
  PROVE  CalmLabels'
<1>1. \A u \in Threads : u # t => pc'[u] = pc[u] /\ op'[u] = op[u]
  BY DEF CalmInv, ControlInv, ThreadTypes, Leave
<1>2. pc'[t] \in {"idle", "ready"} /\ op'[t] = "none"
  BY DEF CalmInv, ControlInv, ThreadTypes, Leave
<1> QED BY <1>1, <1>2 DEF CalmInv, CalmLabels, Threads, ResetLabels, DoneLabels,
           Decisions

LEMMA NoResets ==
  ASSUME Calm, CalmInv, NEW c \in Clients
  PROVE  op[c] \notin Resets \cup {"poll"}
BY ThreadAssumption DEF Calm, CalmInv, ControlInv, ThreadTypes, Threads, Resets

LEMMA CalmPoller ==
  ASSUME Calm, CalmInv, NEW p \in Pollers, PollerStep(p)
  PROVE  CalmLabels'
<1> p \in Threads /\ p \notin Clients /\ pc[p] \in PollerLabels
  BY ThreadAssumption DEF Threads, CalmInv, ControlInv, ThreadTypes
<1>1. CASE CheckReset(p)
  BY <1>1, CalmGo DEF CheckReset
<1>2. CASE CheckJam(p)
  BY <1>2, CalmGo DEF CheckJam, CalmInv, CalmDevice
<1>3. CASE GetPort(p)
  <2>1. AfterPort(p) \notin {"jamSerial", "jamSend", "jamWait"}
    BY <1>3 DEF GetPort, WaitsPort, AfterPort, PollerLabels, CalmInv, CalmLabels
  <2> QED BY <1>3, <2>1, CalmGo, CalmLeave DEF GetPort, Fails
<1>4. CASE GetKey(p)
  <2>1. AfterKey(p) \notin {"jamSerial", "jamSend", "jamWait"}
    BY <1>4 DEF GetKey, WaitsKey, AfterKey
  <2> QED BY <1>4, <2>1, CalmGo, CalmLeave DEF GetKey, Fails
<1>5. CASE ResetJam(p) \/ JamOver(p)
  BY <1>5 DEF ResetJam, JamOver, CalmInv, CalmLabels
<1>6. CASE Decide(p)
  BY <1>6, CalmGo DEF Decide
<1>7. CASE Hold(p)
  BY <1>7, CalmGo, CalmLeave DEF Hold
<1>8. CASE Rest(p)
  BY <1>8, CalmLeave DEF Rest
<1>9. CASE Poll(p)
  BY <1>9, CalmGo, CalmLeave DEF Poll
<1>10. CASE Parse(p)
  BY <1>10 DEF Parse, threads, CalmInv, CalmLabels
<1>11. CASE EndParse(p)
  BY <1>11, CalmLeave DEF EndParse
<1> QED BY <1>1, <1>2, <1>3, <1>4, <1>5, <1>6, <1>7, <1>8, <1>9, <1>10, <1>11
       DEF PollerStep

LEMMA CalmClient ==
  ASSUME Calm, CalmInv, NEW c \in Clients, ClientStep(c)
  PROVE  CalmLabels'
<1> c \in Threads /\ c \notin Pollers /\ pc[c] \in ClientLabels
  BY ThreadAssumption DEF Threads, CalmInv, ControlInv, ThreadTypes
<1>0. /\ op[c] \notin Resets /\ pc[c] \notin ResetLabels
      /\ op[c] \in Decisions => pc[c] \in DecisionLabels
  BY NoResets DEF CalmInv, CalmLabels
<1> USE DEF ResetLabels, DecisionLabels, DoneLabels
<1>1. CASE GetPort(c)
  <2>1. AfterPort(c) \in {"key", "send"}
    BY <1>1, <1>0 DEF GetPort, WaitsPort, AfterPort, ClientLabels
  <2> QED BY <1>1, <2>1, CalmGo, CalmLeave DEF GetPort, Fails
<1>2. CASE GetKey(c)
  <2>1. /\ AfterKey(c) \in {"enable", "send", "serialSecond"}
        /\ op[c] \in Decisions => AfterKey(c) = "send"
    BY <1>2, <1>0 DEF GetKey, WaitsKey, AfterKey, ClientLabels, Decisions
  <2> QED BY <1>2, <2>1, CalmGo, CalmLeave DEF GetKey, Fails
<1>3. CASE KeyNotSet(c)
  BY <1>3, CalmLeave DEF KeyNotSet, Fails
<1>4. CASE SendStack(c)
  BY <1>4, CalmGo, CalmLeave DEF SendStack, Fails, Decisions
<1>5. CASE SendReject(c)
  BY <1>5, CalmGo, CalmLeave DEF SendReject, Fails, Decisions
<1>6. CASE ClearEscrow(c) \/ SendPoll(c) \/ SendCommand(c) \/ DisablePayout(c)
  BY <1>6, CalmLeave DEF ClearEscrow, SendPoll, SendCommand, DisablePayout
<1>7. CASE EnablePayout(c)
  BY <1>7, <1>0, CalmGo, CalmLeave DEF EnablePayout
<1>8. CASE Payout(c)
  BY <1>8, <1>0, CalmGo DEF Payout
<1>9. CASE SendReset(c) \/ DeviceRestarted(c) \/ ClearPort(c) \/ Sync(c) \/ LastPoll(c)
  BY <1>9, <1>0 DEF SendReset, DeviceRestarted, ClearPort, Sync, LastPoll
<1> QED BY <1>1, <1>2, <1>3, <1>4, <1>5, <1>6, <1>7, <1>8, <1>9 DEF ClientStep

LEMMA CalmStart ==
  ASSUME Calm, CalmInv, NEW c \in Clients, NEW o \in Ops, Start(c, o)
  PROVE  CalmLabels'
<1>1. \A u \in Threads : u # c => pc'[u] = pc[u] /\ op'[u] = op[u]
  BY DEF CalmInv, ControlInv, ThreadTypes, Start
<1>2. /\ pc'[c] \in {"serial", "keyFirst"} /\ op'[c] = o
      /\ o \in Decisions => pc'[c] = "serial"
  BY DEF CalmInv, ControlInv, ThreadTypes, Start, Threads, Decisions
<1>3. c \notin Pollers
  BY ThreadAssumption
<1> QED BY <1>1, <1>2, <1>3 DEF CalmInv, CalmLabels, Threads, ResetLabels, DoneLabels,
           DecisionLabels

LEMMA CalmLabelsStep ==
  ASSUME Calm, CalmInv, [Next]_vars
  PROVE  CalmLabels'
<1>1. CASE UNCHANGED <<pc, op>>
  BY <1>1 DEF CalmInv, CalmLabels
<1>2. CASE (\E v \in Values : InsertNote(v)) \/ Jam \/ PopEvent \/ UNCHANGED vars
  BY <1>1, <1>2 DEF InsertNote, Jam, PopEvent, threads, vars
<1> QED BY <1>2, CalmPoller, CalmClient, CalmStart DEF Next

-----------------------------------------------------------------------------
(* Steps that the contract does not see                                    *)

Decided == [c \in Clients |-> Decision(c)]

(* What is shown of a step: it keeps the invariant, it is a step of the    *)
(* contract or leaves its variables alone, and a reported note leaves the  *)
(* escrow only by somebody who may take it.                                *)
StepOK ==
  /\ CalmDevice' /\ EscrowInv'
  /\ [Contract!Next]_(Contract!vars)
  /\ dev.told /\ ~dev'.told => \E t \in Threads : Moves(t) /\ pc'[t] # pc[t]

(* A client begins no decision and ends none.                              *)
Stays(c) ==
  /\ Deciding(c)' <=> Deciding(c)
  /\ Done(c) \/ Done(c)' => pc'[c] = pc[c]

LEMMA DecidedMoves ==
  ASSUME CalmLabels, CalmLabels', NEW c \in Clients,
         \A d \in Clients : d # c => Stays(d)
  PROVE  Decided' = [Decided EXCEPT ![c] = Decision(c)']
<1>1. \A d \in Clients : d # c => Decision(d)' = Decision(d)
  BY DEF CalmLabels, Stays, Deciding, Done, DoneLabels, Decision
<1> QED BY <1>1 DEF Decided

LEMMA DecidedStay ==
  ASSUME CalmLabels, CalmLabels', \A d \in Clients : Stays(d)
  PROVE  Decided' = Decided
<1>1. \A d \in Clients : Decision(d)' = Decision(d)
  BY DEF CalmLabels, Stays, Deciding, Done, DoneLabels, Decision
<1> QED BY <1>1 DEF Decided

LEMMA GoStays ==
  ASSUME CalmInv, NEW t \in Threads, NEW l, Go(t, l),
         pc[t] \notin DoneLabels, l \notin DoneLabels
  PROVE  \A c \in Clients : Stays(c)
<1>1. \A c \in Clients : pc'[c] = IF c = t THEN l ELSE pc[c]
  BY GoMovesOne DEF CalmInv, Threads
<1> QED BY <1>1 DEF Go, Stays, Deciding, Done

LEMMA LeaveMoves ==
  ASSUME CalmInv, NEW t \in Threads, Leave(t)
  PROVE  /\ pc'[t] \in {"idle", "ready"} /\ op'[t] = "none"
         /\ \A c \in Clients : c # t => Stays(c)
<1>1. \A u \in Threads : u # t => pc'[u] = pc[u] /\ op'[u] = op[u]
  BY DEF CalmInv, ControlInv, ThreadTypes, Leave
<1>2. pc'[t] \in {"idle", "ready"} /\ op'[t] = "none"
  BY DEF CalmInv, ControlInv, ThreadTypes, Leave
<1> QED BY <1>1, <1>2 DEF Threads, Stays, Deciding, Done

LEMMA LeaveStays ==
  ASSUME CalmInv, NEW t \in Threads, Leave(t),
         pc[t] \notin DoneLabels, op[t] \notin Decisions
  PROVE  \A c \in Clients : Stays(c)
<1>1. /\ pc'[t] \in {"idle", "ready"} /\ op'[t] = "none"
      /\ \A c \in Clients : c # t => Stays(c)
  BY LeaveMoves
<1>2. Stays(t)
  BY <1>1 DEF Stays, Deciding, Done, DoneLabels, Decisions
<1> QED BY <1>1, <1>2

(* Whoever talks to the device is the only one with the port.              *)
LEMMA OthersAreNotDone ==
  ASSUME CalmInv, NEW t \in Threads, pc[t] \in HoldsPort
  PROVE  \A c \in Clients : c # t => ~Done(c)
BY PortExcludes DEF CalmInv, Threads, Done, DoneLabels, HoldsPort

(* Nothing happens that the contract speaks of.                            *)
Quiet ==
  /\ UNCHANGED <<data, idx, escrowed, amount, jam, queue, undecided>>
  /\ dev' = dev \/ (dev' = Settled(dev) /\ \A c \in Clients : ~Done(c))
  /\ \A c \in Clients : Stays(c)

LEMMA QuietStep ==
  ASSUME IInv, CalmLabels', Quiet
  PROVE  StepOK
<1> USE DEF IInv, EscrowInv
<1>1. /\ dev'.note = dev.note /\ dev'.told = dev.told
      /\ dev'.jammed = dev.jammed /\ dev'.news = dev.news
  BY SettledFields DEF CalmInv, DataInv, DataTypes, Quiet
<1>2. CalmDevice'
  BY <1>1 DEF Quiet, CalmInv, CalmDevice
<1>3. ResponseInv'
  BY <1>1 DEF Quiet, ResponseInv
<1>4. /\ Pending' = Pending /\ Reads(queue)' = Reads(queue)
      /\ Parser!Parsing' = Parser!Parsing
      /\ \A c \in Clients : (Done(c)' <=> Done(c)) /\ (Deciding(c)' <=> Deciding(c))
  BY DEF Quiet, Pending, Reads, Parser!Parsing, Stays, Done
<1>5. NoteInv'
  <2>1. StackTellsTruth'
    BY DEF Quiet, NoteInv, StackTellsTruth, Stays, Done, DoneLabels
  <2> QED BY <1>1, <1>4, <2>1 DEF Quiet, NoteInv
<1>6. TokenInv'
  BY <1>1, <1>4 DEF Quiet, TokenInv
<1>7. UNCHANGED Contract!vars
  <2>1. Decided' = Decided
    BY DecidedStay DEF Quiet, CalmInv
  <2> QED BY <1>1, <2>1 DEF Contract!vars, Decided
<1> QED BY <1>1, <1>2, <1>3, <1>5, <1>6, <1>7 DEF StepOK

-----------------------------------------------------------------------------
(* A decision is asked for, fails, is carried out, returns                 *)

(* An operation that gives up; if it was a decision, the application has   *)
(* it to make again.                                                       *)
LEMMA FailStep ==
  ASSUME IInv, CalmLabels', NEW t \in Threads, Fails(t), pc[t] \notin DoneLabels,
         UNCHANGED <<data, idx, escrowed, amount, jam, queue, dev>>
  PROVE  StepOK
<1> USE DEF IInv
<1>1. CASE op[t] \notin Decisions
  <2>1. Quiet
    <3>1. \A c \in Clients : Stays(c)
      BY <1>1, LeaveStays DEF Fails
    <3>2. undecided' = undecided
      BY <1>1 DEF Fails, CalmInv, DataInv, DataTypes
    <3> QED BY <3>1, <3>2 DEF Quiet
  <2> QED BY <2>1, QuietStep
<1>2. CASE op[t] \in Decisions
  <2>1. t \in Clients /\ Deciding(t)
    BY <1>2 DEF CalmInv, CalmLabels, Threads, Deciding, Done, Decisions
  <2>2. /\ \A c \in Clients : c # t => Stays(c)
        /\ pc'[t] \in {"idle", "ready"} /\ op'[t] = "none"
    BY LeaveMoves DEF Fails
  <2>3. ~Deciding(t)' /\ ~Done(t)' /\ ~Done(t)
    BY <2>1, <2>2 DEF Deciding, Done, DoneLabels, Decisions
  <2>4. undecided' = TRUE
    BY <1>2 DEF Fails
  <2>5. /\ dev.told /\ ~Pending /\ ~undecided /\ Reads(queue) = {}
        /\ \A c \in Clients : Deciding(c) => c = t
    BY <2>1 DEF EscrowInv, TokenInv
  <2>6. /\ Pending' = Pending /\ Reads(queue)' = Reads(queue)
        /\ Parser!Parsing' = Parser!Parsing
    BY DEF Pending, Reads, Parser!Parsing
  <2>7. CalmDevice' /\ ResponseInv'
    BY DEF EscrowInv, CalmInv, CalmDevice, ResponseInv
  <2>8. NoteInv'
    <3>1. \A c \in Clients : Done(c)' <=> Done(c)
      BY <2>2, <2>3 DEF Stays, Done
    <3>2. StackTellsTruth'
      BY <2>2, <2>3 DEF EscrowInv, NoteInv, StackTellsTruth, Stays, Done, DoneLabels
    <3> QED BY <2>6, <3>1, <3>2 DEF EscrowInv, NoteInv
  <2>9. TokenInv'
    <3>1. \A c \in Clients : ~Deciding(c)'
      BY <2>2, <2>3, <2>5 DEF Stays
    <3> QED BY <2>4, <2>5, <2>6, <3>1 DEF TokenInv
  <2>10. Contract!Fail(t)
    <3>1. Decided' = [Decided EXCEPT ![t] = "none"] /\ Decided[t] = "asked"
      BY <2>1, <2>2, <2>3, DecidedMoves
         DEF CalmInv, Decided, Decision, Deciding, Done, DoneLabels, Decisions
    <3> QED BY <3>1 DEF Contract!Fail, Decided
  <2> QED BY <2>1, <2>7, <2>8, <2>9, <2>10 DEF StepOK, EscrowInv, Contract!Next
<1> QED BY <1>1, <1>2

(* An operation is called: a decision by the application that was told of  *)
(* a note and has not decided yet.                                         *)
LEMMA StartStep ==
  ASSUME Calm, IInv, CalmLabels', NEW c \in Clients, NEW o \in Ops, Start(c, o)
  PROVE  StepOK
<1> USE DEF IInv
<1>1. /\ \A d \in Clients : d # c => Stays(d)
      /\ op'[c] = o /\ ~Done(c) /\ ~Done(c)'
  BY DEF CalmInv, ControlInv, ThreadTypes, Start, Stays, Deciding, Done, DoneLabels,
         Threads
<1>2. ~Deciding(c)
  BY DEF Start, CalmInv, CalmLabels, DecisionLabels, Deciding
<1>3. UNCHANGED <<data, idx, escrowed, amount, jam, queue, dev>>
  BY DEF Start, parsed
<1>4. CASE o \notin Decisions
  <2>1. undecided' = undecided
    BY <1>4 DEF Start, CalmInv, DataInv, DataTypes
  <2>2. \A d \in Clients : Stays(d)
    BY <1>1, <1>2, <1>4 DEF Stays, Deciding
  <2> QED BY <1>3, <2>1, <2>2, QuietStep DEF Quiet
<1>5. CASE o \in Decisions
  <2>1. undecided /\ ~undecided'
    BY <1>5 DEF Start, Calm
  <2>2. /\ dev.told /\ ~Pending /\ Reads(queue) = {}
        /\ \A d \in Clients : ~Deciding(d)
    BY <2>1 DEF EscrowInv, TokenInv
  <2>3. /\ Pending' = Pending /\ Reads(queue)' = Reads(queue)
        /\ Parser!Parsing' = Parser!Parsing
    BY <1>3 DEF Pending, Reads, Parser!Parsing
  <2>4. CalmDevice' /\ ResponseInv'
    BY <1>3 DEF EscrowInv, CalmInv, CalmDevice, ResponseInv
  <2>5. NoteInv'
    <3>1. \A d \in Clients : Done(d)' <=> Done(d)
      BY <1>1 DEF Stays, Done
    <3>2. StackTellsTruth'
      BY <1>1, <1>3 DEF EscrowInv, NoteInv, StackTellsTruth, Stays, Done, DoneLabels
    <3> QED BY <1>3, <2>3, <3>1, <3>2 DEF EscrowInv, NoteInv
  <2>6. TokenInv'
    <3>1. \A d \in Clients : Deciding(d)' => d = c
      BY <1>1, <2>2 DEF Stays
    <3> QED BY <1>3, <2>1, <2>2, <2>3, <3>1 DEF TokenInv
  <2>7. Contract!Ask(c)
    <3>1. Decided' = [Decided EXCEPT ![c] = "asked"] /\ Decided[c] = "none"
      BY <1>1, <1>2, <1>5, DecidedMoves
         DEF CalmInv, Decided, Decision, Deciding, Done, DoneLabels
    <3> QED BY <1>3, <2>2, <3>1 DEF Contract!Ask, Decided
  <2> QED BY <1>3, <2>4, <2>5, <2>6, <2>7 DEF StepOK, EscrowInv, Contract!Next
<1> QED BY <1>4, <1>5

(* stack or reject has reached the device: c has the port, so that nobody  *)
(* is parsing, ESCROWED is set, and the note is the one it was told of.    *)
LEMMA TakeStep ==
  ASSUME IInv, CalmLabels', NEW c \in Clients, pc[c] = "send", op[c] \in Decisions,
         NEW l \in DoneLabels, Go(c, l), UNCHANGED <<parsed, undecided>>,
         dev'.note = 0, ~dev'.told, ~dev'.jammed,
         \A i \in 1..Len(dev'.news) : dev'.news[i].kind \in OldNews,
         l = "stacked" => dev'.stacked = dev.note
  PROVE  StepOK
<1> USE DEF IInv
<1>0. c \in Threads
  BY DEF Threads
<1>1. Deciding(c) /\ ~Done(c) /\ ~Deciding(c)' /\ Done(c)'
  BY <1>0, GoMovesOne DEF CalmInv, Deciding, Done, DoneLabels
<1>2. \A d \in Clients : d # c => Stays(d) /\ ~Done(d) /\ ~Done(d)'
  <2>1. \A d \in Clients : d # c => pc'[d] = pc[d] /\ op'[d] = op[d]
    BY <1>0, GoMovesOne DEF CalmInv, Threads, Go
  <2>2. \A d \in Clients : d # c => ~Done(d)
    BY <1>0, OthersAreNotDone DEF HoldsPort
  <2> QED BY <2>1, <2>2 DEF Stays, Deciding, Done
<1>3. data = <<>> /\ idx = 1
  <2>1. \A p \in Pollers : pc[p] # "parse"
    BY <1>0, PortExcludes, ThreadAssumption DEF CalmInv, HoldsPort, Threads
  <2> QED BY <2>1 DEF CalmInv, DataInv, ResponseBeingParsed, DataTypes
<1>4. /\ dev.told /\ Reads(queue) = {} /\ ~undecided
      /\ \A d \in Clients : Deciding(d) => d = c
  BY <1>1 DEF EscrowInv, TokenInv
<1>5. escrowed /\ amount = dev.note
  BY <1>1, <1>2, <1>3, <1>4 DEF EscrowInv, NoteInv, Pending
<1>6. UNCHANGED <<data, idx, escrowed, amount, jam, queue>>
  BY DEF parsed
<1>7. /\ ~Pending' /\ Reads(queue)' = {} /\ ~Parser!Parsing'
  BY <1>3, <1>4, <1>6 DEF Pending, Reads, Parser!Parsing
<1>8. CalmDevice' /\ ResponseInv'
  BY <1>3, <1>6 DEF CalmInv, CalmDevice, ResponseInv
<1>9. NoteInv'
  <2>1. StackTellsTruth'
    <3>1. pc'[c] = l
      BY <1>0, GoMovesOne DEF CalmInv
    <3> QED BY <1>2, <1>5, <1>6, <3>1 DEF StackTellsTruth, Done, DoneLabels
  <2> QED BY <1>1, <1>7, <2>1 DEF NoteInv
<1>10. TokenInv'
  <2>1. \A d \in Clients : ~Deciding(d)'
    BY <1>1, <1>2, <1>4 DEF Stays
  <2> QED BY <1>4, <1>7, <2>1 DEF TokenInv
<1>11. Contract!Take(c)
  <2>1. Decided' = [Decided EXCEPT ![c] = "done"] /\ Decided[c] = "asked"
    <3>1. Decided' = [Decided EXCEPT ![c] = Decision(c)']
      BY <1>2, DecidedMoves DEF CalmInv
    <3>2. op' = op
      BY DEF Go
    <3> QED BY <1>1, <3>1, <3>2 DEF Decided, Decision, Deciding, Done, DoneLabels
  <2> QED BY <1>4, <2>1 DEF Contract!Take, Decided
<1>12. \E t \in Threads : Moves(t) /\ pc'[t] # pc[t]
  BY <1>0, GoMovesOne DEF CalmInv, Moves, DoneLabels
<1> QED BY <1>8, <1>9, <1>10, <1>11, <1>12 DEF StepOK, EscrowInv, Contract!Next

(* stack and reject return: only now ESCROWED is cleared, with the port    *)
(* still locked.                                                           *)
LEMMA ReturnStep ==
  ASSUME IInv, CalmLabels', NEW c \in Clients, ClearEscrow(c)
  PROVE  StepOK
<1> USE DEF IInv
<1>0. c \in Threads
  BY DEF Threads
<1>1. /\ pc'[c] \in {"idle", "ready"} /\ op'[c] = "none"
      /\ \A d \in Clients : d # c => Stays(d) /\ ~Done(d)
  BY <1>0, LeaveMoves, OthersAreNotDone DEF ClearEscrow, HoldsPort
<1>2. Done(c) /\ ~Deciding(c) /\ ~Done(c)' /\ ~Deciding(c)'
  BY <1>1 DEF ClearEscrow, Deciding, Done, DoneLabels, Decisions
<1>3. ~dev.told
  BY <1>2 DEF EscrowInv, NoteInv
<1>4. UNCHANGED <<data, idx, jam, queue, undecided, dev>> /\ escrowed' = FALSE
  BY DEF ClearEscrow
<1>5. /\ Pending' = Pending /\ Reads(queue)' = Reads(queue)
      /\ \A d \in Clients : Deciding(d)' <=> Deciding(d)
  BY <1>1, <1>2, <1>4 DEF Pending, Reads, Stays
<1>6. CalmDevice' /\ ResponseInv'
  BY <1>4 DEF EscrowInv, CalmInv, CalmDevice, ResponseInv
<1>7. NoteInv'
  <2>1. StackTellsTruth'
    BY <1>1, <1>2 DEF StackTellsTruth, Stays, Done, DoneLabels
  <2> QED BY <1>3, <1>4, <2>1 DEF NoteInv
<1>8. TokenInv'
  BY <1>4, <1>5 DEF EscrowInv, TokenInv
<1>9. Contract!Return(c)
  <2>1. Decided' = [Decided EXCEPT ![c] = "none"] /\ Decided[c] = "done"
    BY <1>1, <1>2, DecidedMoves
       DEF CalmInv, CalmLabels, Decided, Decision, Done, DoneLabels, Decisions
  <2> QED BY <1>4, <2>1 DEF Contract!Return, Decided
<1> QED BY <1>3, <1>6, <1>7, <1>8, <1>9 DEF StepOK, EscrowInv, Contract!Next

-----------------------------------------------------------------------------
(* The poller reads                                                        *)

(* The poll finds the escrow empty, or a note that it reports: a poller    *)
(* never polls a note into the cashbox.                                    *)
LEMMA PollStep ==
  ASSUME Calm, IInv, CalmLabels', NEW p \in Pollers, Poll(p)
  PROVE  StepOK
<1> USE DEF IInv
<1>0. p \in Threads /\ p \notin Clients
  BY ThreadAssumption DEF Threads
<1>1. PICK r \in Outcomes(dev, OnPoll(dev)) :
        /\ dev' = r.dev
        /\ jam' = (jam \/ r.status = "UnsafeJam")
        /\ IF r.status = "Ok"
           THEN data' = r.events /\ Go(p, "parse") /\ UNCHANGED locks
           ELSE UNCHANGED data /\ Leave(p)
  BY DEF Poll
<1>2. \A c \in Clients : ~Done(c)
  BY <1>0, OthersAreNotDone DEF Poll, HoldsPort
<1>3. ~escrowed /\ data = <<>> /\ idx = 1
  BY DEF Poll, CalmInv, DataInv, PollerRespectsFlags, DataTypes
<1>4. ~Pending /\ ~dev.told
  BY <1>2, <1>3 DEF Pending, EscrowInv, NoteInv
<1>5. Reads(queue) = {} /\ ~undecided /\ \A c \in Clients : ~Deciding(c)
  BY <1>4 DEF EscrowInv, TokenInv
<1>6. dev \in Device /\ ~dev.jammed /\ ~jam
      /\ dev.news \in Seq(Parser!Event)
      /\ \A i \in 1..Len(dev.news) : dev.news[i].kind \in OldNews
  BY DEF CalmInv, CalmDevice, DataInv, DataTypes, Device
<1>7. /\ r.status = "Ok" /\ dev'.note = dev.note /\ ~dev'.jammed /\ dev'.news = <<>>
      /\ \/ dev'.told = dev.told /\ data' = dev.news
         \/ /\ dev.note # 0 /\ dev'.told
            /\ data' = Append(dev.news, DeviceEvent("Read", dev.note))
  BY <1>1, <1>4, <1>6, ReadReply, IdleReply DEF Calm
<1>8. \A c \in Clients : Stays(c)
  BY <1>0, <1>1, <1>7, GoStays DEF Poll, DoneLabels
<1>9. UNCHANGED <<idx, escrowed, amount, queue, undecided>> /\ ~jam'
  BY <1>1, <1>6, <1>7 DEF Poll
<1>10. /\ \A c \in Clients : ~Done(c)' /\ ~Deciding(c)'
       /\ Reads(queue)' = {}
  BY <1>2, <1>5, <1>8, <1>9 DEF Stays, Done, Reads
<1>11. StackTellsTruth'
  BY <1>10 DEF StackTellsTruth, Done, DoneLabels
<1>12. CalmDevice'
  BY <1>7, <1>9 DEF CalmDevice
<1>13. CASE dev'.told = dev.told /\ data' = dev.news
  <2>1. ~Pending'
    BY <1>6, <1>13 DEF Pending, OldNews
  <2>2. ResponseInv'
    BY <1>6, <1>13 DEF ResponseInv
  <2>3. NoteInv'
    BY <1>3, <1>4, <1>9, <1>11, <1>13 DEF NoteInv
  <2>4. TokenInv'
    BY <1>5, <1>9, <1>10, <2>1 DEF TokenInv
  <2>5. UNCHANGED Contract!vars
    <3>1. Decided' = Decided
      BY <1>8, DecidedStay DEF CalmInv
    <3> QED BY <1>7, <1>13, <3>1 DEF Contract!vars, Decided
  <2> QED BY <1>4, <1>12, <2>2, <2>3, <2>4, <2>5 DEF StepOK, EscrowInv
<1>14. CASE /\ dev.note # 0 /\ dev'.told
            /\ data' = Append(dev.news, DeviceEvent("Read", dev.note))
  <2>1. /\ Len(data') = Len(dev.news) + 1
        /\ \A i \in 1..Len(dev.news) : data'[i] = dev.news[i]
        /\ data'[Len(dev.news) + 1] = DeviceEvent("Read", dev.note)
    BY <1>6, <1>14
  <2>2. Len(dev.news) \in Nat
    BY <1>6
  <2>3. Pending'
    BY <1>3, <1>9, <2>1, <2>2 DEF Pending, DeviceEvent
  <2>4. ResponseInv'
    <3>1. ASSUME NEW i \in 1..Len(data')
          PROVE  \/ data'[i].kind \in OldNews
                 \/ /\ data'[i].kind = "Read" /\ i = Len(data')
                    /\ dev'.told /\ data'[i].value = dev'.note
      <4>1. CASE i \in 1..Len(dev.news)
        BY <1>6, <2>1, <4>1
      <4>2. CASE i = Len(dev.news) + 1
        BY <1>7, <1>14, <2>1, <4>2 DEF DeviceEvent
      <4> QED BY <2>1, <2>2, <3>1, <4>1, <4>2
    <3> QED BY <3>1 DEF ResponseInv
  <2>5. NoteInv'
    BY <1>3, <1>7, <1>9, <1>10, <1>11, <1>14, <2>3 DEF NoteInv
  <2>6. TokenInv'
    BY <1>5, <1>9, <1>10, <1>14 DEF TokenInv
  <2>7. Contract!Tell
    <3>1. Decided' = Decided
      BY <1>8, DecidedStay DEF CalmInv
    <3> QED BY <1>4, <1>7, <1>14, <3>1 DEF Contract!Tell, Decided
  <2> QED BY <1>4, <1>12, <2>4, <2>5, <2>6, <2>7 DEF StepOK, EscrowInv, Contract!Next
<1> QED BY <1>7, <1>13, <1>14

LEMMA ReadsOfAppended ==
  ASSUME NEW q \in Seq(Parser!Event), NEW s \in Seq(Parser!Event),
         \A i \in 1..Len(s) : s[i].kind # "Read"
  PROVE  Reads(q \o s) = Reads(q)
<1>1. /\ Len(q \o s) = Len(q) + Len(s) /\ Len(q) \in Nat /\ Len(s) \in Nat
      /\ \A i \in 1..Len(q) : (q \o s)[i] = q[i]
      /\ \A i \in Len(q) + 1..Len(q) + Len(s) :
           (q \o s)[i] = s[i - Len(q)] /\ i - Len(q) \in 1..Len(s)
  OBVIOUS
<1> QED BY <1>1 DEF Reads

LEMMA ReadsOfAnnounced ==
  ASSUME NEW q \in Seq(Parser!Event), NEW e \in Parser!Event,
         e.kind = "Read", Reads(q) = {}
  PROVE  Reads(q \o <<e>>) = {Len(q) + 1}
<1>1. /\ Len(q \o <<e>>) = Len(q) + 1 /\ Len(q) \in Nat
      /\ \A i \in 1..Len(q) : (q \o <<e>>)[i] = q[i]
      /\ (q \o <<e>>)[Len(q) + 1] = e
  OBVIOUS
<1> QED BY <1>1 DEF Reads

(* The inferred replacement of the cashbox is no Read.                     *)
LEMMA NoticeIsNoRead ==
  ASSUME NEW e
  PROVE  /\ Parser!BackNotice(e) \in Seq(Parser!Event)
         /\ \A i \in 1..Len(Parser!BackNotice(e)) : Parser!BackNotice(e)[i].kind # "Read"
<1>1. Parser!Plain("CashboxReplaced") \in Parser!Event
      /\ Parser!Plain("CashboxReplaced").kind = "CashboxReplaced"
  BY DEF Parser!Plain, Parser!Event, Parser!Kinds
<1>2. <<Parser!Plain("CashboxReplaced")>> \in Seq(Parser!Event)
  BY <1>1
<1> QED BY <1>1, <1>2, NoEvents DEF Parser!BackNotice

(* What parse_events makes of the events that can come.                    *)
LEMMA ParseEffect ==
  ASSUME ParserTypes, Parser!ParseEvent, NEW e, e = data[idx],
         e.kind \in OldNews \/ (e.kind = "Read" /\ e.value # 0)
  PROVE  \/ /\ UNCHANGED <<idx, escrowed, amount, jam>>
            /\ queue' = queue \o Parser!BackNotice(e)
         \/ /\ e.kind \in OldNews
            /\ idx' = idx + 1 /\ escrowed' = FALSE /\ jam' = jam
            /\ \E s \in {<<>>, <<e>>} : queue' = queue \o (Parser!BackNotice(e) \o s)
         \/ /\ e.kind = "Read"
            /\ idx' = idx + 1 /\ escrowed' = TRUE /\ jam' = jam /\ amount' = e.value
            /\ queue' = queue \o (Parser!BackNotice(e) \o <<e>>)
<1> USE DEF OldNews
<1>1. ~Parser!NoticeFails(e)
  BY DEF Parser!NoticeFails
<1>2. CASE Parser!Unparsable(e)
  BY <1>2 DEF Parser!Unparsable, Parser!Send
<1>3. CASE Parser!ReadNote(e)
  BY <1>3 DEF Parser!ReadNote, Parser!Advance, Parser!Send
<1>4. CASE Parser!CreditNote(e) \/ Parser!MoveNote(e)
  BY <1>4 DEF Parser!CreditNote, Parser!MoveNote, Parser!Advance, Parser!Send,
              Parser!NoteMoved
<1>5. ~(Parser!Forward(e) \/ Parser!LoseCashbox(e) \/ Parser!ReplaceCashbox(e)
        \/ Parser!JamNote(e) \/ Parser!Ignore(e))
  BY DEF Parser!Forward, Parser!LoseCashbox, Parser!ReplaceCashbox, Parser!JamNote,
         Parser!Ignore, Parser!Forwarded, Parser!CashboxGone, Parser!OneByte
<1> QED BY <1>1, <1>2, <1>3, <1>4, <1>5 DEF Parser!ParseEvent, Parser!Parsed

LEMMA ParseStep ==
  ASSUME IInv, CalmLabels', NEW p \in Pollers, Parse(p)
  PROVE  StepOK
<1> USE DEF IInv
<1> DEFINE e == data[idx]
           notice == Parser!BackNotice(e)
<1>0. p \in Threads /\ p \notin Clients
  BY ThreadAssumption DEF Threads
<1>1. ParserTypes /\ ParserTypes' /\ data' = data
  <2>1. ParserTypes
    BY DEF CalmInv, DataInv, DataTypes, ParserTypes
  <2> QED BY <2>1, ParseTyped DEF Parse
<1>2. idx \in 1..Len(data) /\ Len(data) \in Nat /\ e \in Parser!Event
  BY <1>1 DEF ParserTypes, Parse, Parser!ParseEvent, Parser!Parsing
<1>3. UNCHANGED <<pc, op, undecided, dev>>
  BY DEF Parse, threads
<1>4. \A c \in Clients : ~Done(c) /\ ~Done(c)'
  BY <1>0, <1>3, OthersAreNotDone DEF Parse, HoldsPort, Done
<1>5. ~escrowed
  BY <1>2 DEF EscrowInv, NoteInv, Parser!Parsing
<1>6. \/ e.kind \in OldNews
      \/ e.kind = "Read" /\ idx = Len(data) /\ dev.told /\ e.value = dev.note
  BY <1>2 DEF EscrowInv, ResponseInv
<1>7. e.kind = "Read" => e.value # 0
  BY <1>6 DEF OldNews, EscrowInv, NoteInv
<1>8. /\ notice \in Seq(Parser!Event)
      /\ \A i \in 1..Len(notice) : notice[i].kind # "Read"
  BY NoticeIsNoRead
<1>9. queue \in Seq(Parser!Event)
  BY <1>1 DEF ParserTypes
<1>10. ResponseInv'
  BY <1>1, <1>3 DEF EscrowInv, ResponseInv
<1>11. StackTellsTruth'
  BY <1>4 DEF StackTellsTruth, Done, DoneLabels
<1>12. UNCHANGED Contract!vars
  BY <1>3 DEF Contract!vars, Decision
<1>13. \A c \in Clients : Deciding(c)' <=> Deciding(c)
  BY <1>3 DEF Deciding, Done
<1> HIDE DEF e, notice
(* The cut off event of EventParser: nothing but the notice.               *)
<1>14. CASE UNCHANGED <<idx, escrowed, amount, jam>> /\ queue' = queue \o notice
  <2>1. Reads(queue)' = Reads(queue)
    <3>1. Reads(queue \o notice) = Reads(queue)
      BY <1>8, <1>9, ReadsOfAppended
    <3> QED BY <1>14, <3>1 DEF Reads
  <2>2. Pending' = Pending /\ Parser!Parsing' = Parser!Parsing
    BY <1>1, <1>14 DEF Pending, Parser!Parsing
  <2>3. CalmDevice'
    BY <1>3, <1>14 DEF CalmInv, CalmDevice
  <2>4. NoteInv'
    BY <1>3, <1>4, <1>11, <1>14, <2>2 DEF EscrowInv, NoteInv
  <2>5. TokenInv'
    BY <1>3, <1>13, <2>1, <2>2 DEF EscrowInv, TokenInv
  <2> QED BY <1>3, <1>10, <1>12, <2>3, <2>4, <2>5 DEF StepOK, EscrowInv
<1>15. CASE /\ e.kind \in OldNews
            /\ idx' = idx + 1 /\ escrowed' = FALSE /\ jam' = jam
            /\ \E s \in {<<>>, <<e>>} : queue' = queue \o (notice \o s)
  <2>1. Reads(queue)' = Reads(queue)
    <3>1. PICK s \in {<<>>, <<e>>} : queue' = queue \o (notice \o s)
      BY <1>15
    <3>2. s \in Seq(Parser!Event) /\ \A i \in 1..Len(s) : s[i].kind # "Read"
      <4>1. CASE s = <<>>
        BY <4>1, NoEvents
      <4>2. CASE s = <<e>>
        BY <1>2, <1>15, <4>2 DEF OldNews
      <4> QED BY <4>1, <4>2
    <3>3. /\ notice \o s \in Seq(Parser!Event)
          /\ \A i \in 1..Len(notice \o s) : (notice \o s)[i].kind # "Read"
      <4>1. Reads(notice \o s) = Reads(notice)
        BY <1>8, <3>2, ReadsOfAppended
      <4> QED BY <1>8, <3>2, <4>1 DEF Reads
    <3>4. Reads(queue \o (notice \o s)) = Reads(queue)
      BY <1>9, <3>3, ReadsOfAppended
    <3> QED BY <3>1, <3>4 DEF Reads
  <2>2. Pending' <=> Pending
    <3>1. data[idx].kind # "Read"
      BY <1>15 DEF OldNews, e
    <3>2. \A i \in 1..Len(data) :
            idx + 1 <= i /\ data[i].kind = "Read" <=> idx <= i /\ data[i].kind = "Read"
      BY <1>2, <3>1
    <3> QED BY <1>1, <1>15, <3>2 DEF Pending
  <2>3. CalmDevice'
    BY <1>3, <1>15 DEF CalmInv, CalmDevice
  <2>4. NoteInv'
    BY <1>3, <1>4, <1>5, <1>11, <1>15, <2>2 DEF EscrowInv, NoteInv
  <2>5. TokenInv'
    BY <1>3, <1>13, <2>1, <2>2 DEF EscrowInv, TokenInv
  <2> QED BY <1>3, <1>10, <1>12, <2>3, <2>4, <2>5 DEF StepOK, EscrowInv
<1>16. CASE /\ e.kind = "Read"
            /\ idx' = idx + 1 /\ escrowed' = TRUE /\ jam' = jam /\ amount' = e.value
            /\ queue' = queue \o (notice \o <<e>>)
  <2>1. Pending
    BY <1>2, <1>16 DEF Pending, e
  <2>2. /\ dev.told /\ e.value = dev.note /\ idx = Len(data)
        /\ Reads(queue) = {} /\ ~undecided /\ \A c \in Clients : ~Deciding(c)
    BY <1>6, <1>16, <2>1 DEF OldNews, EscrowInv, TokenInv
  <2>3. ~Pending' /\ ~Parser!Parsing'
    BY <1>1, <1>2, <1>16, <2>2 DEF Pending, Parser!Parsing
  <2>4. \E n : Reads(queue)' = {n}
    <3>1. Reads(queue \o notice) = {}
      BY <1>8, <1>9, <2>2, ReadsOfAppended
    <3>2. queue \o notice \in Seq(Parser!Event)
      BY <1>8, <1>9
    <3>3. Reads((queue \o notice) \o <<e>>) = {Len(queue \o notice) + 1}
      BY <1>2, <1>16, <3>1, <3>2, ReadsOfAnnounced
    <3>4. queue' = (queue \o notice) \o <<e>>
      BY <1>2, <1>8, <1>9, <1>16
    <3> QED BY <3>3, <3>4 DEF Reads
  <2>5. CalmDevice'
    BY <1>3, <1>16 DEF CalmInv, CalmDevice
  <2>6. NoteInv'
    BY <1>3, <1>4, <1>11, <1>16, <2>2, <2>3 DEF EscrowInv, NoteInv
  <2>7. TokenInv'
    BY <1>3, <1>13, <2>2, <2>3, <2>4 DEF TokenInv
  <2> QED BY <1>3, <1>10, <1>12, <2>5, <2>6, <2>7 DEF StepOK, EscrowInv
<1> QED
  <2>1. Parser!ParseEvent
    BY DEF Parse
  <2>2. e = data[idx]
    BY DEF e
  <2> QED BY <1>1, <1>6, <1>7, <1>14, <1>15, <1>16, <2>1, <2>2, ParseEffect
          DEF notice

(* The response is parsed: without a Read that is still pending.           *)
LEMMA EndParseStep ==
  ASSUME IInv, CalmLabels', NEW p \in Pollers, EndParse(p)
  PROVE  StepOK
<1> USE DEF IInv
<1>0. p \in Threads /\ p \notin Clients
  BY ThreadAssumption DEF Threads
<1>1. \A c \in Clients : Stays(c)
  BY <1>0, LeaveStays DEF EndParse, DoneLabels, Decisions, CalmInv, CalmLabels
<1>2. \A c \in Clients : (Done(c)' <=> Done(c)) /\ (Deciding(c)' <=> Deciding(c))
  BY <1>1 DEF Stays, Done
<1>3. ~Pending /\ ~Pending' /\ ~Parser!Parsing'
  BY DEF EndParse, Pending, Parser!Parsing, CalmInv, DataInv, DataTypes
<1>4. UNCHANGED <<escrowed, amount, jam, queue, undecided, dev>> /\ data' = <<>>
  BY DEF EndParse
<1>5. CalmDevice' /\ ResponseInv'
  BY <1>4 DEF CalmInv, CalmDevice, ResponseInv
<1>6. NoteInv'
  <2>1. StackTellsTruth'
    BY <1>1, <1>4 DEF EscrowInv, NoteInv, StackTellsTruth, Stays, Done, DoneLabels
  <2> QED BY <1>2, <1>3, <1>4, <2>1 DEF EscrowInv, NoteInv
<1>7. TokenInv'
  BY <1>2, <1>3, <1>4 DEF EscrowInv, TokenInv, Reads
<1>8. UNCHANGED Contract!vars
  <2>1. Decided' = Decided
    BY <1>1, DecidedStay DEF CalmInv
  <2> QED BY <1>4, <2>1 DEF Contract!vars, Decided
<1> QED BY <1>4, <1>5, <1>6, <1>7, <1>8 DEF StepOK, EscrowInv

-----------------------------------------------------------------------------
(* The world                                                               *)

(* A note goes in only when none is in escrow, hence none was reported.    *)
LEMMA InsertStep ==
  ASSUME IInv, NEW v \in Values, InsertNote(v)
  PROVE  StepOK
<1> USE DEF IInv
<1>1. UNCHANGED <<pc, op, data, idx, escrowed, amount, jam, queue, undecided>>
  BY DEF InsertNote, threads, parsed
<1>2. /\ dev'.note = v /\ dev'.told = dev.told /\ dev'.jammed = dev.jammed
      /\ dev'.news = dev.news /\ dev'.stacked = dev.stacked
  BY DEF InsertNote, CalmInv, DataInv, DataTypes, Device
<1>3. ~dev.told /\ dev.note = 0
  BY DEF InsertNote, EscrowInv, NoteInv
<1>4. /\ Pending' = Pending /\ Reads(queue)' = Reads(queue)
      /\ Parser!Parsing' = Parser!Parsing
      /\ \A c \in Clients : (Done(c)' <=> Done(c)) /\ (Deciding(c)' <=> Deciding(c))
  BY <1>1 DEF Pending, Reads, Parser!Parsing, Deciding, Done
<1>5. CalmDevice' /\ ResponseInv'
  BY <1>1, <1>2, <1>3 DEF EscrowInv, CalmInv, CalmDevice, ResponseInv
<1>6. NoteInv'
  BY <1>1, <1>2, <1>3, <1>4 DEF EscrowInv, NoteInv, StackTellsTruth
<1>7. TokenInv'
  BY <1>1, <1>2, <1>4 DEF EscrowInv, TokenInv
<1>8. Contract!Insert(v)
  BY <1>1, <1>2, <1>3 DEF Contract!Insert, Decision
<1> QED BY <1>3, <1>5, <1>6, <1>7, <1>8 DEF StepOK, EscrowInv, Contract!Next

LEMMA ReadsOfRest ==
  ASSUME NEW q \in Seq(Parser!Event), q # <<>>
  PROVE  /\ \A i \in Reads(Tail(q)) : i + 1 \in Reads(q) /\ i + 1 # 1 /\ i \in Nat
         /\ Head(q).kind = "Read" <=> 1 \in Reads(q)
<1>1. /\ Len(q) \in Nat \ {0} /\ Len(Tail(q)) = Len(q) - 1 /\ Head(q) = q[1]
      /\ \A i \in 1..Len(q) - 1 : Tail(q)[i] = q[i + 1]
  OBVIOUS
<1> QED BY <1>1 DEF Reads

(* The token passes from the queue to the application.                     *)
LEMMA PopStep ==
  ASSUME IInv, PopEvent
  PROVE  StepOK
<1> USE DEF IInv
<1>1. UNCHANGED <<pc, op, data, idx, escrowed, amount, jam, dev>>
  BY DEF PopEvent, threads
<1>2. queue \in Seq(Parser!Event) /\ undecided \in BOOLEAN
  BY DEF CalmInv, DataInv, DataTypes
<1>3. /\ \A i \in Reads(Tail(queue)) : i + 1 \in Reads(queue) /\ i + 1 # 1 /\ i \in Nat
      /\ Head(queue).kind = "Read" <=> 1 \in Reads(queue)
  BY <1>2, ReadsOfRest DEF PopEvent
<1>4. Reads(queue)' = Reads(Tail(queue))
  BY DEF PopEvent, Reads
<1>5. undecided' <=> undecided \/ Head(queue).kind = "Read"
  BY DEF PopEvent
<1>6. /\ Pending' = Pending /\ Parser!Parsing' = Parser!Parsing
      /\ \A c \in Clients : (Done(c)' <=> Done(c)) /\ (Deciding(c)' <=> Deciding(c))
  BY <1>1 DEF Pending, Parser!Parsing, Deciding, Done
<1>7. CalmDevice' /\ ResponseInv'
  BY <1>1 DEF EscrowInv, CalmInv, CalmDevice, ResponseInv
<1>8. NoteInv'
  BY <1>1, <1>6 DEF EscrowInv, NoteInv, StackTellsTruth
<1>9. TokenInv'
  <2>1. CASE Reads(queue) = {}
    <3>1. Reads(queue)' = {} /\ (undecided' <=> undecided)
      BY <1>3, <1>4, <1>5, <2>1
    <3> QED BY <1>1, <1>6, <2>1, <3>1 DEF EscrowInv, TokenInv
  <2>2. CASE Reads(queue) # {}
    <3>1. /\ dev.told /\ ~Pending /\ ~undecided
          /\ \A c \in Clients : ~Deciding(c)
          /\ \A i, j \in Reads(queue) : i = j
      BY <2>2 DEF EscrowInv, TokenInv
    <3>2. undecided' => Reads(queue)' = {}
      BY <1>3, <1>4, <1>5, <3>1
    <3>3. \A i, j \in Reads(Tail(queue)) : i = j
      BY <1>3, <3>1
    <3> QED BY <1>1, <1>4, <1>6, <3>1, <3>2, <3>3 DEF TokenInv
  <2> QED BY <2>1, <2>2
<1>10. UNCHANGED Contract!vars
  BY <1>1 DEF Contract!vars, Decision
<1> QED BY <1>1, <1>7, <1>8, <1>9, <1>10 DEF StepOK, EscrowInv

-----------------------------------------------------------------------------
(* Every step                                                              *)

(* The exchanges and lock steps that leave the note alone.                 *)
LEMMA LockStep ==
  ASSUME IInv, CalmLabels', NEW t \in Threads, GetPort(t) \/ GetKey(t)
  PROVE  StepOK
<1>1. pc[t] \notin DoneLabels
  BY DEF GetPort, GetKey, WaitsPort, WaitsKey, DoneLabels
<1>2. UNCHANGED <<data, idx, escrowed, amount, jam, queue, dev>>
  BY DEF GetPort, GetKey, parsed
<1>3. CASE Fails(t)
  BY <1>1, <1>2, <1>3, FailStep
<1>4. ASSUME NEW l, l \notin DoneLabels, Go(t, l), UNCHANGED undecided
      PROVE  StepOK
  BY <1>1, <1>2, <1>4, GoStays, QuietStep DEF Quiet, IInv
<1>5. GetPort(t) => AfterPort(t) \notin DoneLabels
  BY DEF GetPort, WaitsPort, AfterPort, DoneLabels
<1>6. GetKey(t) => AfterKey(t) \notin DoneLabels
  BY DEF GetKey, WaitsKey, AfterKey, DoneLabels
<1> QED BY <1>3, <1>4, <1>5, <1>6 DEF GetPort, GetKey

LEMMA PollerStepOK ==
  ASSUME Calm, IInv, CalmLabels', NEW p \in Pollers, PollerStep(p)
  PROVE  StepOK
<1> p \in Threads /\ p \notin Clients
  BY ThreadAssumption DEF Threads
<1> USE DEF IInv
<1>0. pc[p] \notin DoneLabels /\ op[p] \notin Decisions
  BY DEF CalmInv, CalmLabels, ControlInv, ThreadTypes, PollerLabels, DoneLabels, Decisions
<1>1. CASE CheckReset(p) \/ CheckJam(p) \/ Decide(p) \/ Rest(p)
  <2>1. \A c \in Clients : Stays(c)
    BY <1>0, <1>1, GoStays, LeaveStays DEF CheckReset, CheckJam, Decide, Rest, DoneLabels
  <2> QED BY <1>1, <2>1, QuietStep DEF CheckReset, CheckJam, Decide, Rest, parsed, Quiet
<1>2. CASE GetPort(p) \/ GetKey(p)
  BY <1>2, LockStep
<1>3. CASE ResetJam(p) \/ JamOver(p)
  BY <1>3 DEF ResetJam, JamOver, CalmInv, CalmLabels
<1>4. CASE Hold(p)
  <2>1. \A c \in Clients : Stays(c)
    BY <1>0, <1>4, GoStays, LeaveStays DEF Hold, DoneLabels
  <2>2. dev' = Settled(dev)
    BY <1>4, CommandReply DEF Hold, Calm
  <2>3. \A c \in Clients : ~Done(c)
    BY <1>4, OthersAreNotDone DEF Hold, HoldsPort
  <2> QED BY <1>4, <2>1, <2>2, <2>3, QuietStep DEF Hold, parsed, Quiet
<1>5. CASE Poll(p)
  BY <1>5, PollStep
<1>6. CASE Parse(p)
  BY <1>6, ParseStep
<1>7. CASE EndParse(p)
  BY <1>7, EndParseStep
<1> QED BY <1>1, <1>2, <1>3, <1>4, <1>5, <1>6, <1>7 DEF PollerStep

LEMMA ClientStepOK ==
  ASSUME Calm, IInv, CalmLabels', NEW c \in Clients, ClientStep(c)
  PROVE  StepOK
<1> c \in Threads
  BY DEF Threads
<1> USE DEF IInv
<1>0. /\ dev \in Device /\ ~dev.jammed
      /\ \A i \in 1..Len(dev.news) : dev.news[i].kind \in OldNews
  BY DEF CalmInv, CalmDevice, DataInv, DataTypes
<1>1. CASE GetPort(c) \/ GetKey(c)
  BY <1>1, LockStep
<1>2. CASE KeyNotSet(c)
  BY <1>2, FailStep DEF KeyNotSet, parsed, DoneLabels
<1>a. ASSUME pc[c] = "send", op[c] \in Decisions
      PROVE  dev.told /\ dev.note # 0
  BY <1>a DEF EscrowInv, TokenInv, NoteInv, Deciding, Done, DoneLabels
<1>3. CASE SendStack(c)
  <2>1. PICK r \in Outcomes(dev, OnPoll(dev)) :
          /\ dev' = r.dev
          /\ IF r.status = "Ok"
             THEN Go(c, "stacked") /\ keyLock' = NoThread /\ UNCHANGED <<port, undecided>>
             ELSE Fails(c)
    BY <1>3 DEF SendStack
  <2>2. dev.told /\ dev.note # 0
    BY <1>a, <1>3 DEF SendStack, Decisions
  <2>3. /\ r.status = "Ok" /\ dev'.note = 0 /\ ~dev'.told /\ ~dev'.jammed
        /\ dev'.stacked = dev.note
        /\ dev'.news = <<DeviceEvent("NoteCredit", dev.note)>>
    BY <1>0, <2>1, <2>2, StackReply DEF Calm
  <2>4. \A i \in 1..Len(dev'.news) : dev'.news[i].kind \in OldNews
    BY <2>3 DEF DeviceEvent, OldNews
  <2> QED BY <1>3, <2>1, <2>3, <2>4, TakeStep DEF SendStack, Decisions, DoneLabels
<1>4. CASE SendReject(c)
  <2>1. PICK r \in Outcomes(dev, OnReject(dev)) :
          /\ dev' = r.dev
          /\ IF r.status = "Ok"
             THEN Go(c, "rejected") /\ keyLock' = NoThread /\ UNCHANGED <<port, undecided>>
             ELSE Fails(c)
    BY <1>4 DEF SendReject
  <2>2. dev.told /\ dev.note # 0
    BY <1>a, <1>4 DEF SendReject, Decisions
  <2>3. /\ r.status = "Ok" /\ dev'.note = 0 /\ ~dev'.told /\ ~dev'.jammed
        /\ dev'.news = Append(dev.news, DeviceEvent("Rejected", 0))
    BY <1>0, <2>1, <2>2, RejectReply DEF Calm
  <2>4. \A i \in 1..Len(dev'.news) : dev'.news[i].kind \in OldNews
    <3>1. dev.news \in Seq(Parser!Event)
      BY <1>0 DEF Device
    <3>2. DeviceEvent("Rejected", 0).kind \in OldNews
      BY DEF DeviceEvent, OldNews
    <3> QED BY <1>0, <2>3, <3>1, <3>2
  <2> QED BY <1>4, <2>1, <2>3, <2>4, TakeStep DEF SendReject, Decisions, DoneLabels
<1>5. CASE ClearEscrow(c)
  BY <1>5, ReturnStep
<1>6. CASE SendCommand(c) \/ EnablePayout(c) \/ Payout(c) \/ DisablePayout(c)
  <2>1. pc[c] \in HoldsPort /\ pc[c] \notin DoneLabels /\ op[c] \notin Decisions
    BY <1>6 DEF SendCommand, EnablePayout, Payout, DisablePayout, HoldsPort, DoneLabels,
                CalmInv, CalmLabels, DecisionLabels, Decisions
  <2>2. \A d \in Clients : Stays(d)
    BY <1>6, <2>1, GoStays, LeaveStays
       DEF SendCommand, EnablePayout, Payout, DisablePayout, DoneLabels
  <2>3. dev' = Settled(dev)
    BY <1>6, CommandReply DEF SendCommand, EnablePayout, Payout, DisablePayout, Calm
  <2>4. \A d \in Clients : ~Done(d)
    BY <2>1, OthersAreNotDone DEF Done
  <2> QED BY <1>6, <2>2, <2>3, <2>4, QuietStep
          DEF SendCommand, EnablePayout, Payout, DisablePayout, parsed, Quiet
<1>7. CASE SendPoll(c)
  BY <1>7, NoResets DEF SendPoll
<1>8. CASE SendReset(c) \/ DeviceRestarted(c) \/ ClearPort(c) \/ Sync(c) \/ LastPoll(c)
  BY <1>8 DEF SendReset, DeviceRestarted, ClearPort, Sync, LastPoll, CalmInv, CalmLabels,
              ResetLabels
<1> QED BY <1>1, <1>2, <1>3, <1>4, <1>5, <1>6, <1>7, <1>8 DEF ClientStep

LEMMA NextStepOK ==
  ASSUME Calm, IInv, [Next]_vars
  PROVE  IInv' /\ StepOK
<1> USE DEF IInv
<1>1. ControlInv' /\ DataInv' /\ CalmLabels'
  BY ControlInvInductive, DataInvInductive, CalmLabelsStep DEF CalmInv
<1>2. ~Jam
  BY DEF Jam, Calm, CalmInv, DataInv, DataTypes
<1>3. StepOK
  <2>1. CASE UNCHANGED vars
    BY <1>1, <2>1, QuietStep DEF vars, Quiet, Stays, Deciding, Done
  <2>2. CASE \E p \in Pollers : PollerStep(p)
    BY <1>1, <2>2, PollerStepOK
  <2>3. CASE \E c \in Clients : ClientStep(c) \/ \E o \in Ops : Start(c, o)
    BY <1>1, <2>3, ClientStepOK, StartStep
  <2>4. CASE (\E v \in Values : InsertNote(v)) \/ PopEvent
    BY <2>4, InsertStep, PopStep
  <2> QED BY <1>2, <2>1, <2>2, <2>3, <2>4 DEF Next
<1>4. CalmDevice' /\ EscrowInv'
  BY <1>3 DEF StepOK
<1> QED BY <1>1, <1>3, <1>4 DEF CalmInv

LEMMA InitOK ==
  ASSUME Init
  PROVE  IInv
<1>1. /\ pc = [t \in Threads |-> IF t \in Pollers THEN "idle" ELSE "ready"]
      /\ op = [t \in Threads |-> "none"]
      /\ ~escrowed /\ ~jam /\ data = <<>> /\ queue = <<>> /\ ~undecided
      /\ dev.note = 0 /\ ~dev.told /\ ~dev.jammed /\ dev.news = <<>>
  BY DEF Init, IdleDevice
<1>2. \A c \in Clients : pc[c] \in {"idle", "ready"} /\ op[c] = "none"
  BY <1>1 DEF Threads
<1>3. CalmLabels
  BY <1>1, <1>2 DEF Threads, CalmLabels, ResetLabels, DoneLabels, Decisions
<1>4. CalmDevice /\ ResponseInv
  BY <1>1 DEF CalmDevice, ResponseInv
<1>5. /\ ~Pending /\ Reads(queue) = {}
      /\ \A c \in Clients : ~Deciding(c) /\ ~Done(c)
  BY <1>1, <1>2 DEF Pending, Reads, Deciding, Decisions, Done, DoneLabels
<1>6. NoteInv
  BY <1>1, <1>2 DEF NoteInv, StackTellsTruth
<1>7. TokenInv
  BY <1>1, <1>5 DEF TokenInv
<1> QED BY <1>3, <1>4, <1>6, <1>7, InitControl, InitData DEF IInv, CalmInv, EscrowInv

LEMMA Invariance == ASSUME Calm PROVE Spec => []IInv
<1>1. Init => IInv
  BY InitOK
<1>2. IInv /\ [Next]_vars => IInv'
  BY NextStepOK
<1> QED BY <1>1, <1>2, PTL DEF Spec

(* Whenever nobody has the port, ESCROWED and ESCROWED_AMOUNT agree with   *)
(* the device, whatever pollers, clients and people do in whatever order   *)
(* (device_handle.rs:506-526, 1099-1112, 1214-1235; inner.rs:55-90).       *)
THEOREM EscrowCorrect == ASSUME Calm PROVE Spec => []EscrowMirrorsDevice
<1>1. IInv => EscrowMirrorsDevice
  <2> SUFFICES ASSUME IInv, port = NoThread PROVE escrowed = dev.told
                                                  /\ (escrowed => amount = dev.note)
    BY DEF EscrowMirrorsDevice
  <2>1. \A t \in Threads : pc[t] \notin HoldsPort
    BY ThreadAssumption DEF IInv, CalmInv, ControlInv, LocksFollowLabels
  <2>2. data = <<>> /\ \A c \in Clients : ~Done(c)
    BY <2>1 DEF Threads, HoldsPort, Done, DoneLabels, IInv, CalmInv, DataInv,
                ResponseBeingParsed
  <2>3. ~Pending
    BY <2>2 DEF Pending
  <2>4. (escrowed <=> dev.told) /\ (escrowed => amount = dev.note)
    BY <2>2, <2>3 DEF IInv, EscrowInv, NoteInv
  <2>5. escrowed \in BOOLEAN /\ dev.told \in BOOLEAN
    BY DEF IInv, CalmInv, DataInv, DataTypes, Device
  <2> QED BY <2>4, <2>5
<1> QED BY <1>1, Invariance, PTL

(* stack returns the value of the note that it has stacked, not that of a  *)
(* note that was inserted or rejected before or since                      *)
(* (device_handle.rs:1098-1112).                                           *)
THEOREM StackCorrect == ASSUME Calm PROVE Spec => []StackTellsTruth
<1>1. IInv => StackTellsTruth
  BY DEF IInv, EscrowInv, NoteInv
<1> QED BY <1>1, Invariance, PTL

(* No poll of a background thread takes a note that was reported: it       *)
(* leaves by the decision of a client (device_handle.rs:506-514).          *)
THEOREM DecisionCorrect == ASSUME Calm PROVE Spec => NoteLeavesByDecision
<1>1. IInv /\ [Next]_vars =>
        [dev.told /\ ~dev'.told => \E t \in Threads : Moves(t) /\ pc'[t] # pc[t]]_vars
  BY NextStepOK DEF StepOK
<1> QED BY <1>1, Invariance, PTL DEF Spec, NoteLeavesByDecision

(* The pollers and the handle implement the contract about the escrow, of  *)
(* which KeepsContract adds the liveness: a note is announced, is decided  *)
(* on once, and leaves by that decision or stays                           *)
(* (device_handle.rs:466-562, 1098-1112, 1213-1235).                       *)
THEOREM ContractCorrect == ASSUME Calm PROVE Spec => Contract!Spec
<1>1. Init => Contract!Init
  <2> SUFFICES ASSUME Init PROVE Contract!Init
    OBVIOUS
  <2>1. \A c \in Clients : Decision(c) = "none"
    BY DEF Init, Threads, Decision, Decisions
  <2> QED BY <2>1 DEF Init, IdleDevice, Contract!Init
<1>2. IInv /\ [Next]_vars => [Contract!Next]_(Contract!vars)
  BY NextStepOK DEF StepOK
<1> QED BY <1>1, <1>2, Invariance, PTL DEF Spec, Contract!Spec
=============================================================================
