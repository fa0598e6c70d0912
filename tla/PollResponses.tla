---------------------------- MODULE PollResponses ----------------------------
(***************************************************************************)
(* The event parser at work: one poll response after the other is parsed   *)
(* by EventParser, the application drains the channel (pop_event) or drops *)
(* its end of it, and between two responses a client's stack or reject     *)
(* clears the escrow flags.                                                *)
(***************************************************************************)
EXTENDS EventParser

CONSTANTS
  Alphabet,         \* the events a device puts into a response
  MaxData,          \* bound: events in one response
  MaxQueue          \* bound: unreceived events when a response arrives

ASSUME ResponseAssumption ==
  /\ Alphabet \subseteq Event
  /\ MaxData \in Nat
  /\ MaxQueue \in Nat

(* Only the last event of a response can be cut off by its end.            *)
Responses ==
  {d \in UNION {[1..n -> Alphabet] : n \in 0..MaxData} :
     \A i \in 1..Len(d) - 1 : d[i].whole}

Init ==
  /\ data = <<>> /\ idx = 1
  /\ escrowed = FALSE /\ amount = 0
  /\ cashbox = TRUE /\ jam = FALSE
  /\ queue = <<>> /\ rxOpen = TRUE

(* A poll response with status Ok reaches parse_events.                    *)
NextResponse ==
  /\ data = <<>> /\ Len(queue) < MaxQueue
  /\ data' \in Responses /\ idx' = 1
  /\ UNCHANGED <<escrowed, amount, cashbox, jam, queue, rxOpen>>

(* One round of the loop of parse_events.                                  *)
Parse == ParseEvent /\ UNCHANGED rxOpen

(* Mutant: the next response is not parsed from its beginning.             *)
EndResponseKeepsIdx ==
  /\ data # <<>> /\ ~Parsing
  /\ data' = <<>>
  /\ UNCHANGED <<idx, escrowed, amount, cashbox, jam, queue, rxOpen>>

(* The loop has reached the end of the data: parse_events returns.         *)
EndResponse ==
  /\ data # <<>> /\ ~Parsing
  /\ data' = <<>> /\ idx' = 1
  /\ UNCHANGED <<escrowed, amount, cashbox, jam, queue, rxOpen>>

(* DeviceHandle::stack and ::reject, which run under the lock that the     *)
(* polling thread holds while it parses.                                   *)
ClientDecides ==
  /\ data = <<>>
  /\ escrowed' = FALSE /\ amount' = 0
  /\ UNCHANGED <<data, idx, cashbox, jam, queue, rxOpen>>

(* The polling thread: the device was reset and the jam is over.           *)
JamCleared ==
  /\ data = <<>> /\ jam
  /\ jam' = FALSE
  /\ UNCHANGED <<data, idx, escrowed, amount, cashbox, queue, rxOpen>>

PopEvent ==
  /\ rxOpen /\ queue # <<>>
  /\ queue' = Tail(queue)
  /\ UNCHANGED <<data, idx, escrowed, amount, cashbox, jam, rxOpen>>

DropReceiver ==
  /\ rxOpen
  /\ rxOpen' = FALSE /\ queue' = <<>>
  /\ UNCHANGED <<data, idx, escrowed, amount, cashbox, jam>>

Next ==
  \/ NextResponse \/ Parse \/ EndResponse
  \/ ClientDecides \/ JamCleared \/ PopEvent \/ DropReceiver

Spec == Init /\ [][Next]_parserVars

(* The polling thread keeps running the loop it is in.                     *)
FairSpec == Spec /\ WF_parserVars(Parse)

-----------------------------------------------------------------------------
(* Properties                                                              *)

(* Every flag has its type and idx stays within the response or one past   *)
(* its end (inner.rs:20-25).                                               *)
TypeOK ==
  /\ data \in Seq(Event)
  /\ idx \in 1..Len(data) + 1
  /\ escrowed \in BOOLEAN /\ amount \in Values \cup {0}
  /\ cashbox \in BOOLEAN /\ jam \in BOOLEAN
  /\ queue \in Seq(Event)
  /\ rxOpen \in BOOLEAN

(* The events that say where the note is.                                  *)
TellsEscrow(e) ==
  \/ e.kind \in NoteMoved \cup {"NoteCredit", "UnsafeJam"}
  \/ e.kind = "Read" /\ e.value # 0

TellsCashbox(e) == e.kind # "Disabled"

(* Event i is the last one parsed so far that says where the note is, or   *)
(* whether the cashbox is there.                                           *)
LastAboutNote(i) ==
  /\ i \in 1..idx - 1 /\ TellsEscrow(data[i])
  /\ \A j \in i + 1..idx - 1 : ~TellsEscrow(data[j])

LastAboutCashbox(i) ==
  /\ i \in 1..idx - 1 /\ TellsCashbox(data[i])
  /\ \A j \in i + 1..idx - 1 : ~TellsCashbox(data[j])

(* Whatever the order of the events in a response, ESCROWED says what the  *)
(* last event about the note said (the arms of the match of parse_events), *)
(* and ESCROWED_AMOUNT is that note's value when the note is in escrow.    *)
EscrowFollowsResponse ==
  \A i \in 1..idx - 1 : LastAboutNote(i) =>
    /\ escrowed = (data[i].kind = "Read")
    /\ escrowed => amount = data[i].value

(* CASHBOX_ATTACHED says what the last event about the cashbox said, where *)
(* every event but the silent Disabled says something (inner.rs:28-42,     *)
(* 91-128, 203-224).  The event at idx may have been looked at already.    *)
CashboxFollowsResponse ==
  \A i \in 1..idx - 1 : LastAboutCashbox(i) =>
    \/ cashbox = (data[i].kind \notin CashboxGone)
    \/ cashbox /\ Parsing /\ data[idx].kind \notin NotBack

(* In q, event j is the next of these kinds after event i, or i the last.  *)
HeardNext(q, i, j, kinds) ==
  /\ i < j /\ q[i].kind \in kinds /\ q[j].kind \in kinds
  /\ \A k \in i + 1..j - 1 : q[k].kind \notin kinds

HeardLast(q, i, kinds) ==
  q[i].kind \in kinds /\ \A k \in i + 1..Len(q) : q[k].kind \notin kinds

AboutCashbox == CashboxGone \cup {"CashboxReplaced"}
AboutNote == {"Read", "NoteCredit", "UnsafeJam"}

(* Losses and returns of the cashbox take turns in q, and the last one     *)
(* says whether it is there.                                               *)
TakeTurns(q, there) ==
  /\ \A i, j \in 1..Len(q) : HeardNext(q, i, j, AboutCashbox) =>
       (q[i].kind \in CashboxGone) # (q[j].kind \in CashboxGone)
  /\ \A i \in 1..Len(q) : HeardLast(q, i, AboutCashbox) =>
       there = (q[i].kind \notin CashboxGone)

(* The last that q tells of the note is that it is held, and its value.    *)
Announced(q, value) ==
  \A i \in 1..Len(q) : HeardLast(q, i, AboutNote) => q[i] = Note("Read", value)

(* The application never hears twice in a row that the cashbox is gone or  *)
(* that it is back, although devices repeat these events and the code also *)
(* infers a replacement; the last it was told is what CASHBOX_ATTACHED     *)
(* says (the guards at inner.rs:28, 99, 118, 210).                         *)
CashboxEventsAlternate == TakeTurns(queue, cashbox)

(* A note the code takes to be in escrow has been announced to the         *)
(* application with its value, and nothing sent since says otherwise: the  *)
(* application is never asked to decide about a note it was told is gone   *)
(* (inner.rs:55-90, 236-253).                                              *)
HeldNoteAnnounced == escrowed => Announced(queue, amount)

(* The loop over a response that is not cut off ends, whatever the state   *)
(* it is parsed in, the receiver's end included (inner.rs:22-44, 97-128).  *)
WholeResponseEnds == (Parsing /\ data[Len(data)].whole) ~> ~Parsing

(* "keep parsing to the end of the data array" (inner.rs:22-24): the loop  *)
(* over any response ends.                                                 *)
ParseEnds == Parsing ~> ~Parsing
=============================================================================
