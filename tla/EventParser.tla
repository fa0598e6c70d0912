----------------------------- MODULE EventParser -----------------------------
(***************************************************************************)
(* DeviceHandle::parse_events (src/device_handle/inner.rs): the loop that  *)
(* walks over the events of one poll response, updates the process-wide    *)
(* flags and pushes events onto the channel of the PushEventReceiver.      *)
(*                                                                         *)
(* The response is a sequence of events instead of bytes and idx counts    *)
(* events.  An event with whole = FALSE is one whose try_from fails, e.g.  *)
(* because the response ends inside its payload.  One step is one          *)
(* iteration of the while loop.                                            *)
(***************************************************************************)
EXTENDS Integers, Sequences

CONSTANT Values     \* the note values a channel can have

ASSUME ValuesAssumption == Values \subseteq Nat \ {0}

VARIABLES
  data,             \* the events of the response being parsed
  idx,              \* index into data of the next event
  escrowed,         \* ESCROWED
  amount,           \* ESCROWED_AMOUNT
  cashbox,          \* CASHBOX_ATTACHED
  jam,              \* UNSAFE_JAM
  queue,            \* the events sent on tx and not received yet
  rxOpen            \* the receiving end of the channel still exists; only read here

parserVars == <<data, idx, escrowed, amount, cashbox, jam, queue, rxOpen>>

-----------------------------------------------------------------------------
(* Events                                                                  *)

Forwarded   == {"DeviceReset", "FraudAttempt", "NoteClearedFromFront",
                "NoteClearedIntoCashbox"}
NoteMoved   == {"Rejected", "Rejecting", "Stacked", "Stacking"}
CashboxGone == {"CashboxRemoved", "StackerFull"}
OneByte     == {"ChannelDisable", "Unsupported"}   \* skipped without try_from
Kinds       == Forwarded \cup NoteMoved \cup CashboxGone \cup OneByte \cup
               {"Read", "NoteCredit", "CashboxReplaced", "Disabled", "UnsafeJam"}

Event == [kind : Kinds, value : Values \cup {0}, whole : BOOLEAN]

(* Mutant: a Disabled event is taken for a sign of the cashbox.            *)
NotBackForgetsDisabled == CashboxGone

(* The statuses that say nothing about the cashbox being back.             *)
NotBack == CashboxGone \cup {"Disabled"}

Plain(k)   == [kind |-> k, value |-> 0, whole |-> TRUE]
Note(k, v) == [kind |-> k, value |-> v, whole |-> TRUE]

-----------------------------------------------------------------------------
(* One iteration of the loop                                               *)

Parsing == idx <= Len(data)

(* Any status outside NotBack shows that a cashbox thought missing is back. *)
CashboxIsBack(e) == ~cashbox /\ e.kind \notin NotBack

(* What the inferred replacement sends before the event itself.            *)
BackNotice(e) == IF CashboxIsBack(e) THEN <<Plain("CashboxReplaced")>> ELSE <<>>

(* tx.send: fails, and sends nothing, once the receiver is dropped.        *)
Send(es) == queue' = IF rxOpen THEN queue \o es ELSE queue

(* The failed send of the inferred event continues the loop: the flag is   *)
(* set, the event is looked at again.                                      *)
NoticeFails(e) ==
  /\ CashboxIsBack(e) /\ ~rxOpen
  /\ cashbox' = TRUE
  /\ UNCHANGED <<data, idx, escrowed, amount, jam, queue>>

(* try_from fails: continue_on_err! goes round the loop with idx as it was. *)
Unparsable(e) ==
  /\ ~e.whole /\ e.kind \notin OneByte
  /\ cashbox' = (cashbox \/ CashboxIsBack(e))
  /\ Send(BackNotice(e))
  /\ UNCHANGED <<data, idx, escrowed, amount, jam>>

(* The event is parsed and idx moves past it; es is what its arm sends.    *)
Advance(e, es) ==
  /\ idx' = idx + 1
  /\ Send(BackNotice(e) \o es)
  /\ UNCHANGED data

CashboxSeen(e) == cashbox' = (cashbox \/ CashboxIsBack(e))

Forward(e) ==
  /\ e.kind \in Forwarded
  /\ Advance(e, <<e>>) /\ CashboxSeen(e)
  /\ UNCHANGED <<escrowed, amount, jam>>

(* Mutant: a note that is still moving counts as escrowed.                 *)
ReadMovingNote(e) ==
  /\ e.kind = "Read"
  /\ escrowed' = TRUE /\ amount' = e.value
  /\ Advance(e, IF e.value # 0 THEN <<e>> ELSE <<>>)
  /\ CashboxSeen(e)
  /\ UNCHANGED jam

ReadNote(e) ==                  \* value 0: the note is still moving
  /\ e.kind = "Read"
  /\ IF e.value # 0
     THEN /\ escrowed' = TRUE /\ amount' = e.value
          /\ Advance(e, <<e>>)
     ELSE UNCHANGED <<escrowed, amount>> /\ Advance(e, <<>>)
  /\ CashboxSeen(e)
  /\ UNCHANGED jam

CreditNote(e) ==                \* from escrow to storage
  /\ e.kind = "NoteCredit"
  /\ escrowed' = FALSE /\ amount' = e.value
  /\ Advance(e, <<e>>) /\ CashboxSeen(e)
  /\ UNCHANGED jam

(* Mutant: the note leaves, ESCROWED stays.                                *)
MoveNoteKeepsEscrow(e) ==
  /\ e.kind \in NoteMoved
  /\ Advance(e, <<>>) /\ CashboxSeen(e)
  /\ UNCHANGED <<escrowed, amount, jam>>

MoveNote(e) ==                  \* sent to nobody, the amount stays
  /\ e.kind \in NoteMoved
  /\ escrowed' = FALSE
  /\ Advance(e, <<>>) /\ CashboxSeen(e)
  /\ UNCHANGED <<amount, jam>>

(* Mutant: a loss that is known already is sent again.                     *)
LoseCashboxTwice(e) ==
  /\ e.kind \in CashboxGone
  /\ cashbox' = FALSE
  /\ Advance(e, <<e>>)
  /\ UNCHANGED <<escrowed, amount, jam>>

LoseCashbox(e) ==
  /\ e.kind \in CashboxGone
  /\ cashbox' = FALSE
  /\ Advance(e, IF cashbox THEN <<e>> ELSE <<>>)
  /\ UNCHANGED <<escrowed, amount, jam>>

ReplaceCashbox(e) ==            \* the check before the match sent the event
  /\ e.kind = "CashboxReplaced"
  /\ cashbox' = TRUE
  /\ Advance(e, <<>>)
  /\ UNCHANGED <<escrowed, amount, jam>>

JamNote(e) ==
  /\ e.kind = "UnsafeJam"
  /\ escrowed' = FALSE /\ jam' = TRUE
  /\ Advance(e, <<e>>) /\ CashboxSeen(e)
  /\ UNCHANGED amount

(* Mutant: the index is not moved past an event that is skipped.           *)
IgnoreInPlace(e) ==
  /\ e.kind \in OneByte \cup {"Disabled"}
  /\ Send(BackNotice(e)) /\ CashboxSeen(e)
  /\ UNCHANGED <<data, idx, escrowed, amount, jam>>

Ignore(e) ==
  /\ e.kind \in OneByte \cup {"Disabled"}
  /\ Advance(e, <<>>) /\ CashboxSeen(e)
  /\ UNCHANGED <<escrowed, amount, jam>>

Parsed(e) ==
  /\ ~(CashboxIsBack(e) /\ ~rxOpen)
  /\ e.whole \/ e.kind \in OneByte
  /\ \/ Forward(e) \/ ReadNote(e) \/ CreditNote(e) \/ MoveNote(e)
     \/ LoseCashbox(e) \/ ReplaceCashbox(e) \/ JamNote(e) \/ Ignore(e)

ParseEvent ==
  /\ Parsing
  /\ LET e == data[idx]
     IN NoticeFails(e) \/ (~(CashboxIsBack(e) /\ ~rxOpen) /\ Unparsable(e)) \/ Parsed(e)
=============================================================================
