------------------------------ MODULE SspDevice ------------------------------
(***************************************************************************)
(* The ITL device behind the serial port.  It is not part of the           *)
(* repository: what is stated here is what src/device_handle.rs and        *)
(* src/device_handle/inner.rs rely on when they talk to it.                *)
(*                                                                         *)
(*   - a poll reports what happened since the last one; a note that has    *)
(*     reached the escrow is reported by a Read event;                     *)
(*   - a poll with a reported note in escrow stacks the note, and its      *)
(*     credit is reported by a later poll (device_handle.rs:506-514,       *)
(*     1098-1112);                                                         *)
(*   - hold keeps the note, reject and reset give it back;                 *)
(*   - a jam is reported as a status or as an event, and ends by a reset.  *)
(*                                                                         *)
(* A device is a record: the value of the note in escrow (0: none),        *)
(* whether a Read event reported it, whether it is jammed, the value of    *)
(* the note the last command stacked (0: none), and the events to report.  *)
(***************************************************************************)
EXTENDS Integers, Sequences

CONSTANT Faults   \* messages may be lost, polls answered with other statuses

ASSUME FaultsAssumption == Faults \in BOOLEAN

IdleDevice ==
  [note |-> 0, told |-> FALSE, jammed |-> FALSE, stacked |-> 0, news |-> <<>>]

DeviceEvent(k, v) == [kind |-> k, value |-> v, whole |-> TRUE]

Reply(d, status, events) == [dev |-> d, status |-> status, events |-> events]

(* A command that moves no note.                                           *)
Settled(d) == [d EXCEPT !.stacked = 0]

OnCommand(d) == {Reply(Settled(d), "Ok", <<>>)}

OnReset(d) ==
  {Reply([IdleDevice EXCEPT !.news = <<DeviceEvent("DeviceReset", 0)>>], "Ok", <<>>)}

OnReject(d) ==
  IF d.note = 0 THEN {Reply(Settled(d), "CannotProcess", <<>>)}
  ELSE {Reply([Settled(d) EXCEPT !.note = 0, !.told = FALSE,
                 !.news = Append(@, DeviceEvent("Rejected", 0))], "Ok", <<>>)}

PollJammed(d) ==
  {Reply(Settled(d), "UnsafeJam", <<>>),
   Reply([Settled(d) EXCEPT !.news = <<>>], "Ok",
         Append(d.news, DeviceEvent("UnsafeJam", 0)))}

PollStacks(d) ==
  {Reply([d EXCEPT !.note = 0, !.told = FALSE, !.stacked = d.note,
            !.news = <<DeviceEvent("NoteCredit", d.note)>>], "Ok",
         Append(d.news, DeviceEvent("Stacking", 0)))}

PollReads(d) ==
  {Reply([Settled(d) EXCEPT !.told = TRUE, !.news = <<>>], "Ok",
         Append(d.news, DeviceEvent("Read", d.note)))}

PollIdle(d) == {Reply([Settled(d) EXCEPT !.news = <<>>], "Ok", d.news)}

OnPoll(d) ==
  CASE d.jammed              -> PollJammed(d)
    [] ~d.jammed /\ d.note # 0 /\ d.told  -> PollStacks(d)
    [] ~d.jammed /\ d.note # 0 /\ ~d.told -> PollReads(d)
    [] ~d.jammed /\ d.note = 0            -> PollIdle(d)

(* What the host sees of an exchange: the reply; or an Err with the        *)
(* command executed or lost; or a status that says the device did nothing. *)
Outcomes(d, replies) ==
  replies \cup
  (IF Faults THEN {Reply(r.dev, "Err", <<>>) : r \in replies}
                    \cup {Reply(Settled(d), "Err", <<>>), Reply(Settled(d), "Busy", <<>>)}
             ELSE {})
=============================================================================
