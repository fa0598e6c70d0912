--------------------------- MODULE MCPollResponses ---------------------------
(* Small alphabets of events for TLC: one of every group of arms.          *)
EXTENDS PollResponses

(* Every event is complete, as a device that follows the protocol sends it. *)
WholeEvents ==
  {Plain(k) : k \in {"DeviceReset", "Stacking", "CashboxRemoved", "StackerFull",
                     "CashboxReplaced", "Disabled", "Unsupported", "UnsafeJam",
                     "Read"}}
    \cup {Note("Read", v) : v \in Values} \cup {Note("NoteCredit", v) : v \in Values}

(* The response can also end inside an event that has a payload.           *)
CutEvents ==
  WholeEvents \cup {[Note("Read", 1) EXCEPT !.whole = FALSE],
                    [Note("NoteCredit", 1) EXCEPT !.whole = FALSE]}
=============================================================================
