---------------------------- MODULE EscrowContract ----------------------------
(***************************************************************************)
(* What an application is promised about the notes that people put in      *)
(* (src/device_handle.rs 506-514, 1098-1112, 1213-1235): a note is         *)
(* announced, stays in the escrow until the application has decided, and   *)
(* a decision takes the note it was made about, or fails.                  *)
(* InteractivePolling keeps the promise as long as messages are not lost   *)
(* and nobody resets the device.                                           *)
(***************************************************************************)
EXTENDS Naturals

CONSTANTS Values, Clients

VARIABLES
  note, told,       \* the note in escrow (0: none); the device has reported it
  decision          \* per client: "none", "asked", "done"

vars == <<note, told, decision>>

(* A note goes in.                                                         *)
Insert(v) == note = 0 /\ note' = v /\ UNCHANGED <<told, decision>>

(* The device reports it.                                                  *)
Tell == note # 0 /\ ~told /\ told' = TRUE /\ UNCHANGED <<note, decision>>

(* A client calls stack or reject, about a note it was told of.            *)
Ask(c) ==
  /\ told /\ decision[c] = "none"
  /\ decision' = [decision EXCEPT ![c] = "asked"]
  /\ UNCHANGED <<note, told>>

(* The note leaves: nothing else takes it out.                             *)
Take(c) ==
  /\ told /\ decision[c] = "asked"
  /\ note' = 0 /\ told' = FALSE
  /\ decision' = [decision EXCEPT ![c] = "done"]

(* The call ends with an Err: the note is still there.                     *)
Fail(c) ==
  /\ decision[c] = "asked"
  /\ decision' = [decision EXCEPT ![c] = "none"]
  /\ UNCHANGED <<note, told>>

(* stack and reject return when they have done it.                         *)
Return(c) ==
  /\ decision[c] = "done"
  /\ decision' = [decision EXCEPT ![c] = "none"]
  /\ UNCHANGED <<note, told>>

Init == note = 0 /\ told = FALSE /\ decision = [c \in Clients |-> "none"]

Next ==
  \/ \E v \in Values : Insert(v)
  \/ Tell
  \/ \E c \in Clients : Ask(c) \/ Take(c) \/ Fail(c) \/ Return(c)

Spec == Init /\ [][Next]_vars

(* A note is announced; a decision is carried out or fails, and returns.   *)
Fairness ==
  /\ WF_vars(Tell)
  /\ \A c \in Clients : WF_vars(Take(c) \/ Fail(c)) /\ WF_vars(Return(c))
=============================================================================
