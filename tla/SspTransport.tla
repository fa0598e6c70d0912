----------------------------- MODULE SspTransport -----------------------------
(***************************************************************************)
(* One command after the other over the serial line                        *)
(* (src/device_handle.rs 1839-1913, and sync_inner 1244-1258, reset        *)
(* 1148-1164, the exchanges of full_reset 864-882): the sequence flag that *)
(* tells the device a new command from a repeated one, the repeated write, *)
(* and the reply, which is whatever comes next out of the input buffer.    *)
(* The mutex around the port admits one caller at a time (see              *)
(* InteractivePolling), so there is one call here.                         *)
(*                                                                         *)
(* Commands are numbered in the order of the calls; a reply is the number  *)
(* of the command it answers.  The device is external: it answers a        *)
(* command whose flag is that of the one before by its last reply, without *)
(* executing it; SYNC is always executed, and makes 0 the next flag; after *)
(* a restart it takes either flag.                                         *)
(***************************************************************************)
EXTENDS Integers, Sequences

CONSTANTS
  Kinds,            \* the calls: "command", "sync", "reset", "restart", "fullReset"
  MaxCommands,      \* bound: commands written
  FaultKinds,       \* what may go wrong: see AllFaults
  MaxFaults         \* bound: faults (a write that has failed may go on failing)

(* "restart" is the ResetCommand of the jam recovery, a call that reads    *)
(* its reply; "resync" the sync that full_reset repeats.                   *)
AllKinds == {"command", "sync", "reset", "restart", "fullReset"}

(* A write that fails, a command that is lost, a reply that is lost, late  *)
(* or cut off.                                                             *)
AllFaults == {"write", "command", "reply", "late", "cut"}

ASSUME KindAssumption == Kinds \subseteq AllKinds /\ FaultKinds \subseteq AllFaults
ASSUME BoundAssumption == MaxCommands \in Nat /\ MaxFaults \in Nat

Junk == 0           \* in the input buffer: the rest of a reply
Old == -1           \* the device's last reply to an earlier program
Either == 2         \* the device has restarted, it has seen no flag yet

VARIABLES
  flag,             \* SEQ_FLAG: the flag of the next message
  msgFlag,          \* the flag of the message being written
  pc, kind,         \* where the call is, and which it is
  n,                \* number of the command
  result,           \* the reply the call has returned, 0 for none or an Err
  air, buf,         \* replies that are on their way, that wait to be read
  seen,             \* the flag the device saw last, or Either
  lastReply,        \* the reply it repeats
  executed,         \* the command it executed last
  failing,          \* the write has failed
  faults,           \* counter for the bound
  inStep            \* the flags agreed, or a full_reset made them agree,
                    \* and nothing but replies was lost since

device == <<seen, lastReply, executed>>
vars == <<flag, msgFlag, pc, kind, n, result, air, buf, seen, lastReply,
          executed, failing, faults, inStep>>

Labels == {"idle", "writing", "reading", "waiting", "resync"}
IsReset == kind \in {"reset", "fullReset"}

Fault(f) ==
  /\ f \in FaultKinds /\ faults < MaxFaults
  /\ faults' = faults + 1
  /\ inStep' = (inStep /\ f = "reply")

NoFault == UNCHANGED <<faults, inStep>>

-----------------------------------------------------------------------------
(* The device                                                              *)

Restarts == kind \in {"reset", "fullReset", "restart"}

(* It executes a message with another flag than the last, and SYNC.        *)
Executes == kind \in {"sync", "resync"} \/ seen # msgFlag

Answer == IF Executes THEN n ELSE lastReply

Receive ==
  /\ executed' = IF Executes THEN n ELSE executed
  /\ lastReply' = Answer
  /\ seen' = IF kind \in {"sync", "resync"} THEN 1
             ELSE IF Restarts /\ Executes THEN Either ELSE msgFlag
  /\ air' = Append(air, Answer)

-----------------------------------------------------------------------------
(* The call                                                                *)

(* set_message_sequence_flag; sync sets the global flag to 1 before.       *)
Call(k) ==
  /\ pc = "idle" /\ n < MaxCommands
  /\ n' = n + 1 /\ kind' = k /\ result' = 0
  /\ flag' = IF k = "sync" THEN 1 ELSE flag
  /\ msgFlag' = flag'
  /\ pc' = "writing"
  /\ UNCHANGED <<air, buf, device, failing, faults, inStep>>

(* The loop around write_all: after 500 ms again, with the other flag.     *)
(* The reset() of the handle is written once, and an Err returned.         *)
WriteFails ==
  /\ pc = "writing"
  /\ Fault("write") \/ (failing /\ NoFault)
  /\ failing' = ~IsReset
  /\ IF IsReset THEN pc' = "idle" /\ UNCHANGED msgFlag
     ELSE msgFlag' = 1 - msgFlag /\ UNCHANGED pc
  /\ UNCHANGED <<flag, kind, n, result, air, buf, device>>

(* Mutant: the global flag is not toggled.                                 *)
WriteKeepsFlag ==
  /\ pc = "writing"
  /\ \/ Receive /\ UNCHANGED faults /\ inStep' = (inStep /\ ~IsReset)
     \/ Fault("command") /\ UNCHANGED <<air, device>>
  /\ pc' = CASE kind = "reset"     -> "idle"
             [] kind = "fullReset" -> "waiting"
             [] OTHER              -> "reading"
  /\ failing' = FALSE
  /\ UNCHANGED <<flag, msgFlag, kind, n, result, buf>>

(* The message is out: the flag is toggled for the next one, but not by    *)
(* reset(), which does not wait for a reply either.  A reset() leaves its  *)
(* reply behind, so that the exchanges are not in step after it.           *)
Write ==
  /\ pc = "writing"
  /\ \/ Receive /\ UNCHANGED faults /\ inStep' = (inStep /\ ~IsReset)
     \/ Fault("command") /\ UNCHANGED <<air, device>>
  /\ flag' = IF IsReset THEN flag ELSE 1 - msgFlag
  /\ pc' = CASE kind = "reset"     -> "idle"
             [] kind = "fullReset" -> "waiting"
             [] OTHER              -> "reading"
  /\ failing' = FALSE
  /\ UNCHANGED <<msgFlag, kind, n, result, buf>>

(* The replies come in the order in which the device sent them, late or    *)
(* never.                                                                  *)
Arrive ==
  /\ air # <<>>
  /\ air' = Tail(air)
  /\ buf' = Append(buf, Head(air))
  /\ UNCHANGED <<flag, msgFlag, pc, kind, n, result, device, failing, faults, inStep>>

LoseReply ==
  /\ air # <<>> /\ Fault("reply")
  /\ air' = Tail(air)
  /\ UNCHANGED <<flag, msgFlag, pc, kind, n, result, buf, device, failing>>

(* After an Err full_reset goes round its loop over sync_inner.            *)
AfterErr == IF kind = "resync" THEN "resync" ELSE "idle"

(* Mutant: after a timeout the call goes on reading.                       *)
ReadTimesOutAgain ==
  /\ pc = "reading" /\ buf = <<>>
  /\ IF air = <<>> THEN NoFault ELSE Fault("late")
  /\ UNCHANGED <<flag, msgFlag, pc, kind, n, result, air, buf, device, failing>>

(* 10 s without a reply; one that is on its way is late then, a fault.     *)
ReadTimesOut ==
  /\ pc = "reading" /\ buf = <<>>
  /\ IF air = <<>> THEN NoFault ELSE Fault("late")
  /\ pc' = AfterErr
  /\ UNCHANGED <<flag, msgFlag, kind, n, result, air, buf, device, failing>>

(* InvalidSTX, a reply cut off, a length too long: the rest stays behind.  *)
ReadFails ==
  /\ pc = "reading" /\ buf # <<>>
  /\ \/ Head(buf) = Junk /\ buf' \in {buf, Tail(buf)} /\ NoFault
     \/ Head(buf) # Junk /\ Fault("cut") /\ buf' \in {<<Junk>> \o Tail(buf), Tail(buf)}
  /\ pc' = AfterErr
  /\ UNCHANGED <<flag, msgFlag, kind, n, result, air, device, failing>>

(* The next reply in the buffer is the reply: neither its sequence flag    *)
(* nor its command is compared.  sync sets the flag to 0.                  *)
Read ==
  /\ pc = "reading" /\ buf # <<>> /\ Head(buf) # Junk
  /\ result' = Head(buf) /\ buf' = Tail(buf)
  /\ flag' = IF kind \in {"sync", "resync"} THEN 0 ELSE flag
  /\ pc' = "idle"
  /\ UNCHANGED <<msgFlag, kind, n, air, device, failing, faults, inStep>>

(* Mutant: the port is not cleared.                                        *)
ClearNothing ==
  /\ pc = "waiting"
  /\ pc' = "resync" /\ inStep' = TRUE
  /\ UNCHANGED <<flag, msgFlag, kind, n, result, air, buf, device, failing, faults>>

(* full_reset, 20 s after its reset(): what was on its way has arrived, a  *)
(* device that was on has restarted, the buffers are emptied.              *)
Clear ==
  /\ pc = "waiting"
  /\ air' = <<>> /\ buf' = <<>>
  /\ pc' = "resync" /\ inStep' = TRUE
  /\ UNCHANGED <<flag, msgFlag, kind, n, result, device, failing, faults>>

(* ... and sync_inner, repeated for the rest of 60 s, then an Err.         *)
Resync ==
  /\ pc = "resync" /\ n < MaxCommands
  /\ n' = n + 1 /\ kind' = "resync" /\ result' = 0
  /\ flag' = 1 /\ msgFlag' = 1
  /\ pc' = "writing"
  /\ UNCHANGED <<air, buf, device, failing, faults, inStep>>

GiveUp ==
  /\ pc = "resync"
  /\ pc' = "idle" /\ inStep' = FALSE
  /\ UNCHANGED <<flag, msgFlag, kind, n, result, air, buf, device, failing, faults>>

-----------------------------------------------------------------------------
Init ==
  /\ flag = 0 /\ msgFlag = 0
  /\ pc = "idle" /\ kind = "command"
  /\ n = 0 /\ result = 0
  /\ air = <<>> /\ buf = <<>>
  /\ seen \in {0, 1, Either} /\ lastReply = Old /\ executed = 0
  /\ failing = FALSE /\ faults = 0 /\ inStep = (seen # flag)

HostStep ==
  \/ WriteFails \/ Write \/ ReadTimesOut \/ ReadFails \/ Read
  \/ Clear \/ Resync \/ GiveUp

Next == HostStep \/ Arrive \/ LoseReply \/ \E k \in Kinds : Call(k)

Spec == Init /\ [][Next]_vars

(* The scheduler runs the caller, and a reply that is not lost arrives.    *)
(* Nothing makes a write succeed that is tried again and again.            *)
Fairness == WF_vars(HostStep) /\ WF_vars(Arrive)
FairSpec == Spec /\ Fairness

-----------------------------------------------------------------------------
(* Properties                                                              *)

(* Every variable has its type; a call under way has no result yet.        *)
TypeOK ==
  /\ flag \in 0..1 /\ msgFlag \in 0..1
  /\ pc \in Labels /\ kind \in AllKinds \cup {"resync"}
  /\ n \in Nat /\ result \in Int
  /\ pc # "idle" => n > 0 /\ result = 0
  /\ pc = "waiting" => ~failing
  /\ air \in Seq(Int) /\ buf \in Seq(Int)
  /\ seen \in 0..2 /\ lastReply \in Int /\ executed \in Int
  /\ inStep \in BOOLEAN /\ failing \in BOOLEAN

(* While the exchanges are in step, the reply that a call returns is the   *)
(* device's answer to its command, and the device has executed it.  That   *)
(* includes every call after a full_reset, whatever happened before it     *)
(* (device_handle.rs:874-882, 1839-1905).                                  *)
AnswerMeansDone == inStep /\ result # 0 => result = n /\ executed = n

(* While they are in step, the device will take the next command for a new *)
(* one (device_handle.rs:1244-1258, 1868-1872).                            *)
NextIsNew == inStep /\ pc = "idle" => seen # flag /\ buf = <<>>

(* A call returns, whatever is lost, late or cut off, unless its write     *)
(* fails for ever: the loop around it has no limit                         *)
(* (device_handle.rs:1856-1913).                                           *)
CallsReturn == (pc # "idle" ~> pc = "idle") \/ <>[]failing

(* reset(): "No response is returned. The caller should wait a reasonable  *)
(* amount of time for the device to come back online before sending        *)
(* additional messages." (device_handle.rs:1144-1147): a message sent then *)
(* gets its own reply.                                                     *)
RepliesMatch == faults = 0 /\ result \notin {0, Old} => result = n

(* "Set the global sequence flag to the opposite value for the next        *)
(* message" (device_handle.rs:1871): once the device has executed a        *)
(* command, the flag of the next is the opposite of the one it saw.        *)
FlagsAlternate ==
  [][pc = "writing" /\ pc' = "reading" /\ kind = "command" /\ executed # 0
       => msgFlag # seen]_vars
=============================================================================
