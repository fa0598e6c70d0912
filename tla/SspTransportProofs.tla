-------------------------- MODULE SspTransportProofs --------------------------
(***************************************************************************)
(* While the exchanges of SspTransport are in step, every reply that a     *)
(* call returns is the answer to its own command, whatever the bounds and  *)
(* the faults are.                                                         *)
(***************************************************************************)
EXTENDS SspTransport, TLAPS

(* No reply is on its way.                                                 *)
Quiet == air = <<>> /\ buf = <<>>

(* The one reply that is awaited is on its way, in the buffer, or lost.    *)
Awaited ==
  \/ Quiet
  \/ air = <<n>> /\ buf = <<>>
  \/ air = <<>> /\ buf = <<n>>

(* What holds at each label while the exchanges are in step.               *)
IdleInv ==
  pc = "idle" => Quiet /\ seen # flag /\ (result # 0 => result = n /\ executed = n)

WritingInv ==
  pc = "writing" =>
    /\ Quiet /\ msgFlag = flag
    /\ IF kind \in {"sync", "resync"} THEN flag = 1 ELSE seen # flag

ReadingInv ==
  pc = "reading" =>
    /\ Awaited /\ seen # flag /\ executed = n
    /\ kind \in {"sync", "resync"} => seen = 1

ResyncInv == pc = "resync" => Quiet

Parts ==
  ~failing /\ pc # "waiting" /\ IdleInv /\ WritingInv /\ ReadingInv /\ ResyncInv

IInv == TypeOK /\ (inStep => Parts)

-----------------------------------------------------------------------------
LEMMA NoReplies == <<>> \in Seq(Int)
OBVIOUS

LEMMA InitIInv == ASSUME Init PROVE IInv
<1>1. inStep \in BOOLEAN /\ (inStep => seen # flag)
  <2>1. inStep = (seen # flag)
    BY DEF Init
  <2>2. CASE seen = flag
    BY <2>1, <2>2
  <2>3. CASE seen # flag
    BY <2>1, <2>3
  <2> QED BY <2>2, <2>3
<1>2. seen \in 0..2 /\ lastReply \in Int
  BY DEF Init, Either, Old
<1>3. kind \in AllKinds /\ pc \in Labels /\ executed \in Int /\ ~failing
  BY DEF Init, AllKinds, Labels
<1>4. failing \in BOOLEAN
  BY Zenon DEF Init
<1>5. flag \in 0..1 /\ msgFlag \in 0..1 /\ n \in Nat /\ result \in Int
      /\ air \in Seq(Int) /\ buf \in Seq(Int) /\ pc = "idle"
  BY NoReplies DEF Init
<1>6. TypeOK
  BY <1>1, <1>2, <1>3, <1>4, <1>5 DEF TypeOK
<1>7. inStep => Parts
  BY <1>1 DEF Init, Parts, IdleInv, WritingInv, ReadingInv, ResyncInv, Quiet
<1> QED BY <1>6, <1>7 DEF IInv

(* A fault leaves the exchanges in step only if a reply was lost.          *)
LEMMA FaultStep ==
  ASSUME NEW f, Fault(f), inStep \in BOOLEAN
  PROVE  inStep' \in BOOLEAN /\ (inStep' => inStep /\ f = "reply")
BY DEF Fault

LEMMA CallStep == ASSUME IInv, NEW k \in Kinds, Call(k) PROVE IInv'
<1>1. k \in AllKinds
  BY KindAssumption
<1>2. TypeOK'
  BY <1>1 DEF IInv, TypeOK, Call, Labels, AllKinds, device
<1>3. inStep' => Parts'
  BY <1>1 DEF IInv, Parts, IdleInv, WritingInv, ReadingInv, ResyncInv, Quiet, Call,
              AllKinds, device
<1> QED BY <1>2, <1>3 DEF IInv

LEMMA WriteFailsStep == ASSUME IInv, WriteFails PROVE IInv'
<1>1. inStep' \in BOOLEAN /\ (inStep' => inStep /\ failing)
  BY FaultStep DEF IInv, TypeOK, WriteFails, NoFault
<1>2. TypeOK'
  BY <1>1 DEF IInv, TypeOK, WriteFails, IsReset, Labels, device
<1> QED BY <1>1, <1>2 DEF IInv, Parts

(* In step, the device executes what it receives.                          *)
LEMMA ReceiveStep ==
  ASSUME TypeOK, Receive
  PROVE  /\ executed' \in Int /\ lastReply' \in Int /\ seen' \in 0..2
         /\ air' \in Seq(Int)
         /\ Executes => executed' = n /\ air' = Append(air, n)
         /\ Executes /\ kind \in {"sync", "resync"} => seen' = 1
         /\ kind \notin {"sync", "resync"} => seen' \in {msgFlag, Either}
BY DEF TypeOK, Receive, Answer, Executes, Either

LEMMA WriteStep == ASSUME IInv, Write PROVE IInv'
<1>1. inStep' \in BOOLEAN /\ (inStep' => inStep /\ ~IsReset /\ Receive)
  <2>1. inStep \in BOOLEAN /\ "command" # "reply"
    BY DEF IInv, TypeOK
  <2>2. CASE Receive /\ inStep' = (inStep /\ ~IsReset)
    BY <2>2, Zenon
  <2>3. CASE Fault("command")
    BY <2>1, <2>3, FaultStep
  <2> QED BY <2>2, <2>3 DEF Write
<1>2. TypeOK'
  <2>1. /\ executed' \in Int /\ lastReply' \in Int /\ seen' \in 0..2
        /\ air' \in Seq(Int)
    <3>1. CASE Receive
      BY <3>1, ReceiveStep DEF IInv
    <3>2. CASE UNCHANGED <<air, device>>
      BY <3>2 DEF IInv, TypeOK, device
    <3> QED BY <3>1, <3>2 DEF Write
  <2>2. failing' \in BOOLEAN /\ ~failing'
    BY Zenon DEF Write
  <2>3. pc' \in Labels
    BY DEF IInv, TypeOK, Write, Labels
  <2>4. flag' \in 0..1 /\ n > 0 /\ result = 0
    BY DEF IInv, TypeOK, Write
  <2>5. UNCHANGED <<msgFlag, kind, n, result, buf>>
    BY DEF Write
  <2> QED BY <1>1, <2>1, <2>2, <2>3, <2>4, <2>5 DEF IInv, TypeOK
<1>3. ASSUME inStep' PROVE Parts'
  <2>1. Parts /\ Quiet /\ msgFlag = flag /\ pc = "writing"
    BY <1>1, <1>3 DEF IInv, Parts, WritingInv, Write
  <2>2. Executes
    BY <1>1, <1>3, <2>1 DEF Parts, WritingInv, Executes
  <2>3. pc' = "reading" /\ flag' = 1 - flag /\ ~failing' /\ UNCHANGED <<n, result, buf>>
    BY <1>1, <1>3, <2>1 DEF Write, IsReset
  <2>4. executed' = n /\ air' = <<n>> /\ buf' = <<>>
    BY <1>1, <1>3, <2>1, <2>2, <2>3, ReceiveStep DEF IInv, Quiet
  <2>5. seen' # flag'
    BY <1>1, <1>3, <2>1, <2>2, <2>3, ReceiveStep
       DEF IInv, TypeOK, Parts, WritingInv, Either
  <2>6. kind' \in {"sync", "resync"} => seen' = 1
    BY <1>1, <1>3, <2>2, <2>3, ReceiveStep DEF IInv, Write
  <2> QED BY <2>1, <2>3, <2>4, <2>5, <2>6
          DEF Parts, IdleInv, WritingInv, ReadingInv, ResyncInv, Awaited
<1> QED BY <1>2, <1>3 DEF IInv

(* The replies on the air and in the buffer move, nothing else does.       *)
LEMMA ArriveStep == ASSUME IInv, Arrive \/ LoseReply PROVE IInv'
<1>1. inStep' \in BOOLEAN /\ (inStep' => inStep)
  BY FaultStep DEF IInv, TypeOK, Arrive, LoseReply
<1>2. air' \in Seq(Int) /\ buf' \in Seq(Int)
  <2>1. air # <<>> /\ air' = Tail(air) /\ buf' \in {buf, Append(buf, Head(air))}
    BY DEF Arrive, LoseReply
  <2>2. air \in Seq(Int) /\ buf \in Seq(Int)
    BY DEF IInv, TypeOK
  <2>3. Head(air) \in Int /\ Tail(air) \in Seq(Int)
    BY <2>1, <2>2
  <2>4. CASE buf' = buf
    BY <2>1, <2>2, <2>3, <2>4
  <2>5. CASE buf' = Append(buf, Head(air))
    BY <2>1, <2>2, <2>3, <2>5
  <2> QED BY <2>1, <2>4, <2>5
<1>3. UNCHANGED <<flag, msgFlag, pc, kind, n, result, device, failing>>
  BY DEF Arrive, LoseReply
<1>4. TypeOK'
  BY <1>1, <1>2, <1>3 DEF IInv, TypeOK, device
<1>5. ASSUME inStep' PROVE Parts'
  <2>1. Parts /\ ~Quiet
    BY <1>1, <1>5 DEF IInv, Arrive, LoseReply, Quiet
  <2>2. pc = "reading" /\ air = <<n>> /\ buf = <<>>
    BY <2>1 DEF Parts, IdleInv, WritingInv, ReadingInv, ResyncInv, Awaited, Quiet,
                IInv, TypeOK, Labels, Arrive, LoseReply
  <2>3. Awaited'
    BY <1>3, <2>2 DEF Arrive, LoseReply, Awaited, Quiet
  <2> QED BY <1>3, <2>1, <2>2, <2>3
          DEF Parts, IdleInv, WritingInv, ReadingInv, ResyncInv, device
<1> QED BY <1>4, <1>5 DEF IInv

LEMMA ReadTimesOutStep == ASSUME IInv, ReadTimesOut PROVE IInv'
<1>1. inStep' \in BOOLEAN /\ (inStep' => inStep /\ air = <<>>)
  BY FaultStep DEF IInv, TypeOK, ReadTimesOut, NoFault
<1>2. TypeOK'
  BY <1>1 DEF IInv, TypeOK, ReadTimesOut, AfterErr, Labels, device
<1>3. inStep' => Parts'
  BY <1>1 DEF IInv, TypeOK, Parts, IdleInv, WritingInv, ReadingInv, ResyncInv, Quiet,
              ReadTimesOut, AfterErr, device
<1> QED BY <1>2, <1>3 DEF IInv

LEMMA ReadFailsStep == ASSUME IInv, ReadFails PROVE IInv'
<1>1. inStep' \in BOOLEAN /\ (inStep' => inStep /\ Head(buf) = Junk)
  BY FaultStep DEF IInv, TypeOK, ReadFails, NoFault
<1>2. Tail(buf) \in Seq(Int) /\ <<Junk>> \in Seq(Int) /\ buf \in Seq(Int)
  BY DEF IInv, TypeOK, ReadFails, Junk
<1>3. buf' \in {buf, Tail(buf), <<Junk>> \o Tail(buf)}
  BY DEF ReadFails
<1>4. <<Junk>> \o Tail(buf) \in Seq(Int)
  BY <1>2
<1>5. buf' \in Seq(Int)
  BY <1>2, <1>3, <1>4
<1>6. TypeOK'
  <2>1. pc' \in Labels /\ (pc' # "idle" => pc # "idle") /\ pc' # "waiting"
    BY DEF ReadFails, AfterErr, Labels
  <2>2. UNCHANGED <<flag, msgFlag, kind, n, result, air, device, failing>>
    BY DEF ReadFails
  <2> QED BY <1>1, <1>5, <2>1, <2>2 DEF IInv, TypeOK, device
<1>7. ~inStep'
  BY <1>1 DEF IInv, TypeOK, Parts, ReadingInv, Awaited, Quiet, ReadFails, Junk
<1> QED BY <1>6, <1>7 DEF IInv

LEMMA ReadStep == ASSUME IInv, Read PROVE IInv'
<1>1. Head(buf) \in Int /\ Tail(buf) \in Seq(Int)
  BY DEF IInv, TypeOK, Read
<1>2. TypeOK'
  BY <1>1 DEF IInv, TypeOK, Read, Labels, device
<1>3. ASSUME inStep' PROVE Parts'
  <2>1. Parts /\ pc = "reading"
    BY <1>3 DEF Read, IInv
  <2>2. buf = <<n>> /\ air = <<>>
    BY <2>1 DEF Parts, ReadingInv, Awaited, Quiet, Read
  <2> QED BY <2>1, <2>2
          DEF Parts, IdleInv, WritingInv, ReadingInv, ResyncInv, Quiet, Read, device,
              IInv, TypeOK
<1> QED BY <1>2, <1>3 DEF IInv

(* full_reset empties the buffers, and begins anew.                        *)
LEMMA ResyncSteps == ASSUME IInv, Clear \/ Resync \/ GiveUp PROVE IInv'
<1>1. inStep' \in BOOLEAN
  BY DEF IInv, TypeOK, Clear, Resync, GiveUp
<1>2. CASE Clear
  <2>1. TypeOK'
    BY <1>1, <1>2, NoReplies DEF IInv, TypeOK, Clear, Labels, device
  <2>2. Parts'
    BY <1>2 DEF IInv, TypeOK, Parts, IdleInv, WritingInv, ReadingInv, ResyncInv,
                Quiet, Clear
  <2> QED BY <2>1, <2>2 DEF IInv
<1>3. CASE Resync
  <2>1. TypeOK'
    BY <1>1, <1>3 DEF IInv, TypeOK, Resync, Labels, device
  <2>2. inStep' => Parts'
    BY <1>3 DEF IInv, Parts, IdleInv, WritingInv, ReadingInv, ResyncInv, Quiet,
                Resync, device
  <2> QED BY <2>1, <2>2 DEF IInv
<1>4. CASE GiveUp
  <2>1. TypeOK' /\ ~inStep'
    BY <1>4 DEF IInv, TypeOK, GiveUp, Labels, device
  <2> QED BY <2>1 DEF IInv
<1> QED BY <1>2, <1>3, <1>4

LEMMA NextIInv == ASSUME IInv, [Next]_vars PROVE IInv'
<1>1. CASE UNCHANGED vars
  BY <1>1 DEF IInv, TypeOK, Parts, IdleInv, WritingInv, ReadingInv, ResyncInv,
              Awaited, Quiet, vars
<1>2. CASE Next
  BY <1>2, CallStep, WriteFailsStep, WriteStep, ArriveStep, ReadTimesOutStep,
     ReadFailsStep, ReadStep, ResyncSteps DEF Next, HostStep
<1> QED BY <1>1, <1>2

THEOREM Inductive == Spec => []IInv
<1>1. Init => IInv
  BY InitIInv
<1>2. IInv /\ [Next]_vars => IInv'
  BY NextIInv
<1> QED BY <1>1, <1>2, PTL DEF Spec

(* While the exchanges are in step, the reply that a call returns is the   *)
(* device's answer to its own command, which the device has executed       *)
(* (device_handle.rs:1839-1905).                                           *)
THEOREM Answers == Spec => []AnswerMeansDone
<1>1. IInv => AnswerMeansDone
  BY DEF IInv, TypeOK, Parts, IdleInv, AnswerMeansDone
<1> QED BY <1>1, Inductive, PTL

(* While they are in step, the device takes the next command for a new one *)
(* (device_handle.rs:1244-1258, 1868-1872).                                *)
THEOREM Alternation == Spec => []NextIsNew
<1>1. IInv => NextIsNew
  BY DEF IInv, Parts, IdleInv, Quiet, NextIsNew
<1> QED BY <1>1, Inductive, PTL
=============================================================================
