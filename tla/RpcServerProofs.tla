--------------------------- MODULE RpcServerProofs ---------------------------
(***************************************************************************)
(* Proofs about RpcServer, for any clients, requests, bounds and failures: *)
(* the handle belongs to the thread whose round it is, no client misses an *)
(* event, every answer is the client's own, and no connection is closed    *)
(* without a reason.                                                       *)
(***************************************************************************)
EXTENDS RpcServer, SequenceTheorems, TLAPS

USE DEF requests, answers, events, streams

-----------------------------------------------------------------------------
(* Types                                                                   *)

LEMMA CloseTyped ==
  ASSUME TypeOK, NEW c \in Clients, Close(c)
  PROVE  /\ pc' \in [Clients -> Labels] /\ handle' \in Clients \cup {Nobody}
         /\ conn' \in [Clients -> {"out", "waiting", "open", "closed"}]
         /\ rx' \in [Clients -> Seq(Nat)]
         /\ UNCHANGED <<hung, asked, got>>
<1>1. <<>> \in Seq(Nat)
  OBVIOUS
<1> QED BY <1>1 DEF TypeOK, Close, Go, Labels

LEMMA SteeredTyped ==
  ASSUME TypeOK, NEW c \in Clients, OnDisable(c) \/ OnEnable(c)
  PROVE  /\ pc' \in [Clients -> Labels] /\ handle' \in Clients \cup {Nobody}
         /\ conn' \in [Clients -> {"out", "waiting", "open", "closed"}]
         /\ rx' \in [Clients -> Seq(Nat)] /\ stopServing' \in BOOLEAN
         /\ UNCHANGED <<hung, asked, got>>
<1>1. CASE OnEnable(c)
  <2>1. stopServing' \in BOOLEAN
    BY <1>1, Zenon DEF OnEnable
  <2> QED BY <1>1, <2>1 DEF TypeOK, OnEnable, Go, Labels
<1>2. CASE OnDisable(c) /\ stopServing
  <2>1. stopServing' \in BOOLEAN
    BY <1>2, Zenon DEF OnDisable
  <2> QED BY <1>2, <2>1, CloseTyped DEF OnDisable
<1>3. CASE OnDisable(c) /\ ~stopServing
  <2>1. stopServing' \in BOOLEAN
    BY <1>3, Zenon DEF OnDisable
  <2> QED BY <1>3, <2>1 DEF OnDisable, TypeOK, Go, Labels
<1> QED BY <1>1, <1>2, <1>3

(* What a read with the end of a line does to the requests read.           *)
LEMMA ReadTyped ==
  ASSUME TypeOK, NEW c \in Clients, NEW n \in 0..MaxRequests, NEW part \in BOOLEAN,
         Read(c, n, part)
  PROVE  /\ taken' \in [Clients -> Nat] /\ rest' \in [Clients -> BOOLEAN]
         /\ cut' \in [Clients -> SUBSET Nat]
         /\ pc[c] \in {"receive", "more"} /\ taken' = [taken EXCEPT ![c] = n]
         /\ n \in Nat /\ taken[c] <= n /\ n <= Len(asked[c])
<1>1. n \in Nat /\ taken' = [taken EXCEPT ![c] = n] /\ taken[c] <= n /\ n <= Len(asked[c])
  BY DEF Read, TypeOK
<1>2. rest' \in [Clients -> BOOLEAN]
  BY Zenon DEF Read, TypeOK
<1>3. cut' \in [Clients -> SUBSET Nat]
  <2>1. PICK numbers \in SUBSET Nat : cut' = [cut EXCEPT ![c] = numbers]
    <3>1. cut[c] \in SUBSET Nat /\ cut[c] \cup {n} \in SUBSET Nat
      BY <1>1 DEF TypeOK
    <3> QED BY <3>1 DEF Read
  <2> QED BY <2>1 DEF TypeOK
<1>4. taken' \in [Clients -> Nat]
  BY <1>1 DEF TypeOK
<1>5. pc[c] \in {"receive", "more"}
  BY DEF Read
<1> QED BY <1>1, <1>2, <1>3, <1>4, <1>5

(* A read without it reads the beginning of at most one more.              *)
LEMMA PartTyped ==
  ASSUME TypeOK, NEW c \in Clients, ReceivePart(c)
  PROVE  /\ rest' \in [Clients -> BOOLEAN] /\ cut' \in [Clients -> SUBSET Nat]
         /\ \E n \in Nat : taken[c] <= n /\ taken' = [taken EXCEPT ![c] = n]
<1>1. taken \in [Clients -> Nat] /\ cut \in [Clients -> SUBSET Nat]
  BY DEF TypeOK
<1>2. CASE UNCHANGED <<taken, rest, cut>>
  <2>1. taken[c] \in Nat /\ taken' = [taken EXCEPT ![c] = taken[c]]
    BY <1>1, <1>2
  <2> QED BY <1>2, <2>1 DEF TypeOK
<1>3. CASE /\ taken' = [taken EXCEPT ![c] = @ + 1] /\ rest' = [rest EXCEPT ![c] = TRUE]
           /\ cut' = [cut EXCEPT ![c] = @ \cup {taken[c] + 1}]
  <2>1. taken[c] + 1 \in Nat /\ taken[c] <= taken[c] + 1
    BY <1>1
  <2>2. rest' \in [Clients -> BOOLEAN]
    <3>1. TRUE \in BOOLEAN
      BY Zenon
    <3> QED BY <1>3, <3>1, Zenon DEF TypeOK
  <2>3. cut[c] \cup {taken[c] + 1} \in SUBSET Nat
    BY <1>1, <2>1
  <2>4. cut' \in [Clients -> SUBSET Nat]
    BY <1>1, <1>3, <2>3
  <2> QED BY <1>3, <2>1, <2>2, <2>4
<1> QED BY <1>2, <1>3 DEF ReceivePart

LEMMA AcceptTyped == ASSUME TypeOK, AcceptStep PROVE TypeOK'
<1>1. CASE AcceptEnds
  BY <1>1 DEF TypeOK, AcceptEnds, AccLabels
<1>2. ASSUME NEW c \in Clients, Accept(c) PROVE TypeOK'
  BY <1>2 DEF TypeOK, Accept, AccLabels, Go, Labels
<1>3. CASE AcceptNobody
  BY <1>3 DEF TypeOK, AcceptNobody, AccLabels
<1>4. CASE PopEvent
  BY <1>4 DEF TypeOK, PopEvent, AccLabels
<1>5. CASE Broadcast
  <2>1. cast' \in Nat
    BY <1>5 DEF TypeOK, Broadcast
  <2>2. ASSUME NEW c \in Clients
        PROVE  (IF Serving(c) THEN Append(rx[c], cast + 1) ELSE rx[c]) \in Seq(Nat)
    <3>1. rx[c] \in Seq(Nat) /\ cast + 1 \in Nat
      BY DEF TypeOK
    <3>2. Append(rx[c], cast + 1) \in Seq(Nat)
      BY <3>1
    <3> QED BY <3>1, <3>2
  <2>3. rx' \in [Clients -> Seq(Nat)]
    BY <1>5, <2>2 DEF Broadcast
  <2> QED BY <1>5, <2>1, <2>3 DEF TypeOK, Broadcast, AccLabels
<1> QED BY <1>1, <1>2, <1>3, <1>4, <1>5 DEF AcceptStep

LEMMA ThreadTyped ==
  ASSUME TypeOK, NEW c \in Clients, ClientThread(c) PROVE TypeOK'
<1>1. CASE Top(c)
  <2>1. <<>> \in Seq(Nat)
    OBVIOUS
  <2>2. pc' \in [Clients -> Labels]
    <3>1. \E label \in {"lock", "ended"} : pc' = [pc EXCEPT ![c] = label]
      BY <1>1, Zenon DEF Top, Go
    <3>2. pc \in [Clients -> Labels] /\ {"lock", "ended"} \subseteq Labels
      BY DEF TypeOK, Labels
    <3> QED BY <3>1, <3>2
  <2>3. conn' \in [Clients -> {"out", "waiting", "open", "closed"}]
    BY <1>1 DEF TypeOK, Top
  <2>4. rx' \in [Clients -> Seq(Nat)]
    BY <1>1, <2>1 DEF TypeOK, Top
  <2> QED BY <1>1, <2>2, <2>3, <2>4 DEF TypeOK, Top
<1>2. CASE Lock(c) \/ LockTimesOut(c)
  BY <1>2 DEF TypeOK, Lock, LockTimesOut, Go, Labels
<1>3. CASE ReceiveHangUp(c)
  BY <1>3, CloseTyped DEF TypeOK, ReceiveHangUp
<1>4. CASE ReceiveNothing(c)
  BY <1>4, SteeredTyped DEF TypeOK, ReceiveNothing
<1>5. CASE ReceiveReady(c) \/ ReceiveGarbage(c)
  <2>1. PICK n \in 0..MaxRequests, part \in BOOLEAN : Read(c, n, part)
    BY <1>5 DEF ReceiveReady, ReceiveGarbage
  <2>2. /\ taken' \in [Clients -> Nat] /\ rest' \in [Clients -> BOOLEAN]
        /\ cut' \in [Clients -> SUBSET Nat]
    BY <2>1, ReadTyped
  <2> QED BY <1>5, <2>2, SteeredTyped DEF TypeOK, ReceiveReady, ReceiveGarbage
<1>12. CASE ReceivePart(c)
  <2>1. taken' \in [Clients -> Nat]
    BY <1>12, PartTyped DEF TypeOK
  <2> QED BY <1>12, <2>1, PartTyped DEF TypeOK, ReceivePart, Go, Labels
<1>13. CASE ReceiveNoMore(c)
  BY <1>13, SteeredTyped DEF TypeOK, ReceiveNoMore
<1>14. CASE ReceiveTooMuch(c)
  BY <1>14, CloseTyped DEF TypeOK, ReceiveTooMuch
<1>6. CASE ReceiveRequest(c)
  <2>1. PICK n \in 1..MaxRequests, i \in 1..MaxRequests, part \in BOOLEAN :
          /\ Read(c, n, part)
          /\ answering' = [answering EXCEPT ![c] = i] /\ jsonrpcId' = <<c, i>>
    BY <1>6 DEF ReceiveRequest, First
  <2>2. /\ taken' \in [Clients -> Nat] /\ rest' \in [Clients -> BOOLEAN]
        /\ cut' \in [Clients -> SUBSET Nat] /\ answering' \in [Clients -> Nat]
    <3>1. n \in 0..MaxRequests /\ i \in Nat
      OBVIOUS
    <3>2. answering \in [Clients -> Nat]
      BY DEF TypeOK
    <3> QED BY <2>1, <3>1, <3>2, ReadTyped
  <2>3. jsonrpcId' \in Ids
    BY <2>1 DEF Ids
  <2> QED BY <1>6, <2>2, <2>3 DEF TypeOK, ReceiveRequest, Go, Labels
<1>7. CASE HandleFails(c)
  BY <1>7, CloseTyped DEF TypeOK, HandleFails
<1>8. CASE Handle(c)
  <2>1. replies' \in [Clients -> Seq(Ids)]
    <3>1. Append(replies[c], jsonrpcId) \in Seq(Ids)
      BY DEF TypeOK
    <3> QED BY <1>8, <3>1 DEF TypeOK, Handle
  <2>2. CASE OnDisable(c) \/ OnEnable(c)
    BY <1>8, <2>1, <2>2, SteeredTyped DEF TypeOK, Handle
  <2>3. CASE OnOperation(c)
    BY <1>8, <2>1, <2>3 DEF TypeOK, Handle, OnOperation, Go, Labels
  <2> QED BY <1>8, <2>2, <2>3 DEF Handle
<1>9. CASE SendEvent(c)
  <2>1. rx[c] \in Seq(Nat) /\ rx[c] # <<>> /\ got[c] \in Seq(Nat)
    BY <1>9 DEF TypeOK, SendEvent
  <2>2. Head(rx[c]) \in Nat /\ Tail(rx[c]) \in Seq(Nat)
    BY <2>1
  <2>3. Append(got[c], Head(rx[c])) \in Seq(Nat)
    BY <2>1, <2>2
  <2>4. rx' \in [Clients -> Seq(Nat)] /\ got' \in [Clients -> Seq(Nat)]
    BY <1>9, <2>2, <2>3 DEF TypeOK, SendEvent
  <2> QED BY <1>9, <2>4 DEF TypeOK, SendEvent
<1>10. CASE SendFails(c)
  BY <1>10, CloseTyped DEF TypeOK, SendFails
<1>11. CASE RoundEnds(c)
  BY <1>11 DEF TypeOK, RoundEnds, Go, Labels
<1> QED BY <1>1, <1>2, <1>3, <1>4, <1>5, <1>6, <1>7, <1>8, <1>9, <1>10, <1>11,
           <1>12, <1>13, <1>14
        DEF ClientThread

LEMMA WorldTyped ==
  ASSUME TypeOK,
         Emit \/ Stop
         \/ (\E c \in Clients : Connect(c) \/ HangUp(c))
         \/ (\E c \in Clients, kind \in Kinds : Ask(c, kind))
  PROVE  TypeOK'
<1>1. CASE Emit
  BY <1>1 DEF TypeOK, Emit
<1>2. CASE Stop
  <2>1. stop' \in BOOLEAN
    BY <1>2, Zenon DEF Stop
  <2> QED BY <1>2, <2>1 DEF TypeOK, Stop
<1>3. ASSUME NEW c \in Clients, Connect(c) PROVE TypeOK'
  BY <1>3 DEF TypeOK, Connect
<1>4. ASSUME NEW c \in Clients, HangUp(c) PROVE TypeOK'
  <2>1. hung' \in [Clients -> BOOLEAN]
    <3>1. TRUE \in BOOLEAN
      BY Zenon
    <3> QED BY <1>4, <3>1, Zenon DEF TypeOK, HangUp
  <2> QED BY <1>4, <2>1 DEF TypeOK, HangUp
<1>5. ASSUME NEW c \in Clients, NEW kind \in Kinds, Ask(c, kind) PROVE TypeOK'
  <2>1. asked' \in [Clients -> Seq(Kinds)]
    BY <1>5 DEF TypeOK, Ask
  <2> QED BY <1>5, <2>1 DEF TypeOK, Ask
<1> QED BY <1>1, <1>2, <1>3, <1>4, <1>5

(* Every variable keeps its type.                                          *)
THEOREM Typed == Spec => []TypeOK
<1>1. ASSUME Init PROVE TypeOK
  <2>1. /\ stop \in BOOLEAN /\ stopServing \in BOOLEAN
        /\ rest \in [Clients -> BOOLEAN]
    BY <1>1, Zenon DEF Init
  <2>2. <<>> \in Seq(Nat) /\ <<>> \in Seq(Ids) /\ <<>> \in Seq(Kinds)
    OBVIOUS
  <2>3. jsonrpcId \in Ids
    BY <1>1 DEF Init, Ids
  <2> QED BY <1>1, <2>1, <2>2, <2>3 DEF Init, TypeOK, AccLabels, Labels
<1>2. ASSUME TypeOK, [Next]_vars PROVE TypeOK'
  <2>1. CASE UNCHANGED vars
    BY <1>2, <2>1 DEF TypeOK, vars
  <2>2. CASE Next
    BY <1>2, <2>2, AcceptTyped, ThreadTyped, WorldTyped DEF Next
  <2> QED BY <1>2, <2>1, <2>2
<1> QED BY <1>1, <1>2, PTL DEF Spec

-----------------------------------------------------------------------------
(* The handle                                                              *)

(* A client that has not been accepted has no thread.                      *)
NoThreadYet == \A c \in Clients : conn[c] \in {"out", "waiting"} => pc[c] = "none"

RoundInv == TypeOK /\ NoThreadYet /\ HandleFollowsRound

LEMMA DisableKeepsRounds ==
  ASSUME RoundInv, NEW c \in Clients, pc[c] \in {"receive", "more", "handle"}, OnDisable(c)
  PROVE  NoThreadYet' /\ HandleFollowsRound'
<1> USE ClientAssumption DEF RoundInv, TypeOK, NoThreadYet, HandleFollowsRound,
                             HoldsHandle, Labels, Go
<1>1. CASE stopServing
  <2>1. Close(c)
    BY <1>1 DEF OnDisable
  <2> QED BY <2>1 DEF Close
<1>2. CASE ~stopServing
  <2>1. handle' = Nobody /\ pc' = [pc EXCEPT ![c] = "top"] /\ conn' = conn
    BY <1>2 DEF OnDisable
  <2>2. \A d \in Clients \ {c} : pc'[d] = pc[d]
    BY <2>1
  <2>3. pc'[c] = "top" /\ conn[c] \notin {"out", "waiting"}
    BY <2>1
  <2> QED BY <2>1, <2>2, <2>3
<1> QED BY <1>1, <1>2, Zenon

LEMMA ThreadKeepsRounds ==
  ASSUME RoundInv, NEW c \in Clients, ClientThread(c)
  PROVE  NoThreadYet' /\ HandleFollowsRound'
<1> USE ClientAssumption DEF RoundInv, TypeOK, NoThreadYet, HandleFollowsRound,
                             HoldsHandle, Labels, Go
<1>1. CASE Top(c)
  <2>1. /\ \E label \in {"lock", "ended"} : pc' = [pc EXCEPT ![c] = label]
        /\ pc[c] = "top" /\ handle' = handle
        /\ conn' = conn \/ conn' = [conn EXCEPT ![c] = "closed"]
    BY <1>1 DEF Top
  <2>2. \A d \in Clients \ {c} : pc'[d] = pc[d] /\ conn'[d] = conn[d]
    BY <2>1
  <2>3. pc'[c] \in {"lock", "ended"} /\ conn'[c] \notin {"out", "waiting"}
    BY <2>1
  <2> QED BY <2>1, <2>2, <2>3
<1>2. CASE Lock(c)
  BY <1>2 DEF Lock
<1>3. CASE LockTimesOut(c)
  BY <1>3 DEF LockTimesOut
<1>4. CASE ReceiveHangUp(c)
  BY <1>4 DEF ReceiveHangUp, Close
<1>5. CASE ReceiveNothing(c)
  BY <1>5 DEF ReceiveNothing, OnEnable
<1>6. CASE ReceiveReady(c)
  <2>1. pc[c] \in {"receive", "more"} /\ OnEnable(c)
    BY <1>6 DEF ReceiveReady, Read
  <2> QED BY <2>1 DEF OnEnable
<1>7. CASE ReceiveGarbage(c)
  BY <1>7, DisableKeepsRounds DEF ReceiveGarbage, Read
<1>8. CASE ReceiveRequest(c)
  <2>1. /\ pc[c] \in {"receive", "more"} /\ pc' = [pc EXCEPT ![c] = "handle"]
        /\ UNCHANGED <<handle, conn>>
    BY <1>8 DEF ReceiveRequest, First, Read
  <2> QED BY <2>1
<1>14. CASE ReceivePart(c)
  <2>1. pc[c] = "receive" /\ pc' = [pc EXCEPT ![c] = "more"] /\ UNCHANGED <<handle, conn>>
    BY <1>14 DEF ReceivePart
  <2> QED BY <2>1
<1>15. CASE ReceiveNoMore(c)
  <2>1. pc[c] = "more" /\ (OnDisable(c) \/ OnEnable(c))
    BY <1>15 DEF ReceiveNoMore
  <2>2. CASE OnDisable(c)
    BY <2>1, <2>2, DisableKeepsRounds
  <2>3. CASE OnEnable(c)
    BY <2>1, <2>3 DEF OnEnable
  <2> QED BY <2>1, <2>2, <2>3
<1>16. CASE ReceiveTooMuch(c)
  BY <1>16 DEF ReceiveTooMuch, Close
<1>9. CASE HandleFails(c)
  BY <1>9 DEF HandleFails, Close
<1>10. CASE Handle(c)
  <2>1. pc[c] = "handle" /\ (OnDisable(c) \/ OnEnable(c) \/ OnOperation(c))
    BY <1>10 DEF Handle
  <2>2. CASE OnDisable(c)
    BY <2>1, <2>2, DisableKeepsRounds
  <2>3. CASE OnEnable(c)
    BY <2>1, <2>3 DEF OnEnable
  <2>4. CASE OnOperation(c)
    BY <2>1, <2>4 DEF OnOperation
  <2> QED BY <2>1, <2>2, <2>3, <2>4
<1>11. CASE SendEvent(c)
  BY <1>11 DEF SendEvent
<1>12. CASE SendFails(c)
  BY <1>12 DEF SendFails, Close
<1>13. CASE RoundEnds(c)
  BY <1>13 DEF RoundEnds
<1> QED BY <1>1, <1>2, <1>3, <1>4, <1>5, <1>6, <1>7, <1>8, <1>9, <1>10, <1>11,
           <1>12, <1>13, <1>14, <1>15, <1>16 DEF ClientThread

LEMMA OthersKeepRounds ==
  ASSUME RoundInv,
         \/ AcceptStep \/ Emit \/ Stop \/ UNCHANGED vars
         \/ \E c \in Clients : Connect(c) \/ HangUp(c)
         \/ \E c \in Clients, kind \in Kinds : Ask(c, kind)
  PROVE  NoThreadYet' /\ HandleFollowsRound'
<1> USE ClientAssumption DEF RoundInv, TypeOK, NoThreadYet, HandleFollowsRound,
                             HoldsHandle, Labels, Go
<1>1. CASE AcceptEnds \/ AcceptNobody \/ PopEvent \/ Emit \/ Stop \/ UNCHANGED vars
  BY <1>1 DEF AcceptEnds, AcceptNobody, PopEvent, Emit, Stop, vars
<1>2. ASSUME NEW c \in Clients, Accept(c) PROVE NoThreadYet' /\ HandleFollowsRound'
  BY <1>2 DEF Accept
<1>3. CASE Broadcast
  BY <1>3 DEF Broadcast
<1>4. ASSUME NEW c \in Clients, Connect(c) \/ HangUp(c)
      PROVE  NoThreadYet' /\ HandleFollowsRound'
  BY <1>4 DEF Connect, HangUp
<1>5. ASSUME NEW c \in Clients, NEW kind \in Kinds, Ask(c, kind)
      PROVE  NoThreadYet' /\ HandleFollowsRound'
  BY <1>5 DEF Ask
<1> QED BY <1>1, <1>2, <1>3, <1>4, <1>5 DEF AcceptStep

LEMMA Rounds == Spec => []RoundInv
<1>1. ASSUME Init PROVE NoThreadYet /\ HandleFollowsRound
  BY <1>1, ClientAssumption DEF Init, NoThreadYet, HandleFollowsRound, HoldsHandle
<1>2. ASSUME RoundInv, [Next]_vars PROVE NoThreadYet' /\ HandleFollowsRound'
  BY <1>2, ThreadKeepsRounds, OthersKeepRounds, Zenon DEF Next
<1> QED BY <1>1, <1>2, Typed, PTL DEF Spec, RoundInv

(* A thread owns the handle exactly during its round.                      *)
THEOREM Ownership == Spec => []HandleFollowsRound
BY Rounds, PTL DEF RoundInv

-----------------------------------------------------------------------------
(* The answers                                                             *)

(* The global id is that of the request being handled.                     *)
IdIsOwn(c) ==
  pc[c] = "handle" => jsonrpcId = <<c, answering[c]>> /\ answering[c] <= taken[c]

(* The answers sent are to requests read, before the one being handled.    *)
AnsweredBefore(c) ==
  \A i \in 1..Len(replies[c]) :
    /\ replies[c][i][1] = c /\ replies[c][i][2] <= taken[c]
    /\ pc[c] = "handle" => replies[c][i][2] < answering[c]

InOrder(c) ==
  \A i, j \in 1..Len(replies[c]) : i < j => replies[c][i][2] < replies[c][j][2]

AnswerInv == \A c \in Clients : IdIsOwn(c) /\ AnsweredBefore(c) /\ InOrder(c)

LEMMA ReplyTyped ==
  ASSUME TypeOK, NEW c \in Clients
  PROVE  /\ replies[c] \in Seq(Ids) /\ taken[c] \in Nat /\ answering[c] \in Nat
         /\ Len(replies[c]) \in Nat
         /\ \A i \in 1..Len(replies[c]) : replies[c][i][2] \in Nat
<1>1. replies[c] \in Seq(Ids) /\ taken[c] \in Nat /\ answering[c] \in Nat
  BY DEF TypeOK
<1>2. \A i \in 1..Len(replies[c]) : replies[c][i] \in Ids
  BY <1>1, ElementOfSeq
<1> QED BY <1>1, <1>2 DEF Ids

(* Nobody starts to handle a request, none is read, none answered.         *)
LEMMA AnswersLeftAlone ==
  ASSUME RoundInv, AnswerInv, UNCHANGED answers,
         \A d \in Clients : pc'[d] = "handle" => pc[d] = "handle"
  PROVE  AnswerInv'
BY DEF AnswerInv, IdIsOwn, AnsweredBefore, InOrder, answers

(* Requests are read and dropped.                                          *)
LEMMA AnswersAfterRead ==
  ASSUME RoundInv, AnswerInv, UNCHANGED <<jsonrpcId, answering, replies>>,
         \A d \in Clients : pc'[d] = "handle" => pc[d] = "handle",
         NEW c \in Clients, NEW n \in Nat, taken[c] <= n,
         taken' = [taken EXCEPT ![c] = n]
  PROVE  AnswerInv'
<1>1. ASSUME NEW d \in Clients PROVE taken[d] <= taken'[d] /\ taken'[d] \in Nat
  <2>1. taken \in [Clients -> Nat]
    BY DEF RoundInv, TypeOK
  <2> QED BY <2>1
<1>2. ASSUME NEW d \in Clients PROVE IdIsOwn(d)'
  BY <1>1, ReplyTyped DEF AnswerInv, IdIsOwn, RoundInv
<1>3. ASSUME NEW d \in Clients PROVE AnsweredBefore(d)'
  BY <1>1, ReplyTyped DEF AnswerInv, AnsweredBefore, RoundInv
<1> QED BY <1>2, <1>3 DEF AnswerInv, InOrder

LEMMA AnswersAfterRequest ==
  ASSUME RoundInv, AnswerInv, NEW c \in Clients, ReceiveRequest(c)
  PROVE  AnswerInv'
<1>1. PICK n \in 1..MaxRequests, i \in 1..MaxRequests, part \in BOOLEAN :
        /\ First(c, n, part, i)
        /\ answering' = [answering EXCEPT ![c] = i] /\ jsonrpcId' = <<c, i>>
  BY DEF ReceiveRequest
<1>2. /\ answering' = [answering EXCEPT ![c] = i] /\ jsonrpcId' = <<c, i>>
      /\ n \in Nat /\ i \in Nat /\ taken[c] < i /\ i <= n
  <2>1. taken[c] \in Nat /\ i \in taken[c] + 1..(IF part THEN n - 1 ELSE n)
    BY <1>1, ReplyTyped DEF First, Whole, RoundInv
  <2> QED BY <1>1, <2>1
<1>3. /\ taken' = [taken EXCEPT ![c] = n] /\ replies' = replies
      /\ pc' = [pc EXCEPT ![c] = "handle"] /\ pc[c] \in {"receive", "more"}
  BY <1>1 DEF ReceiveRequest, First, Read, Go
<1>4. \A d \in Clients \ {c} : pc[d] # "handle"
  BY <1>3, ClientAssumption DEF RoundInv, HandleFollowsRound, HoldsHandle
<1>5. ASSUME NEW d \in Clients
      PROVE IdIsOwn(d)' /\ AnsweredBefore(d)' /\ InOrder(d)'
  <2>1. CASE d = c
    <3>1. /\ taken'[c] = n /\ answering'[c] = i /\ taken[c] < i /\ i <= n
          /\ taken[c] \in Nat /\ i \in Nat /\ n \in Nat
      BY <1>2, <1>3 DEF RoundInv, TypeOK
    <3>2. IdIsOwn(c)'
      BY <1>2, <3>1 DEF IdIsOwn
    <3>3. AnsweredBefore(c)'
      BY <1>3, <3>1, ReplyTyped DEF AnswerInv, AnsweredBefore, RoundInv
    <3> QED BY <1>3, <2>1, <3>2, <3>3 DEF AnswerInv, InOrder
  <2>2. CASE d # c
    <3>1. /\ taken'[d] = taken[d] /\ answering'[d] = answering[d]
          /\ pc'[d] # "handle"
      BY <1>2, <1>3, <1>4, <2>2 DEF RoundInv, TypeOK
    <3> QED BY <1>3, <3>1 DEF AnswerInv, IdIsOwn, AnsweredBefore, InOrder
  <2> QED BY <2>1, <2>2
<1> QED BY <1>5 DEF AnswerInv

LEMMA AnswersAfterHandle ==
  ASSUME RoundInv, AnswerInv, NEW c \in Clients, Handle(c)
  PROVE  AnswerInv'
<1>1. /\ replies' = [replies EXCEPT ![c] = Append(replies[c], jsonrpcId)]
      /\ UNCHANGED <<jsonrpcId, taken, answering>> /\ pc[c] = "handle"
  BY DEF Handle
<1>2. PICK label \in {"top", "drain", "ended"} : pc' = [pc EXCEPT ![c] = label]
  BY DEF Handle, OnDisable, OnEnable, OnOperation, Close, Go
<1>3. ASSUME NEW d \in Clients
      PROVE IdIsOwn(d)' /\ AnsweredBefore(d)' /\ InOrder(d)'
  <2>1. CASE d = c
    <3>1. jsonrpcId = <<c, answering[c]>> /\ answering[c] <= taken[c]
      BY <1>1 DEF AnswerInv, IdIsOwn
    <3>2. /\ replies'[c] = Append(replies[c], jsonrpcId) /\ pc'[c] # "handle"
          /\ taken'[c] = taken[c]
      BY <1>1, <1>2 DEF RoundInv, TypeOK
    <3>3. /\ Len(replies'[c]) = Len(replies[c]) + 1
          /\ \A i \in 1..Len(replies[c]) : replies'[c][i] = replies[c][i]
          /\ replies'[c][Len(replies[c]) + 1] = jsonrpcId
      BY <3>2, AppendProperties, ReplyTyped DEF RoundInv, TypeOK
    <3>4. \A i \in 1..Len(replies[c]) :
            /\ replies[c][i][1] = c /\ replies[c][i][2] <= taken[c]
            /\ replies[c][i][2] < answering[c]
      BY <1>1 DEF AnswerInv, AnsweredBefore
    <3>5. jsonrpcId[1] = c /\ jsonrpcId[2] = answering[c]
      BY <3>1
    <3>6. AnsweredBefore(c)'
      <4>1. ASSUME NEW i \in 1..Len(replies[c]) + 1
            PROVE replies'[c][i][1] = c /\ replies'[c][i][2] <= taken[c]
        <5>1. CASE i = Len(replies[c]) + 1
          BY <3>1, <3>3, <3>5, <5>1
        <5>2. CASE i # Len(replies[c]) + 1
          <6>1. i \in 1..Len(replies[c])
            BY <5>2, ReplyTyped DEF RoundInv
          <6> QED BY <3>3, <3>4, <6>1
        <5> QED BY <5>1, <5>2
      <4> QED BY <3>2, <3>3, <4>1 DEF AnsweredBefore
    <3>7. InOrder(c)'
      <4>1. ASSUME NEW i \in 1..Len(replies[c]) + 1, NEW j \in 1..Len(replies[c]) + 1,
                   i < j
            PROVE  replies'[c][i][2] < replies'[c][j][2]
        <5>1. i \in 1..Len(replies[c])
          BY <4>1, ReplyTyped DEF RoundInv
        <5>2. CASE j = Len(replies[c]) + 1
          BY <5>1, <5>2, <3>3, <3>4, <3>5
        <5>3. CASE j # Len(replies[c]) + 1
          <6>1. j \in 1..Len(replies[c])
            BY <5>3, ReplyTyped DEF RoundInv
          <6> QED BY <4>1, <5>1, <6>1, <3>3 DEF AnswerInv, InOrder
        <5> QED BY <5>2, <5>3
      <4> QED BY <3>3, <4>1 DEF InOrder
    <3> QED BY <2>1, <3>2, <3>6, <3>7 DEF IdIsOwn
  <2>2. CASE d # c
    <3>1. replies'[d] = replies[d] /\ pc'[d] = pc[d]
      BY <1>1, <1>2, <2>2 DEF RoundInv, TypeOK
    <3> QED BY <1>1, <3>1 DEF AnswerInv, IdIsOwn, AnsweredBefore, InOrder
  <2> QED BY <2>1, <2>2
<1> QED BY <1>3 DEF AnswerInv

LEMMA AnswersAfterThread ==
  ASSUME RoundInv, AnswerInv, NEW c \in Clients, ClientThread(c)
  PROVE  AnswerInv'
<1>1. CASE \/ Top(c) \/ Lock(c) \/ LockTimesOut(c) \/ ReceiveHangUp(c)
           \/ ReceiveNothing(c) \/ ReceiveNoMore(c) \/ ReceiveTooMuch(c)
           \/ HandleFails(c) \/ SendEvent(c) \/ SendFails(c) \/ RoundEnds(c)
  <2>1. UNCHANGED answers
    BY <1>1 DEF Top, Lock, LockTimesOut, ReceiveHangUp, ReceiveNothing,
                ReceiveNoMore, ReceiveTooMuch, HandleFails, SendEvent, SendFails, RoundEnds
  <2>2. pc' = pc \/ \E label \in Labels \ {"handle"} : pc' = [pc EXCEPT ![c] = label]
    BY <1>1 DEF Top, Lock, LockTimesOut, ReceiveHangUp, ReceiveNothing, ReceiveNoMore,
                ReceiveTooMuch, OnEnable, OnDisable, HandleFails, SendEvent, SendFails, RoundEnds, Close, Go, Labels
  <2> QED BY <2>1, <2>2, AnswersLeftAlone DEF RoundInv, TypeOK
<1>2. CASE ReceiveReady(c) \/ ReceiveGarbage(c)
  <2>1. PICK n \in 0..MaxRequests, part \in BOOLEAN : Read(c, n, part)
    BY <1>2 DEF ReceiveReady, ReceiveGarbage
  <2>2. UNCHANGED <<jsonrpcId, answering, replies>> /\ (OnDisable(c) \/ OnEnable(c))
    BY <1>2 DEF ReceiveReady, ReceiveGarbage
  <2>3. \E label \in {"top", "drain", "ended"} : pc' = [pc EXCEPT ![c] = label]
    BY <2>2 DEF OnDisable, OnEnable, Close, Go
  <2>4. \A d \in Clients : pc'[d] = "handle" => pc[d] = "handle"
    BY <2>3 DEF RoundInv, TypeOK
  <2>5. n \in Nat /\ taken[c] <= n /\ taken' = [taken EXCEPT ![c] = n]
    BY <2>1, ReadTyped DEF RoundInv
  <2> QED BY <2>2, <2>4, <2>5, AnswersAfterRead
<1>3. CASE ReceivePart(c)
  <2>1. PICK n \in Nat : taken[c] <= n /\ taken' = [taken EXCEPT ![c] = n]
    BY <1>3, PartTyped DEF RoundInv
  <2>2. \A d \in Clients : pc'[d] = "handle" => pc[d] = "handle"
    BY <1>3 DEF ReceivePart, Go, RoundInv, TypeOK
  <2>3. UNCHANGED <<jsonrpcId, answering, replies>>
    BY <1>3 DEF ReceivePart
  <2> QED BY <2>1, <2>2, <2>3, AnswersAfterRead
<1> QED BY <1>1, <1>2, <1>3, AnswersAfterRequest, AnswersAfterHandle DEF ClientThread

LEMMA AnswersAfterOthers ==
  ASSUME RoundInv, AnswerInv,
         \/ AcceptStep \/ Emit \/ Stop \/ UNCHANGED vars
         \/ \E c \in Clients : Connect(c) \/ HangUp(c)
         \/ \E c \in Clients, kind \in Kinds : Ask(c, kind)
  PROVE  AnswerInv'
<1>1. UNCHANGED answers
  BY DEF AcceptStep, AcceptEnds, Accept, AcceptNobody, PopEvent, Broadcast,
         Emit, Stop, vars, Connect, HangUp, Ask
<1>2. pc' = pc \/ \E c \in Clients : pc' = [pc EXCEPT ![c] = "top"]
  BY DEF AcceptStep, AcceptEnds, Accept, AcceptNobody, PopEvent, Broadcast,
         Emit, Stop, vars, Connect, HangUp, Ask, Go
<1> QED BY <1>1, <1>2, AnswersLeftAlone DEF RoundInv, TypeOK

(* Every answer is to a request of the client that gets it, and each is to *)
(* a later request than the one before.                                    *)
THEOREM Answers == Spec => []AnswersInOrder
<1>1. ASSUME Init, RoundInv PROVE AnswerInv
  BY <1>1 DEF Init, AnswerInv, IdIsOwn, AnsweredBefore, InOrder
<1>2. ASSUME RoundInv, AnswerInv, [Next]_vars PROVE AnswerInv'
  BY <1>2, AnswersAfterThread, AnswersAfterOthers, Zenon DEF Next
<1>3. ASSUME RoundInv, AnswerInv PROVE AnswersInOrder
  <2>1. ASSUME NEW c \in Clients PROVE DOMAIN replies[c] = 1..Len(replies[c])
    BY <1>3, ReplyTyped, LenProperties DEF RoundInv
  <2> QED BY <1>3, <2>1 DEF AnswersInOrder, AnswerInv, AnsweredBefore, InOrder
<1> QED BY <1>1, <1>2, <1>3, Rounds, PTL DEF Spec

-----------------------------------------------------------------------------
(* The events                                                              *)

(* What a client was sent, and what its receiver holds, goes on without a  *)
(* gap from the event before it joined to the last one broadcast.          *)
SentInOrder(c) == \A i \in 1..Len(got[c]) : got[c][i] = joined[c] + i

HeldInOrder(c) ==
  Serving(c) =>
    /\ joined[c] + Len(got[c]) + Len(rx[c]) = cast
    /\ \A i \in 1..Len(rx[c]) : rx[c][i] = joined[c] + Len(got[c]) + i

NotServed(c) == (pc[c] = "none" => got[c] = <<>>) /\ (~Serving(c) => rx[c] = <<>>)

EventInv == \A c \in Clients : SentInOrder(c) /\ HeldInOrder(c) /\ NotServed(c)

LEMMA EventTyped ==
  ASSUME TypeOK, NEW c \in Clients
  PROVE  /\ rx[c] \in Seq(Nat) /\ got[c] \in Seq(Nat) /\ joined[c] \in Nat
         /\ Len(rx[c]) \in Nat /\ Len(got[c]) \in Nat /\ cast \in Nat
BY DEF TypeOK

LEMMA Sums ==
  ASSUME NEW j \in Int, NEW g \in Int, NEW r \in Int
  PROVE  /\ j + (g + r) = j + g + r
         /\ j + g + (r + 1) = j + g + r + 1
         /\ j + (g + 1) + (r - 1) = j + g + r
         /\ j + g + (r - g) = j + r
OBVIOUS

LEMMA Shift ==
  ASSUME NEW j \in Int, NEW g \in Int, NEW r \in Int
  PROVE  j + g + (r + 1) = j + (g + 1) + r
OBVIOUS

LEMMA InSecond ==
  ASSUME NEW g \in Nat, NEW r \in Nat, NEW i \in 1..g + r, i > g
  PROVE  i - g \in 1..r /\ ~(i <= g)
OBVIOUS

(* No event moves, and no thread starts or ends.                           *)
LEMMA EventsLeftAlone ==
  ASSUME EventInv, UNCHANGED <<cast, joined, rx, got>>,
         \A d \in Clients : Serving(d)' = Serving(d) /\ (pc'[d] = "none" => pc[d] = "none")
  PROVE  EventInv'
BY DEF EventInv, SentInOrder, HeldInOrder, NotServed

(* A thread ends.                                                          *)
LEMMA EventsAfterEnd ==
  ASSUME TypeOK, EventInv, NEW c \in Clients, UNCHANGED <<cast, joined, got>>,
         pc' = [pc EXCEPT ![c] = "ended"], rx' = [rx EXCEPT ![c] = <<>>]
  PROVE  EventInv'
<1>1. pc'[c] = "ended" /\ rx'[c] = <<>>
  BY DEF TypeOK
<1>2. \A d \in Clients \ {c} : pc'[d] = pc[d] /\ rx'[d] = rx[d]
  BY DEF TypeOK
<1> QED BY <1>1, <1>2 DEF EventInv, SentInOrder, HeldInOrder, NotServed, Serving

LEMMA EventsAfterAccept ==
  ASSUME RoundInv, EventInv, NEW c \in Clients, Accept(c)
  PROVE  EventInv'
<1>1. pc[c] = "none"
  BY DEF Accept, RoundInv, NoThreadYet
<1>2. /\ pc'[c] = "top" /\ joined'[c] = cast /\ got'[c] = <<>> /\ rx'[c] = <<>>
      /\ cast' = cast /\ cast \in Nat
  BY <1>1 DEF Accept, Go, RoundInv, TypeOK, EventInv, NotServed, Serving
<1>3. \A d \in Clients \ {c} : pc'[d] = pc[d] /\ joined'[d] = joined[d]
  BY DEF Accept, Go, RoundInv, TypeOK
<1>4. UNCHANGED <<cast, rx, got>>
  BY DEF Accept
<1> QED BY <1>2, <1>3, <1>4 DEF EventInv, SentInOrder, HeldInOrder, NotServed, Serving

LEMMA EventsAfterBroadcast ==
  ASSUME TypeOK, EventInv, Broadcast
  PROVE  EventInv'
<1>1. UNCHANGED <<pc, joined, got>> /\ cast' = cast + 1
  BY DEF Broadcast
<1>2. ASSUME NEW c \in Clients
      PROVE  SentInOrder(c)' /\ HeldInOrder(c)' /\ NotServed(c)'
  <2>1. CASE Serving(c)
    <3>1. rx'[c] = Append(rx[c], cast + 1)
      BY <2>1 DEF Broadcast
    <3>2. /\ Len(rx'[c]) = Len(rx[c]) + 1
          /\ \A i \in 1..Len(rx[c]) : rx'[c][i] = rx[c][i]
          /\ rx'[c][Len(rx[c]) + 1] = cast + 1
      BY <3>1, AppendProperties, EventTyped
    <3>3. joined[c] + Len(got[c]) + Len(rx[c]) = cast
      BY <2>1 DEF EventInv, HeldInOrder
    <3>4. joined[c] \in Int /\ Len(got[c]) \in Int /\ Len(rx[c]) \in Int
      BY EventTyped
    <3>5. \A j, g, r \in Int : j + g + (r + 1) = j + g + r + 1
      OBVIOUS
    <3>6. joined[c] + Len(got[c]) + (Len(rx[c]) + 1) = cast + 1
      <4>1. joined[c] + Len(got[c]) + (Len(rx[c]) + 1) = joined[c] + Len(got[c]) + Len(rx[c]) + 1
        BY <3>4, <3>5, Zenon
      <4> QED BY <3>3, <4>1, Zenon
    <3>7. ASSUME NEW i \in 1..Len(rx[c]) + 1
          PROVE  rx'[c][i] = joined[c] + Len(got[c]) + i
      <4>1. CASE i = Len(rx[c]) + 1
        <5>1. rx'[c][i] = cast + 1
          BY <3>2, <4>1, Zenon
        <5> QED BY <3>6, <4>1, <5>1, Zenon
      <4>2. CASE i # Len(rx[c]) + 1
        <5>1. i \in 1..Len(rx[c])
          BY <4>2, EventTyped
        <5> QED BY <2>1, <3>2, <5>1 DEF EventInv, HeldInOrder
      <4> QED BY <4>1, <4>2
    <3>8. HeldInOrder(c)'
      <4>1. joined[c] + Len(got[c]) + Len(rx'[c]) = cast + 1
        BY <3>2, <3>6, Zenon
      <4>2. \A i \in 1..Len(rx'[c]) : rx'[c][i] = joined[c] + Len(got[c]) + i
        BY <3>2, <3>7, Zenon
      <4> QED BY <1>1, <4>1, <4>2 DEF HeldInOrder
    <3> QED BY <1>1, <2>1, <3>8 DEF EventInv, SentInOrder, NotServed, Serving
  <2>2. CASE ~Serving(c)
    <3>1. rx'[c] = rx[c]
      BY <2>2 DEF Broadcast
    <3> QED BY <1>1, <2>2, <3>1 DEF EventInv, SentInOrder, HeldInOrder, NotServed, Serving
  <2> QED BY <2>1, <2>2
<1> QED BY <1>2 DEF EventInv

LEMMA EventsAfterSend ==
  ASSUME TypeOK, EventInv, NEW c \in Clients, SendEvent(c)
  PROVE  EventInv'
<1>1. UNCHANGED <<pc, joined, cast>> /\ pc[c] = "drain" /\ rx[c] # <<>>
  BY DEF SendEvent
<1>2. /\ got' = [got EXCEPT ![c] = Append(got[c], Head(rx[c]))]
      /\ rx' = [rx EXCEPT ![c] = Tail(rx[c])]
  BY DEF SendEvent
<1>3. got'[c] = Append(got[c], Head(rx[c])) /\ rx'[c] = Tail(rx[c])
  BY <1>2 DEF TypeOK
<1>4. /\ Head(rx[c]) = rx[c][1] /\ Head(rx[c]) \in Nat
      /\ Len(rx'[c]) = Len(rx[c]) - 1 /\ Len(rx[c]) >= 1
      /\ \A i \in 1..Len(rx'[c]) : rx'[c][i] = rx[c][i + 1]
  BY <1>1, <1>3, HeadTailProperties, EventTyped
<1>5. /\ Len(got'[c]) = Len(got[c]) + 1
      /\ \A i \in 1..Len(got[c]) : got'[c][i] = got[c][i]
      /\ got'[c][Len(got[c]) + 1] = rx[c][1]
  BY <1>3, <1>4, AppendProperties, EventTyped
<1>6. /\ joined[c] + Len(got[c]) + Len(rx[c]) = cast
      /\ \A i \in 1..Len(rx[c]) : rx[c][i] = joined[c] + Len(got[c]) + i
  BY <1>1 DEF EventInv, HeldInOrder, Serving
<1>11. joined[c] \in Int /\ Len(got[c]) \in Int /\ Len(rx[c]) \in Int
  BY EventTyped
<1>7. SentInOrder(c)'
  <2>1. rx[c][1] = joined[c] + Len(got[c]) + 1
    <3>1. 1 \in 1..Len(rx[c])
      BY <1>4, EventTyped
    <3> QED BY <1>6, <3>1
  <2>2. ASSUME NEW i \in 1..Len(got[c]) + 1 PROVE got'[c][i] = joined[c] + i
    <3>1. CASE i = Len(got[c]) + 1
      <4>1. joined[c] + Len(got[c]) + 1 = joined[c] + i
        BY <3>1, <1>11
      <4> QED BY <1>5, <2>1, <3>1, <4>1
    <3>2. CASE i # Len(got[c]) + 1
      <4>1. i \in 1..Len(got[c])
        BY <3>2, EventTyped
      <4> QED BY <1>5, <4>1 DEF EventInv, SentInOrder
    <3> QED BY <3>1, <3>2
  <2> QED BY <1>1, <1>5, <2>2 DEF SentInOrder
<1>8. HeldInOrder(c)'
  <2>1. joined[c] + Len(got'[c]) + Len(rx'[c]) = cast
    <3>1. joined[c] + (Len(got[c]) + 1) + (Len(rx[c]) - 1) = joined[c] + Len(got[c]) + Len(rx[c])
      BY <1>11, Sums, Zenon
    <3> QED BY <1>4, <1>5, <1>6, <3>1, Zenon
  <2>2. ASSUME NEW i \in 1..Len(rx'[c]) PROVE rx'[c][i] = joined[c] + Len(got'[c]) + i
    <3>1. i + 1 \in 1..Len(rx[c])
      BY <1>4, EventTyped
    <3>2. rx'[c][i] = joined[c] + Len(got[c]) + (i + 1)
      BY <1>4, <1>6, <3>1
    <3>3. joined[c] + Len(got[c]) + (i + 1) = joined[c] + (Len(got[c]) + 1) + i
      <4>1. i \in Int
        OBVIOUS
      <4> QED BY <1>11, <4>1, Shift, Zenon
    <3> QED BY <1>5, <3>2, <3>3
  <2> QED BY <1>1, <2>1, <2>2 DEF HeldInOrder
<1>9. NotServed(c)'
  BY <1>1 DEF NotServed, Serving
<1>10. \A d \in Clients \ {c} : got'[d] = got[d] /\ rx'[d] = rx[d]
  BY <1>2 DEF TypeOK
<1> QED BY <1>1, <1>7, <1>8, <1>9, <1>10
        DEF EventInv, SentInOrder, HeldInOrder, NotServed, Serving

LEMMA EventsAfterThread ==
  ASSUME TypeOK, EventInv, NEW c \in Clients, ClientThread(c)
  PROVE  EventInv'
<1>1. ASSUME NEW label \in {"top", "lock", "receive", "more", "handle", "drain"},
             pc' = [pc EXCEPT ![c] = label], Serving(c),
             UNCHANGED <<cast, joined, rx, got>>
      PROVE  EventInv'
  <2>1. \A d \in Clients : Serving(d)' = Serving(d) /\ (pc'[d] = "none" => pc[d] = "none")
    BY <1>1 DEF TypeOK, Serving
  <2> QED BY <1>1, <2>1, EventsLeftAlone
<1>2. ASSUME UNCHANGED <<cast, joined>>, Close(c) PROVE EventInv'
  BY <1>2, EventsAfterEnd DEF Close, Go
<1>3. ASSUME UNCHANGED <<cast, joined>>, OnDisable(c) \/ OnEnable(c), Serving(c)
      PROVE  EventInv'
  BY <1>1, <1>2, <1>3 DEF OnDisable, OnEnable, Go
<1>4. CASE Top(c)
  <2>1. CASE stop
    BY <1>4, <2>1, EventsAfterEnd DEF Top, Go
  <2>2. CASE ~stop
    BY <1>1, <1>4, <2>2 DEF Top, Go, Serving
  <2> QED BY <2>1, <2>2
<1>5. CASE Lock(c) \/ LockTimesOut(c) \/ RoundEnds(c) \/ ReceivePart(c) \/ ReceiveRequest(c)
  <2>1. /\ pc[c] \in {"lock", "drain", "receive", "more"}
        /\ \E label \in {"receive", "more", "top", "handle"} : pc' = [pc EXCEPT ![c] = label]
        /\ UNCHANGED <<cast, joined, rx, got>>
    BY <1>5 DEF Lock, LockTimesOut, RoundEnds, ReceivePart, ReceiveRequest, First, Read, Go
  <2> QED BY <1>1, <2>1 DEF Serving
<1>6. CASE ReceiveHangUp(c) \/ ReceiveTooMuch(c) \/ HandleFails(c) \/ SendFails(c)
  BY <1>2, <1>6 DEF ReceiveHangUp, ReceiveTooMuch, HandleFails, SendFails
<1>7. CASE ReceiveNothing(c) \/ ReceiveNoMore(c) \/ ReceiveReady(c) \/ ReceiveGarbage(c)
  <2>1. /\ pc[c] \in {"receive", "more"} /\ UNCHANGED <<cast, joined>>
        /\ OnDisable(c) \/ OnEnable(c)
    BY <1>7 DEF ReceiveNothing, ReceiveNoMore, ReceiveReady, ReceiveGarbage, Read
  <2> QED BY <1>3, <2>1 DEF Serving
<1>8. CASE Handle(c)
  <2>1. /\ pc[c] = "handle" /\ UNCHANGED <<cast, joined>>
        /\ OnDisable(c) \/ OnEnable(c) \/ OnOperation(c)
    BY <1>8 DEF Handle
  <2>2. CASE OnOperation(c)
    BY <1>1, <2>1, <2>2 DEF OnOperation, Go, Serving
  <2> QED BY <1>3, <2>1, <2>2 DEF Serving
<1>9. CASE SendEvent(c)
  BY <1>9, EventsAfterSend
<1> QED BY <1>4, <1>5, <1>6, <1>7, <1>8, <1>9 DEF ClientThread

LEMMA EventsAfterOthers ==
  ASSUME RoundInv, EventInv,
         \/ AcceptStep \/ Emit \/ Stop \/ UNCHANGED vars
         \/ \E c \in Clients : Connect(c) \/ HangUp(c)
         \/ \E c \in Clients, kind \in Kinds : Ask(c, kind)
  PROVE  EventInv'
<1>1. CASE UNCHANGED <<pc, cast, joined, rx, got>>
  BY <1>1, EventsLeftAlone DEF Serving
<1>2. CASE Broadcast
  BY <1>2, EventsAfterBroadcast DEF RoundInv
<1>3. \/ UNCHANGED <<pc, cast, joined, rx, got>>
      \/ Broadcast \/ \E c \in Clients : Accept(c)
  BY DEF AcceptStep, AcceptEnds, AcceptNobody, PopEvent, Emit, Stop, vars,
         Connect, HangUp, Ask
<1> QED BY <1>1, <1>2, <1>3, EventsAfterAccept

(* Every client is sent every event since it joined, once and in order.    *)
THEOREM Delivery == Spec => []NoEventMissed
<1>1. ASSUME Init PROVE EventInv
  BY <1>1 DEF Init, EventInv, SentInOrder, HeldInOrder, NotServed, Serving
<1>2. ASSUME RoundInv, EventInv, [Next]_vars PROVE EventInv'
  BY <1>2, EventsAfterThread, EventsAfterOthers, Zenon DEF Next, RoundInv
<1>3. ASSUME RoundInv, EventInv PROVE NoEventMissed
  <2> SUFFICES ASSUME NEW c \in Clients
               PROVE  /\ Numbers(got[c], joined[c] + 1, joined[c] + Len(got[c]))
                      /\ Serving(c) => Numbers(got[c] \o rx[c], joined[c] + 1, cast)
    BY DEF NoEventMissed
  <2>1. ASSUME NEW s \in Seq(Nat), NEW j \in Nat,
               \A i \in 1..Len(s) : s[i] = j + i
        PROVE  Numbers(s, j + 1, j + Len(s))
    <3>1. s \in [1..Len(s) -> Nat] /\ Len(s) \in Nat
      BY LenProperties
    <3>2. j + Len(s) - (j + 1) + 1 = Len(s) /\ \A i \in 1..Len(s) : j + 1 + i - 1 = j + i
      BY <3>1
    <3>3. [i \in 1..Len(s) |-> j + 1 + i - 1] = s
      BY <2>1, <3>1, <3>2
    <3> QED BY <3>2, <3>3 DEF Numbers
  <2>2. Numbers(got[c], joined[c] + 1, joined[c] + Len(got[c]))
    BY <1>3, <2>1, EventTyped DEF RoundInv, EventInv, SentInOrder
  <2>4. joined[c] \in Int /\ Len(got[c]) \in Int /\ Len(rx[c]) \in Int
    BY <1>3, EventTyped DEF RoundInv
  <2>3. ASSUME Serving(c) PROVE Numbers(got[c] \o rx[c], joined[c] + 1, cast)
    <3> DEFINE s == got[c] \o rx[c]
    <3>1. s \in Seq(Nat) /\ Len(s) = Len(got[c]) + Len(rx[c])
      BY <1>3, ConcatProperties, EventTyped DEF RoundInv
    <3>2. ASSUME NEW i \in 1..Len(got[c]) + Len(rx[c]) PROVE s[i] = joined[c] + i
      <4>1. s[i] = IF i <= Len(got[c]) THEN got[c][i] ELSE rx[c][i - Len(got[c])]
        BY <1>3, ConcatProperties, EventTyped DEF RoundInv
      <4>2. CASE i <= Len(got[c])
        BY <1>3, <4>1, <4>2, EventTyped DEF RoundInv, EventInv, SentInOrder
      <4>3. CASE i > Len(got[c])
        <5>1. i - Len(got[c]) \in 1..Len(rx[c]) /\ ~(i <= Len(got[c]))
          <6>1. Len(got[c]) \in Nat /\ Len(rx[c]) \in Nat
            BY <1>3, EventTyped DEF RoundInv
          <6> QED BY <4>3, <6>1, InSecond, Zenon
        <5>2. rx[c][i - Len(got[c])] = joined[c] + Len(got[c]) + (i - Len(got[c]))
          BY <1>3, <2>3, <5>1 DEF EventInv, HeldInOrder
        <5>3. joined[c] + Len(got[c]) + (i - Len(got[c])) = joined[c] + i
          <6>1. i \in Int
            BY <2>4
          <6>2. \A j, g, r \in Int : j + g + (r - g) = j + r
            OBVIOUS
          <6> QED BY <2>4, <6>1, <6>2, Zenon
        <5> QED BY <4>1, <5>1, <5>2, <5>3, Zenon
      <4>4. i <= Len(got[c]) \/ i > Len(got[c])
        BY <2>4
      <4> QED BY <4>2, <4>3, <4>4, Zenon
    <3>3. joined[c] + Len(s) = cast
      <4>1. joined[c] + Len(got[c]) + Len(rx[c]) = cast
        BY <1>3, <2>3 DEF EventInv, HeldInOrder
      <4>2. joined[c] + (Len(got[c]) + Len(rx[c])) = joined[c] + Len(got[c]) + Len(rx[c])
        BY <2>4, Sums, Zenon
      <4> QED BY <3>1, <4>1, <4>2, Zenon
    <3>4. \A i \in 1..Len(s) : s[i] = joined[c] + i
      BY <3>1, <3>2
    <3>5. joined[c] \in Nat
      BY <1>3, EventTyped DEF RoundInv
    <3> HIDE DEF s
    <3>6. Numbers(s, joined[c] + 1, joined[c] + Len(s))
      BY <2>1, <3>1, <3>4, <3>5
    <3> QED BY <3>3, <3>6 DEF s
  <2> QED BY <2>2, <2>3
<1> QED BY <1>1, <1>2, <1>3, Rounds, PTL DEF Spec

-----------------------------------------------------------------------------
(* The end of a thread                                                     *)

Reason(c) == stop \/ hung[c] \/ cut[c] # {} \/ Unhandled(c) \/ SecondDisable(c)

(* A thread reads on from where it is, in what its client has sent; of the *)
(* last request it has begun it may have the rest still to come, and then  *)
(* the cut is on record.                                                   *)
ReadsOn(c) ==
  /\ taken[c] <= Len(asked[c]) /\ cut[c] \subseteq 1..taken[c]
  /\ rest[c] \/ pc[c] = "more" => taken[c] \in cut[c]
  /\ pc[c] = "handle" => answering[c] \in 1..taken[c]

(* A flag that is set was set by a Disable, or by a part of a request,     *)
(* that its thread has done with.                                          *)
Stopper(d, j) == j \in DOMAIN asked[d] /\ (Disables(d, j) \/ j \in cut[d])
Handled(d, j) == pc[d] = "handle" => j # answering[d]
SetBySomeone ==
  stopServing => \E d \in Clients : \E j \in Nat : Stopper(d, j) /\ Handled(d, j)

(* A thread that has ended had a reason, which no later step takes back.   *)
EndInv ==
  /\ SetBySomeone
  /\ \A c \in Clients : ReadsOn(c) /\ (pc[c] = "ended" => Reason(c))

LEMMA EndTyped ==
  ASSUME TypeOK, EndInv, NEW c \in Clients
  PROVE  /\ asked[c] \in Seq(Kinds) /\ Len(asked[c]) \in Nat
         /\ DOMAIN asked[c] = 1..Len(asked[c])
         /\ taken[c] \in Nat /\ cut[c] \in SUBSET Nat /\ answering[c] \in Nat
         /\ \A j \in Nat : Stopper(c, j) => j <= taken[c]
<1>1. asked[c] \in Seq(Kinds) /\ taken[c] \in Nat /\ cut[c] \in SUBSET Nat /\ answering[c] \in Nat
  BY DEF TypeOK
<1>2. Len(asked[c]) \in Nat /\ DOMAIN asked[c] = 1..Len(asked[c])
  BY <1>1
<1>3. cut[c] \subseteq 1..taken[c]
  BY DEF EndInv, ReadsOn
<1> QED BY <1>1, <1>2, <1>3 DEF Stopper, Disables

(* The steps that read.                                                    *)
Reads(c) == ReceivePart(c) \/ ReceiveReady(c) \/ ReceiveGarbage(c) \/ ReceiveRequest(c)

LEMMA ReadersRead ==
  ASSUME [Next]_vars
  PROVE  \/ UNCHANGED <<taken, rest, cut>>
         \/ \E c \in Clients : Reads(c)
BY ZenonT(60)
   DEF Next, vars, AcceptStep, AcceptEnds, Accept, AcceptNobody, PopEvent, Broadcast,
       ClientThread, Top, Lock, LockTimesOut, ReceiveHangUp, ReceiveNothing,
       ReceiveNoMore, ReceiveTooMuch, Reads, HandleFails, Handle, SendEvent,
       SendFails, RoundEnds, Connect, HangUp, Ask, Emit, Stop

(* What is read of a client's requests only grows.                         *)
LEMMA ReadGrows ==
  ASSUME TypeOK, NEW c \in Clients, Reads(c)
  PROVE  /\ \A d \in Clients : taken[d] <= taken'[d] /\ cut[d] \subseteq cut'[d]
         /\ \A d \in Clients \ {c} : taken'[d] = taken[d] /\ rest'[d] = rest[d] /\ cut'[d] = cut[d]
<1>1. taken \in [Clients -> Nat] /\ cut \in [Clients -> SUBSET Nat]
  BY DEF TypeOK
<1>2. \E n \in Nat : taken[c] <= n /\ taken' = [taken EXCEPT ![c] = n]
  <2>1. CASE ReceivePart(c)
    BY <2>1, PartTyped
  <2>2. CASE ReceiveReady(c) \/ ReceiveGarbage(c)
    <3>1. PICK n \in 0..MaxRequests, part \in BOOLEAN : Read(c, n, part)
      BY <2>2 DEF ReceiveReady, ReceiveGarbage
    <3> QED BY <3>1, ReadTyped
  <2>3. CASE ReceiveRequest(c)
    <3>1. PICK n \in 1..MaxRequests, i \in 1..MaxRequests, part \in BOOLEAN : Read(c, n, part)
      BY <2>3 DEF ReceiveRequest, First
    <3>2. n \in 0..MaxRequests
      OBVIOUS
    <3> QED BY <3>1, <3>2, ReadTyped
  <2> QED BY <2>1, <2>2, <2>3 DEF Reads
<1>3. /\ cut' = cut \/ \E s : cut' = [cut EXCEPT ![c] = s] /\ cut[c] \subseteq s
      /\ rest' = rest \/ \E b : rest' = [rest EXCEPT ![c] = b]
  <2>1. CASE ReceivePart(c)
    <3>1. rest' = rest \/ rest' = [rest EXCEPT ![c] = TRUE]
      BY <2>1, Zenon DEF ReceivePart
    <3>2. cut' = cut \/ cut' = [cut EXCEPT ![c] = cut[c] \cup {taken[c] + 1}]
      BY <2>1 DEF ReceivePart
    <3> QED BY <3>1, <3>2
  <2>2. CASE \E n, part : Read(c, n, part)
    <3>1. PICK n, part : Read(c, n, part)
      BY <2>2
    <3>2. rest' = [rest EXCEPT ![c] = part]
      BY <3>1, Zenon DEF Read
    <3>3. cut' = [cut EXCEPT ![c] = IF part THEN cut[c] \cup {n} ELSE cut[c]]
      BY <3>1, Zenon DEF Read
    <3>4. cut[c] \subseteq (IF part THEN cut[c] \cup {n} ELSE cut[c])
      OBVIOUS
    <3> QED BY <3>2, <3>3, <3>4, Zenon
  <2> QED BY <2>1, <2>2, Zenon DEF Reads, ReceiveReady, ReceiveGarbage, ReceiveRequest, First
<1>4. \A d \in Clients : cut[d] \subseteq cut'[d]
  BY <1>1, <1>3
<1>5. \A d \in Clients : taken[d] <= taken'[d]
  BY <1>1, <1>2
<1>6. \A d \in Clients \ {c} : taken'[d] = taken[d] /\ cut'[d] = cut[d]
  BY <1>1, <1>2, <1>3
<1>7. \A d \in Clients \ {c} : rest'[d] = rest[d]
  BY <1>3, Zenon DEF TypeOK
<1> QED BY <1>4, <1>5, <1>6, <1>7

(* Requests, what was read of them, hang-ups and the end of the server are *)
(* never forgotten.                                                        *)
LEMMA NothingForgotten ==
  ASSUME TypeOK, [Next]_vars, NEW c \in Clients
  PROVE  /\ (stop => stop') /\ (hung[c] => hung'[c])
         /\ taken[c] <= taken'[c] /\ cut[c] \subseteq cut'[c]
         /\ asked'[c] \in Seq(Kinds) /\ Len(asked[c]) <= Len(asked'[c])
         /\ \A i \in 1..Len(asked[c]) : asked'[c][i] = asked[c][i]
<1>1. (stop => stop') /\ (hung[c] => hung'[c])
  <2>1. CASE UNCHANGED <<stop, hung>>
    BY <2>1
  <2>2. CASE Stop
    BY <2>2 DEF Stop
  <2>3. ASSUME NEW d \in Clients, HangUp(d) PROVE (stop => stop') /\ (hung[c] => hung'[c])
    BY <2>3, Zenon DEF HangUp, TypeOK
  <2> QED BY <2>1, <2>2, <2>3, ZenonT(60)
      DEF Next, vars, AcceptStep, AcceptEnds, Accept, AcceptNobody, PopEvent, Broadcast,
          ClientThread, Top, Lock, LockTimesOut, ReceiveHangUp, ReceiveNothing, ReceivePart,
          ReceiveNoMore, ReceiveTooMuch, ReceiveReady, ReceiveGarbage, ReceiveRequest,
          HandleFails, Handle, SendEvent, SendFails, RoundEnds, Close, OnDisable, OnEnable,
          OnOperation, Connect, Ask, Emit
<1>2. taken[c] <= taken'[c] /\ cut[c] \subseteq cut'[c]
  <2>1. CASE UNCHANGED <<taken, rest, cut>>
    BY <2>1 DEF TypeOK
  <2> QED BY <2>1, ReadersRead, ReadGrows
<1>3. /\ asked'[c] \in Seq(Kinds) /\ Len(asked[c]) <= Len(asked'[c])
      /\ \A i \in 1..Len(asked[c]) : asked'[c][i] = asked[c][i]
  <2>1. asked \in [Clients -> Seq(Kinds)]
    BY DEF TypeOK
  <2>2. CASE UNCHANGED asked
    BY <2>1, <2>2
  <2>3. ASSUME NEW d \in Clients, NEW kind \in Kinds, Ask(d, kind)
        PROVE  /\ asked'[c] \in Seq(Kinds) /\ Len(asked[c]) <= Len(asked'[c])
               /\ \A i \in 1..Len(asked[c]) : asked'[c][i] = asked[c][i]
    <3>1. asked' = [asked EXCEPT ![d] = Append(asked[d], kind)]
      BY <2>3 DEF Ask
    <3>2. CASE c = d
      <4>1. asked[c] \in Seq(Kinds) /\ asked'[c] = Append(asked[c], kind)
        BY <2>1, <3>1, <3>2
      <4> QED BY <4>1
    <3>3. CASE c # d
      BY <2>1, <3>1, <3>3
    <3> QED BY <3>2, <3>3
  <2> QED BY <2>2, <2>3, ZenonT(60)
      DEF Next, vars, AcceptStep, AcceptEnds, Accept, AcceptNobody, PopEvent, Broadcast,
          ClientThread, Top, Lock, LockTimesOut, ReceiveHangUp, ReceiveNothing, ReceivePart,
          ReceiveNoMore, ReceiveTooMuch, ReceiveReady, ReceiveGarbage, ReceiveRequest,
          HandleFails, Handle, SendEvent, SendFails, RoundEnds, Close, OnDisable, OnEnable,
          OnOperation, Connect, HangUp, Emit, Stop
<1> QED BY <1>1, <1>2, <1>3

LEMMA StoppersLast ==
  ASSUME TypeOK, TypeOK', EndInv, [Next]_vars, NEW d \in Clients, NEW j \in Nat
  PROVE  /\ Disables(d, j) /\ j \in DOMAIN asked[d] =>
              Disables(d, j)' /\ j \in DOMAIN asked'[d]
         /\ Stopper(d, j) => Stopper(d, j)'
<1>1. /\ Len(asked[d]) \in Nat /\ taken[d] \in Nat /\ DOMAIN asked[d] = 1..Len(asked[d])
  BY EndTyped
<1>2. asked'[d] \in Seq(Kinds) /\ taken'[d] \in Nat
  BY NothingForgotten DEF TypeOK
<1>3. Len(asked'[d]) \in Nat /\ DOMAIN asked'[d] = 1..Len(asked'[d])
  BY <1>2
<1>4. j \in DOMAIN asked[d] => j \in DOMAIN asked'[d] /\ asked'[d][j] = asked[d][j]
  BY <1>1, <1>3, NothingForgotten
<1>5. j <= taken[d] => j <= taken'[d]
  BY <1>1, <1>2, NothingForgotten
<1>6. j \in cut[d] => j \in cut'[d]
  BY NothingForgotten
<1> QED BY <1>4, <1>5, <1>6 DEF Stopper, Disables

LEMMA ReasonsLast ==
  ASSUME TypeOK, TypeOK', EndInv, [Next]_vars, NEW c \in Clients, Reason(c)
  PROVE  Reason(c)'
<1>1. CASE stop \/ hung[c] \/ cut[c] # {}
  BY <1>1, NothingForgotten DEF Reason
<1>2. CASE Unhandled(c)
  <2>1. PICK i \in DOMAIN asked[c] : asked[c][i] = "unsupported"
    BY <1>2 DEF Unhandled
  <2>2. /\ asked'[c] \in Seq(Kinds) /\ Len(asked[c]) <= Len(asked'[c])
        /\ i \in 1..Len(asked[c]) /\ asked'[c][i] = "unsupported"
    BY <2>1, EndTyped, NothingForgotten
  <2>3. i \in DOMAIN asked'[c]
    BY <2>2, EndTyped
  <2> QED BY <2>2, <2>3 DEF Reason, Unhandled
<1>3. CASE SecondDisable(c)
  <2>1. PICK i \in DOMAIN asked[c], d \in Clients : \E j \in DOMAIN asked[d] :
          <<c, i>> # <<d, j>> /\ Disables(c, i) /\ (Disables(d, j) \/ j \in cut[d])
    BY <1>3 DEF SecondDisable
  <2>2. PICK j \in DOMAIN asked[d] :
          <<c, i>> # <<d, j>> /\ Disables(c, i) /\ (Disables(d, j) \/ j \in cut[d])
    BY <2>1
  <2>3. i \in Nat /\ j \in Nat
    BY EndTyped
  <2>4. Disables(c, i)' /\ i \in DOMAIN asked'[c] /\ Stopper(d, j)'
    BY <2>2, <2>3, StoppersLast DEF Stopper
  <2> QED BY <2>2, <2>4 DEF Reason, SecondDisable, Stopper
<1> QED BY <1>1, <1>2, <1>3 DEF Reason

(* A Disable, a text that is no request, or a part of one is on record     *)
(* when its thread has done with it, and it is another than the one that   *)
(* has set the flag.                                                       *)
DisablesNow(c) ==
  ReceiveGarbage(c) \/ ReceiveNoMore(c) \/ (Handle(c) /\ Asks(c) = "disable")

LEMMA DisableOnRecord ==
  ASSUME TypeOK, TypeOK', EndInv, [Next]_vars, NEW c \in Clients, DisablesNow(c)
  PROVE  /\ \E j \in Nat : Stopper(c, j)'
         /\ stopServing => Reason(c)'
<1>1. ASSUME NEW j \in Nat, j \in cut'[c], j \in 1..Len(asked[c])
      PROVE  Stopper(c, j)' /\ Reason(c)'
  <2>1. j \in DOMAIN asked'[c]
    BY <1>1, EndTyped, NothingForgotten
  <2> QED BY <1>1, <2>1 DEF Stopper, Reason
<1>2. ASSUME NEW i \in Nat, i \in DOMAIN asked'[c], Disables(c, i)',
             taken[c] < i \/ (pc[c] = "handle" /\ i = answering[c])
      PROVE  Stopper(c, i)' /\ (stopServing => Reason(c)')
  <2>1. Stopper(c, i)'
    BY <1>2 DEF Stopper
  <2>2. ASSUME stopServing PROVE SecondDisable(c)'
    <3>1. PICK d \in Clients, j \in Nat : Stopper(d, j) /\ Handled(d, j)
      BY <2>2 DEF EndInv, SetBySomeone
    <3>2. <<c, i>> # <<d, j>>
      <4>1. CASE d = c
        <5>1. j <= taken[c] /\ (pc[c] = "handle" => j # answering[c])
          BY <3>1, <4>1, EndTyped DEF Handled
        <5> QED BY <1>2, <5>1, EndTyped
      <4> QED BY <4>1
    <3>3. Stopper(d, j)'
      BY <3>1, StoppersLast
    <3> QED BY <1>2, <3>2, <3>3 DEF SecondDisable, Stopper
  <2> QED BY <2>1, <2>2 DEF Reason
<1>3. CASE ReceiveNoMore(c)
  <2>1. taken[c] \in cut[c]
    BY <1>3 DEF ReceiveNoMore, EndInv, ReadsOn
  <2>2. taken[c] \in cut'[c]
    BY <2>1, NothingForgotten
  <2>3. taken[c] \in Nat /\ taken[c] \in 1..Len(asked[c])
    BY <2>1, EndTyped DEF EndInv, ReadsOn
  <2> QED BY <1>1, <2>2, <2>3
<1>4. CASE Handle(c) /\ Asks(c) = "disable"
  <2>0. PICK i \in Nat : i = answering[c]
    BY EndTyped
  <2>1. pc[c] = "handle" /\ asked[c][i] = "disable" /\ i \in 1..taken[c]
    BY <1>4, <2>0 DEF Handle, Asks, EndInv, ReadsOn
  <2>2. i \in DOMAIN asked[c] /\ Disables(c, i)
    BY <2>1, EndTyped DEF EndInv, ReadsOn, Disables
  <2>3. i \in DOMAIN asked'[c] /\ Disables(c, i)'
    BY <2>2, StoppersLast
  <2> QED BY <1>2, <2>0, <2>1, <2>3
<1>5. CASE ReceiveGarbage(c)
  <2>1. PICK n \in 0..MaxRequests, part \in BOOLEAN :
          Read(c, n, part) /\ \A i \in Whole(c, n, part) : asked[c][i] = "garbage"
    BY <1>5 DEF ReceiveGarbage
  <2>2. n \in Nat /\ taken[c] \in Nat /\ taken[c] <= n /\ n <= Len(asked[c]) /\ taken'[c] = n
    <3>1. n \in Nat /\ taken[c] <= n /\ n <= Len(asked[c]) /\ taken' = [taken EXCEPT ![c] = n]
      BY <2>1, ReadTyped
    <3> QED BY <3>1 DEF TypeOK
  <2>3. asked'[c] \in Seq(Kinds) /\ DOMAIN asked'[c] = 1..Len(asked'[c])
        /\ Len(asked[c]) <= Len(asked'[c])
    BY NothingForgotten
  <2>4. CASE taken[c] + 1 \in Whole(c, n, part)
    <3>1. PICK i \in Nat : i = taken[c] + 1
      BY <2>2
    <3>2. i <= n /\ taken[c] < i /\ i \in 1..Len(asked[c])
      BY <2>2, <2>4, <3>1, EndTyped DEF Whole
    <3>3. asked'[c][i] = "garbage" /\ i \in DOMAIN asked'[c]
      BY <2>1, <2>3, <2>4, <3>1, <3>2, EndTyped, NothingForgotten
    <3>4. Disables(c, i)'
      BY <2>2, <3>2, <3>3 DEF Disables
    <3> QED BY <1>2, <3>2, <3>3, <3>4
  <2>5. CASE part
    <3>1. n \in cut'[c]
      <4>1. cut' = [cut EXCEPT ![c] = cut[c] \cup {n}]
        BY <2>1, <2>5 DEF Read
      <4> QED BY <4>1 DEF TypeOK
    <3>2. n > taken[c]
      <4>1. n > taken[c] + (IF rest[c] THEN 0 ELSE 1)
        BY <2>1, <2>5 DEF Read
      <4> QED BY <2>2, <4>1
    <3>3. n \in 1..Len(asked[c])
      BY <2>2, <3>2, EndTyped
    <3> QED BY <1>1, <2>2, <3>1, <3>3
  <2>6. CASE ~part /\ taken[c] + 1 \notin Whole(c, n, part)
    <3>1. n = taken[c]
      BY <2>2, <2>6 DEF Whole
    <3>2. rest[c]
      <4>1. rest[c] \/ n > taken[c]
        BY <2>1, <2>6, Zenon DEF Read
      <4> QED BY <2>2, <3>1, <4>1
    <3>3. taken[c] \in cut[c]
      BY <3>2 DEF EndInv, ReadsOn
    <3>4. taken[c] \in cut'[c] /\ taken[c] \in 1..Len(asked[c])
      BY <2>2, <3>3, EndTyped, NothingForgotten DEF EndInv, ReadsOn
    <3> QED BY <1>1, <2>2, <3>4
  <2> QED BY <2>4, <2>5, <2>6
<1> QED BY <1>3, <1>4, <1>5 DEF DisablesNow

(* Only a Disable sets the flag.                                           *)
LEMMA OnlyDisablesSet ==
  ASSUME [Next]_vars
  PROVE  \/ stopServing' => stopServing
         \/ \E c \in Clients : DisablesNow(c) /\ OnDisable(c) /\ ~stopServing
<1>1. \/ UNCHANGED stopServing \/ \E c \in Clients : OnEnable(c)
      \/ \E c \in Clients : DisablesNow(c) /\ OnDisable(c)
  BY ZenonT(60)
     DEF Next, vars, AcceptStep, AcceptEnds, Accept, AcceptNobody, PopEvent, Broadcast,
         ClientThread, Top, Lock, LockTimesOut, ReceiveHangUp, ReceiveNothing,
         ReceivePart, ReceiveNoMore, ReceiveTooMuch, ReceiveReady, ReceiveGarbage,
         ReceiveRequest, HandleFails, Handle, SendEvent, SendFails, RoundEnds, Connect,
         HangUp, Ask, Emit, Stop, OnOperation, DisablesNow
<1>2. ASSUME NEW c \in Clients, OnEnable(c) PROVE stopServing' => stopServing
  BY <1>2, Zenon DEF OnEnable
<1>3. ASSUME NEW c \in Clients, OnDisable(c), stopServing PROVE stopServing' => stopServing
  BY <1>3, Zenon
<1> QED BY <1>1, <1>2, <1>3, Zenon

(* A thread starts to read on, or to handle a request, in these two steps. *)
LEMMA NewLabels ==
  ASSUME TypeOK, [Next]_vars, NEW c \in Clients
  PROVE  \/ ReceivePart(c) \/ ReceiveRequest(c)
         \/ /\ answering'[c] = answering[c]
            /\ pc'[c] = pc[c] \/ pc'[c] \notin {"more", "handle"}
<1> SUFFICES ASSUME ~ReceivePart(c), ~ReceiveRequest(c)
             PROVE  /\ answering'[c] = answering[c]
                    /\ pc'[c] = pc[c] \/ pc'[c] \notin {"more", "handle"}
  OBVIOUS
<1> DEFINE Quiet == Labels \ {"more", "handle"}
<1> USE DEF Labels
<1>1. ASSUME NEW d \in Clients, ReceiveRequest(d) \/ ReceivePart(d)
      PROVE  answering'[c] = answering[c] /\ pc'[c] = pc[c]
  <2>1. d # c
    BY <1>1
  <2>2. /\ answering' = answering \/ \E i : answering' = [answering EXCEPT ![d] = i]
        /\ \E l : pc' = [pc EXCEPT ![d] = l]
    BY <1>1, Zenon DEF ReceiveRequest, ReceivePart, Go
  <2> QED BY <2>1, <2>2 DEF TypeOK
<1>2. \/ /\ UNCHANGED answering
         /\ pc' = pc \/ \E d \in Clients, l \in Quiet : pc' = [pc EXCEPT ![d] = l]
      \/ \E d \in Clients : ReceiveRequest(d) \/ ReceivePart(d)
  <2>0. "top" \in Quiet /\ "lock" \in Quiet /\ "receive" \in Quiet
        /\ "drain" \in Quiet /\ "ended" \in Quiet
    OBVIOUS
  <2> HIDE DEF Quiet
  <2>1. ASSUME NEW d \in Clients, ClientThread(d), ~ReceiveRequest(d), ~ReceivePart(d)
        PROVE  UNCHANGED answering
               /\ (pc' = pc \/ \E l \in Quiet : pc' = [pc EXCEPT ![d] = l])
    <3>1. UNCHANGED answering
      BY <2>1, Zenon
         DEF ClientThread, Top, Lock, LockTimesOut, ReceiveHangUp, ReceiveNothing,
             ReceiveNoMore, ReceiveTooMuch, ReceiveReady, ReceiveGarbage, HandleFails,
             Handle, SendEvent, SendFails, RoundEnds
    <3>2. pc' = pc \/ \E l \in Quiet : pc' = [pc EXCEPT ![d] = l]
      BY <2>0, <2>1, Zenon
         DEF ClientThread, Top, Lock, LockTimesOut, ReceiveHangUp, ReceiveNothing,
             ReceiveNoMore, ReceiveTooMuch, ReceiveReady, ReceiveGarbage, HandleFails,
             Handle, SendEvent, SendFails, RoundEnds, Close, OnDisable, OnEnable,
             OnOperation, Go
    <3> QED BY <3>1, <3>2
  <2>2. CASE \A d \in Clients : ~ClientThread(d)
    BY <2>0, <2>2, Zenon
       DEF Next, vars, AcceptStep, AcceptEnds, Accept, AcceptNobody, PopEvent, Broadcast,
           Connect, HangUp, Ask, Emit, Stop, Go
  <2> QED BY <2>1, <2>2, Zenon
<1> QED BY <1>1, <1>2 DEF TypeOK

LEMMA ReadsOnLasts ==
  ASSUME TypeOK, EndInv, [Next]_vars, NEW c \in Clients
  PROVE  ReadsOn(c)'
<1>0. /\ taken[c] \in Nat /\ cut[c] \subseteq 1..taken[c] /\ taken[c] <= Len(asked[c])
      /\ rest[c] \/ pc[c] = "more" => taken[c] \in cut[c]
      /\ pc[c] = "handle" => answering[c] \in 1..taken[c]
      /\ Len(asked[c]) \in Nat /\ Len(asked'[c]) \in Nat /\ Len(asked[c]) <= Len(asked'[c])
  <2>1. asked'[c] \in Seq(Kinds) /\ Len(asked[c]) <= Len(asked'[c])
    BY NothingForgotten
  <2> QED BY <2>1, EndTyped DEF EndInv, ReadsOn
<1>1. CASE ReceivePart(c)
  <2>1. pc'[c] = "more"
    BY <1>1 DEF ReceivePart, Go, TypeOK
  <2>2. /\ taken'[c] \in Nat /\ taken'[c] <= Len(asked[c])
        /\ taken'[c] \in cut'[c] /\ cut'[c] \subseteq 1..taken'[c]
    <3>1. CASE rest[c] /\ UNCHANGED <<taken, rest, cut>>
      BY <1>0, <3>1
    <3>2. CASE /\ taken[c] < Len(asked[c]) /\ taken' = [taken EXCEPT ![c] = @ + 1]
               /\ cut' = [cut EXCEPT ![c] = @ \cup {taken[c] + 1}]
      <4>1. taken'[c] = taken[c] + 1 /\ cut'[c] = cut[c] \cup {taken[c] + 1}
        BY <3>2 DEF TypeOK
      <4> QED BY <1>0, <3>2, <4>1
    <3> QED BY <1>1, <3>1, <3>2 DEF ReceivePart
  <2> QED BY <1>0, <2>1, <2>2 DEF ReadsOn
<1>2. ASSUME NEW n \in 0..MaxRequests, NEW part \in BOOLEAN, Read(c, n, part)
      PROVE  /\ taken'[c] = n /\ n \in Nat /\ taken[c] <= n /\ n <= Len(asked[c])
             /\ cut'[c] \subseteq 1..n /\ (rest'[c] => n \in cut'[c])
  <2>1. n \in Nat /\ taken[c] <= n /\ n <= Len(asked[c]) /\ taken' = [taken EXCEPT ![c] = n]
    BY <1>2, ReadTyped
  <2>2. rest'[c] = part
    BY <1>2, Zenon DEF Read, TypeOK
  <2>3. cut'[c] = IF part THEN cut[c] \cup {n} ELSE cut[c]
    BY <1>2, Zenon DEF Read, TypeOK
  <2>4. CASE part
    <3>1. n > taken[c]
      <4>1. n > taken[c] + (IF rest[c] THEN 0 ELSE 1)
        BY <1>2, <2>4 DEF Read
      <4> QED BY <1>0, <2>1, <4>1
    <3>2. cut'[c] = cut[c] \cup {n}
      BY <2>3, <2>4
    <3>3. taken'[c] = n
      BY <2>1 DEF TypeOK
    <3>4. cut'[c] \subseteq 1..n /\ n \in cut'[c]
      BY <1>0, <2>1, <3>1, <3>2
    <3> QED BY <2>1, <3>3, <3>4
  <2>5. CASE ~part
    <3>1. cut'[c] = cut[c] /\ ~rest'[c]
      BY <2>2, <2>3, <2>5, Zenon
    <3>2. taken'[c] = n
      BY <2>1 DEF TypeOK
    <3>3. cut'[c] \subseteq 1..n
      BY <1>0, <2>1, <3>1
    <3> QED BY <2>1, <3>1, <3>2, <3>3, Zenon
  <2> QED BY <2>4, <2>5
<1>3. CASE ReceiveReady(c) \/ ReceiveGarbage(c)
  <2>1. PICK n \in 0..MaxRequests, part \in BOOLEAN : Read(c, n, part)
    BY <1>3 DEF ReceiveReady, ReceiveGarbage
  <2>2. \E label \in {"top", "drain", "ended"} : pc' = [pc EXCEPT ![c] = label]
    BY <1>3 DEF ReceiveReady, ReceiveGarbage, OnDisable, OnEnable, Close, Go
  <2>3. pc'[c] \notin {"more", "handle"}
    BY <2>2 DEF TypeOK
  <2> QED BY <1>0, <1>2, <2>1, <2>3 DEF ReadsOn
<1>4. CASE ReceiveRequest(c)
  <2>1. PICK n \in 1..MaxRequests, i \in 1..MaxRequests, part \in BOOLEAN :
          First(c, n, part, i) /\ answering' = [answering EXCEPT ![c] = i]
    BY <1>4, Zenon DEF ReceiveRequest
  <2>2. n \in 0..MaxRequests /\ Read(c, n, part)
    BY <2>1 DEF First
  <2>3. answering'[c] = i /\ i \in 1..n
    <3>1. i \in taken[c] + 1..(IF part THEN n - 1 ELSE n)
      BY <2>1 DEF First, Whole
    <3> QED BY <1>0, <2>1, <3>1 DEF TypeOK
  <2>4. pc'[c] = "handle"
    BY <1>4 DEF ReceiveRequest, Go, TypeOK
  <2> QED BY <1>0, <1>2, <2>2, <2>3, <2>4 DEF ReadsOn
<1>5. CASE ~Reads(c)
  <2>1. taken'[c] = taken[c] /\ rest'[c] = rest[c] /\ cut'[c] = cut[c]
    BY <1>5, ReadersRead, ReadGrows, Zenon
  <2>2. answering'[c] = answering[c] /\ (pc'[c] = pc[c] \/ pc'[c] \notin {"more", "handle"})
    BY <1>5, NewLabels DEF Reads
  <2>3. taken'[c] <= Len(asked'[c])
    BY <1>0, <2>1
  <2> QED BY <1>0, <2>1, <2>2, <2>3, Zenon DEF ReadsOn
<1> QED BY <1>1, <1>3, <1>4, <1>5 DEF Reads

(* Who has set the flag is still on record.                                *)
LEMMA SetBySomeoneLasts ==
  ASSUME TypeOK, TypeOK', EndInv, [Next]_vars
  PROVE  SetBySomeone'
<1>1. CASE stopServing /\ stopServing'
  <2>1. PICK d \in Clients, j \in Nat : Stopper(d, j) /\ Handled(d, j)
    BY <1>1 DEF EndInv, SetBySomeone
  <2>2. Stopper(d, j)'
    BY <2>1, StoppersLast
  <2>3. Handled(d, j)'
    <3>1. CASE ReceiveRequest(d)
      <4>1. PICK n \in 1..MaxRequests, i \in 1..MaxRequests, part \in BOOLEAN :
              First(d, n, part, i) /\ answering' = [answering EXCEPT ![d] = i]
        BY <3>1, Zenon DEF ReceiveRequest
      <4>2. i \in taken[d] + 1..(IF part THEN n - 1 ELSE n)
        BY <4>1 DEF First, Whole
      <4>3. answering'[d] = i /\ taken[d] \in Nat /\ j <= taken[d]
        BY <2>1, <4>1, EndTyped DEF TypeOK
      <4> QED BY <4>2, <4>3 DEF Handled
    <3>2. CASE ReceivePart(d)
      <4>1. pc'[d] = "more"
        BY <3>2 DEF ReceivePart, Go, TypeOK
      <4> QED BY <4>1 DEF Handled
    <3> QED BY <2>1, <3>1, <3>2, NewLabels DEF Handled
  <2> QED BY <2>2, <2>3 DEF SetBySomeone
<1>2. ASSUME NEW c \in Clients, DisablesNow(c), OnDisable(c), ~stopServing
      PROVE  SetBySomeone'
  <2>1. PICK j \in Nat : Stopper(c, j)'
    BY <1>2, DisableOnRecord
  <2>2. pc'[c] = "top"
    BY <1>2 DEF OnDisable, Go, TypeOK
  <2> QED BY <2>1, <2>2 DEF SetBySomeone, Handled
<1>3. CASE ~stopServing'
  BY <1>3, Zenon DEF SetBySomeone
<1> QED BY <1>1, <1>2, <1>3, OnlyDisablesSet, Zenon

LEMMA EndsForAReason ==
  ASSUME ~Failures, TypeOK, TypeOK', EndInv, [Next]_vars, NEW c \in Clients,
         pc[c] # "ended", pc'[c] = "ended"
  PROVE  Reason(c)'
<1>1. \A d \in Clients : \A l : pc' = [pc EXCEPT ![d] = l] => d = c /\ l = "ended"
  BY DEF TypeOK
<1>2. ClientThread(c)
  <2>1. pc' # pc
    OBVIOUS
  <2>2. ASSUME NEW d \in Clients, ClientThread(d) PROVE d = c
    <3>1. pc' = pc \/ \E l : pc' = [pc EXCEPT ![d] = l]
      BY <2>2, Zenon
         DEF ClientThread, Top, Lock, LockTimesOut, ReceiveHangUp, ReceiveNothing,
             ReceivePart, ReceiveNoMore, ReceiveTooMuch, ReceiveReady, ReceiveGarbage,
             ReceiveRequest, HandleFails, Handle, SendEvent, SendFails, RoundEnds, Close,
             OnDisable, OnEnable, OnOperation, Go
    <3> QED BY <2>1, <3>1, <1>1
  <2>3. ASSUME NEW d \in Clients PROVE ~Accept(d) /\ ~Connect(d) /\ ~HangUp(d)
    BY <1>1, <2>1 DEF Accept, Connect, HangUp, Go
  <2>4. ~AcceptEnds /\ ~AcceptNobody /\ ~PopEvent /\ ~Broadcast /\ ~Emit /\ ~Stop
    BY <2>1 DEF AcceptEnds, AcceptNobody, PopEvent, Broadcast, Emit, Stop
  <2>5. ASSUME NEW d \in Clients, NEW kind \in Kinds PROVE ~Ask(d, kind)
    BY <2>1 DEF Ask
  <2> QED BY <2>1, <2>2, <2>3, <2>4, <2>5, Zenon DEF Next, AcceptStep, vars
<1>3. ASSUME Reason(c) PROVE Reason(c)'
  BY <1>3, ReasonsLast
<1>4. CASE Top(c)
  BY <1>1, <1>3, <1>4 DEF Top, Go, Reason
<1>5. CASE ReceiveHangUp(c) \/ SendFails(c)
  BY <1>3, <1>5 DEF ReceiveHangUp, SendFails, Reason
<1>6. CASE ReceiveTooMuch(c)
  BY <1>3, <1>6 DEF ReceiveTooMuch, EndInv, ReadsOn, Reason
<1>7. CASE HandleFails(c)
  <2>1. pc[c] = "handle" /\ (hung[c] \/ asked[c][answering[c]] = "unsupported")
    BY <1>7 DEF HandleFails, Asks
  <2>2. answering[c] \in DOMAIN asked[c]
    BY <2>1, EndTyped DEF EndInv, ReadsOn
  <2> QED BY <1>3, <2>1, <2>2 DEF Reason, Unhandled
<1>8. CASE DisablesNow(c)
  <2>1. ~OnEnable(c)
    BY <1>1 DEF OnEnable, Go
  <2>2. OnDisable(c)
    BY <1>8, <2>1, Zenon DEF DisablesNow, ReceiveGarbage, ReceiveNoMore, Handle, Asks
  <2>3. stopServing
    BY <1>1, <2>2 DEF OnDisable, Go
  <2> QED BY <1>8, <2>3, DisableOnRecord
<1>9. CASE Handle(c)
  <2>1. ~OnEnable(c) /\ ~OnOperation(c)
    BY <1>1 DEF OnEnable, OnOperation, Go
  <2> QED BY <1>8, <1>9, <2>1 DEF Handle, DisablesNow
<1>10. /\ ~Lock(c) /\ ~LockTimesOut(c) /\ ~ReceiveNothing(c) /\ ~ReceivePart(c)
       /\ ~ReceiveReady(c) /\ ~ReceiveRequest(c) /\ ~SendEvent(c) /\ ~RoundEnds(c)
  <2>1. /\ pc' # pc /\ pc' # [pc EXCEPT ![c] = "top"]
        /\ pc' # [pc EXCEPT ![c] = "receive"] /\ pc' # [pc EXCEPT ![c] = "more"]
        /\ pc' # [pc EXCEPT ![c] = "handle"] /\ pc' # [pc EXCEPT ![c] = "drain"]
    BY <1>1
  <2> QED BY <2>1, Zenon
          DEF Lock, LockTimesOut, ReceiveNothing, ReceivePart, ReceiveReady,
              ReceiveRequest, SendEvent, RoundEnds, OnEnable, Go
<1> QED BY <1>2, <1>4, <1>5, <1>6, <1>7, <1>8, <1>9, <1>10
        DEF ClientThread, DisablesNow

(* While nothing fails and the server runs, one Disable never closes a     *)
(* connection: a client that has not hung up loses it only by a request    *)
(* without handler, by one that was read in parts, or by its own Disable   *)
(* after another, of whichever client (server.rs:246-277).                 *)
THEOREM ClosedCorrect == Spec => []ClosedForAReason
<1>1. CASE Failures
  BY <1>1, PTL DEF ClosedForAReason
<1>2. CASE ~Failures
  <2>1. Init => EndInv
    <3> SUFFICES ASSUME Init PROVE EndInv
      OBVIOUS
    <3>1. SetBySomeone
      BY Zenon DEF Init, SetBySomeone
    <3>2. ASSUME NEW c \in Clients PROVE ReadsOn(c) /\ (pc[c] = "ended" => Reason(c))
      <4>1. ~rest[c]
        BY Zenon DEF Init
      <4> QED BY <4>1 DEF Init, ReadsOn
    <3> QED BY <3>1, <3>2 DEF EndInv
  <2>2. TypeOK /\ TypeOK' /\ EndInv /\ [Next]_vars => EndInv'
    <3> SUFFICES ASSUME TypeOK, TypeOK', EndInv, [Next]_vars PROVE EndInv'
      OBVIOUS
    <3>1. ASSUME NEW c \in Clients, pc'[c] = "ended" PROVE Reason(c)'
      BY <1>2, <3>1, EndsForAReason, ReasonsLast DEF EndInv
    <3> QED BY <3>1, SetBySomeoneLasts, ReadsOnLasts DEF EndInv
  <2>3. EndInv => ClosedForAReason
    BY DEF EndInv, Reason, ClosedForAReason
  <2> QED BY <2>1, <2>2, <2>3, Typed, PTL DEF Spec
<1> QED BY <1>1, <1>2
=============================================================================
