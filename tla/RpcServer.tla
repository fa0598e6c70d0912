------------------------------ MODULE RpcServer ------------------------------
(***************************************************************************)
(* The JSON-RPC server (src/server.rs 16-32, 141-158, 221-320) and the     *)
(* handler it calls, on_message (src/device_handle.rs 611-678): the accept *)
(* loop, which takes connections and passes events from the push queue to  *)
(* the bus, and a thread per client, which handles one read of requests    *)
(* and then sends the client what is on the bus, round after round.  The   *)
(* threads share the handle, behind a Mutex that is tried for 5 s, the     *)
(* JSON-RPC id, and the flag STOP_SERVING_CLIENT.                          *)
(*                                                                         *)
(* Events are numbered in the order in which the poller pushes them,       *)
(* requests in the order in which their client sends them.  What an        *)
(* operation does to the device is InteractivePolling's.                   *)
(***************************************************************************)
EXTENDS Integers, Sequences, FiniteSets

CONSTANTS
  Clients,          \* programs that connect to the socket
  Nobody,           \* the owner of a free handle
  Kinds,            \* the requests that clients send
  Pipelining,       \* a client sends requests before it has the last answer
  Parts,            \* a read may end within a request (1024 bytes at most)
  Failures,         \* operations and writes may fail
  BusSize,          \* events the bus keeps for a slow receiver (1024)
  MaxRequests,      \* bound: requests of a client
  MaxEvents         \* bound: events the poller pushes

(* "op": answered (Accept, Stop, Reject, Stack, Status, Reset, Dispense);  *)
(* "enable", "disable": answered, and their Method steers the thread;      *)
(* "ready": any text with this word; "unsupported": a Method without       *)
(* handler, StackerFull included; "garbage": text that is no request.      *)
(* Texts are ASCII.                                                        *)
AllKinds == {"op", "enable", "disable", "ready", "unsupported", "garbage"}

ASSUME ClientAssumption == Nobody \notin Clients
ASSUME KindAssumption ==
  /\ Kinds \subseteq AllKinds
  /\ Pipelining \in BOOLEAN /\ Parts \in BOOLEAN /\ Failures \in BOOLEAN
ASSUME BoundAssumption ==
  BusSize \in Nat \ {0} /\ MaxRequests \in Nat /\ MaxEvents \in Nat

VARIABLES
  stop,             \* the flag given to accept, which also stops the poller
  acc,              \* where the accept loop is
  made, cast,       \* events pushed by the poller, and broadcast
  conn,             \* the connection of each client
  hung,             \* the client has closed its end
  pc,               \* where the thread of each client is
  handle,           \* owner of the handle's mutex
  stopServing,      \* STOP_SERVING_CLIENT
  jsonrpcId,        \* the id of the request being handled, client and number
  asked,            \* the requests each client has sent
  taken,            \* how many of them its thread has begun to read
  rest,             \* the end of the last of them has not been read yet
  cut,              \* history: the requests in which a read has ended
  answering,        \* the number of the request its thread handles
  replies,          \* the ids of the answers sent to each client
  joined,           \* events broadcast before the client's receiver was added
  rx,               \* what the bus keeps for each client's receiver
  got               \* the events sent to each client

requests == <<conn, hung, asked>>
answers  == <<jsonrpcId, taken, rest, cut, answering, replies>>
events   == <<acc, made, cast, joined>>
streams  == <<rx, got>>
vars == <<stop, acc, made, cast, conn, hung, pc, handle, stopServing,
          jsonrpcId, asked, taken, rest, cut, answering, replies, joined, rx, got>>

AccLabels == {"top", "drain", "broadcast", "done"}
Labels == {"none", "top", "lock", "receive", "more", "handle", "drain", "ended"}
HoldsHandle == {"receive", "more", "handle", "drain"}

Serving(c) == pc[c] \notin {"none", "ended"}
Go(c, label) == pc' = [pc EXCEPT ![c] = label]

-----------------------------------------------------------------------------
(* The accept loop                                                         *)

AcceptEnds ==
  /\ acc = "top" /\ stop
  /\ acc' = "done"
  /\ UNCHANGED <<stop, made, cast, requests, pc, handle, stopServing,
                 answers, joined, streams>>

(* A connection: its receiver is added to the bus, its thread spawned.     *)
Accept(c) ==
  /\ acc = "top" /\ ~stop /\ conn[c] = "waiting"
  /\ conn' = [conn EXCEPT ![c] = "open"]
  /\ joined' = [joined EXCEPT ![c] = cast]
  /\ Go(c, "top")
  /\ acc' = "drain"
  /\ UNCHANGED <<stop, made, cast, hung, asked, handle, stopServing,
                 answers, streams>>

AcceptNobody ==
  /\ acc = "top" /\ ~stop /\ \A c \in Clients : conn[c] # "waiting"
  /\ acc' = "drain"
  /\ UNCHANGED <<stop, made, cast, requests, pc, handle, stopServing,
                 answers, joined, streams>>

(* while let Ok(msg) = pop_event(): a timeout of 50 ms ends the loop.      *)
PopEvent ==
  /\ acc = "drain"
  /\ acc' = IF cast < made THEN "broadcast" ELSE "top"
  /\ UNCHANGED <<stop, made, cast, requests, pc, handle, stopServing, answers,
                 joined, streams>>

(* Mutant: a receiver that is full misses the event.                       *)
BroadcastLossy ==
  /\ acc = "broadcast"
  /\ cast' = cast + 1
  /\ rx' = [c \in Clients |-> IF Serving(c) /\ Len(rx[c]) < BusSize
                              THEN Append(rx[c], cast + 1) ELSE rx[c]]
  /\ acc' = "drain"
  /\ UNCHANGED <<stop, made, requests, pc, handle, stopServing, answers,
                 joined, got>>

(* broadcast blocks while a receiver is BusSize events behind.             *)
Broadcast ==
  /\ acc = "broadcast"
  /\ \A c \in Clients : Serving(c) => Len(rx[c]) < BusSize
  /\ cast' = cast + 1
  /\ rx' = [c \in Clients |-> IF Serving(c) THEN Append(rx[c], cast + 1) ELSE rx[c]]
  /\ acc' = "drain"
  /\ UNCHANGED <<stop, made, requests, pc, handle, stopServing, answers,
                 joined, got>>

AcceptStep ==
  AcceptEnds \/ (\E c \in Clients : Accept(c)) \/ AcceptNobody \/ PopEvent \/ Broadcast

-----------------------------------------------------------------------------
(* The thread of a client                                                  *)

(* Mutant: the thread looks at the flag when it has served its client.     *)
TopServesOn(c) ==
  /\ pc[c] = "top"
  /\ IF stop /\ rx[c] = <<>> /\ taken[c] # 0
     THEN Go(c, "ended") /\ rx' = [rx EXCEPT ![c] = <<>>]
                         /\ conn' = [conn EXCEPT ![c] = "closed"]
     ELSE Go(c, "lock") /\ UNCHANGED <<rx, conn>>
  /\ UNCHANGED <<stop, events, hung, asked, handle, stopServing, answers, got>>

(* while !stop_stream; when the thread ends its receiver and its stream    *)
(* are dropped.                                                            *)
Top(c) ==
  /\ pc[c] = "top"
  /\ IF stop THEN Go(c, "ended") /\ rx' = [rx EXCEPT ![c] = <<>>]
                                 /\ conn' = [conn EXCEPT ![c] = "closed"]
     ELSE Go(c, "lock") /\ UNCHANGED <<rx, conn>>
  /\ UNCHANGED <<stop, events, hung, asked, handle, stopServing, answers, got>>

Lock(c) ==
  /\ pc[c] = "lock" /\ handle = Nobody
  /\ handle' = c
  /\ Go(c, "receive")
  /\ UNCHANGED <<stop, events, requests, stopServing, answers, streams>>

(* 5 s behind an operation of another client: the round starts again.      *)
LockTimesOut(c) ==
  /\ pc[c] = "lock" /\ handle # Nobody
  /\ Go(c, "top")
  /\ UNCHANGED <<stop, events, requests, handle, stopServing, answers, streams>>

(* The thread returns: the guard, the receiver and the stream are dropped. *)
Close(c) ==
  /\ Go(c, "ended")
  /\ handle' = Nobody
  /\ conn' = [conn EXCEPT ![c] = "closed"]
  /\ rx' = [rx EXCEPT ![c] = <<>>]
  /\ UNCHANGED <<hung, asked, got>>

(* Method::Disable: the first sets the flag and goes round the loop, past  *)
(* the bus; the next one, of whichever client, has its stream shut.        *)
OnDisable(c) ==
  IF stopServing THEN Close(c) /\ stopServing' = FALSE
  ELSE /\ stopServing' = TRUE
       /\ handle' = Nobody /\ Go(c, "top")
       /\ UNCHANGED <<requests, streams>>

(* Method::Enable resets the flag; then the bus.                           *)
OnEnable(c) ==
  /\ stopServing' = FALSE
  /\ Go(c, "drain")
  /\ UNCHANGED <<handle, requests, streams>>

(* Every other Method goes on to the bus.                                  *)
OnOperation(c) ==
  /\ Go(c, "drain")
  /\ UNCHANGED <<handle, stopServing, requests, streams>>

(* read() == 0: the client hung up and everything it sent has been read.   *)
ReceiveHangUp(c) ==
  /\ pc[c] \in {"receive", "more"} /\ hung[c] /\ taken[c] = Len(asked[c])
  /\ Close(c)
  /\ UNCHANGED <<stop, events, stopServing, answers>>

(* The read would block: all is read but the end, perhaps, of a request    *)
(* that the client is still writing.                                       *)
NothingToRead(c) == ~hung[c] /\ taken[c] = Len(asked[c])

(* Mutant: nothing to read is taken for a client that wants to stop.       *)
ReceiveNothingDisables(c) ==
  /\ pc[c] = "receive" /\ NothingToRead(c)
  /\ OnDisable(c)
  /\ UNCHANGED <<stop, events, answers>>

(* Mutant: a round without a request passes by the bus.                    *)
ReceiveNothingSkipsBus(c) ==
  /\ pc[c] = "receive" /\ NothingToRead(c)
  /\ stopServing' = FALSE
  /\ handle' = Nobody /\ Go(c, "top")
  /\ UNCHANGED <<stop, events, answers, requests, streams>>

(* Mutant: a round without a request leaves the flag alone.                *)
ReceiveNothingKeepsFlag(c) ==
  /\ pc[c] = "receive" /\ NothingToRead(c)
  /\ OnOperation(c)
  /\ UNCHANGED <<stop, events, answers>>

(* Nothing to read counts as Method::Enable.                               *)
ReceiveNothing(c) ==
  /\ pc[c] = "receive" /\ NothingToRead(c)
  /\ OnEnable(c)
  /\ UNCHANGED <<stop, events, answers>>

(* A read without the end of a line, in the middle of a request: the loop  *)
(* reads on.                                                               *)
ReceivePart(c) ==
  /\ Parts /\ pc[c] = "receive"
  /\ \/ rest[c] /\ UNCHANGED <<taken, rest, cut>>
     \/ /\ ~rest[c] /\ taken[c] < Len(asked[c])
        /\ taken' = [taken EXCEPT ![c] = @ + 1]
        /\ rest' = [rest EXCEPT ![c] = TRUE]
        /\ cut' = [cut EXCEPT ![c] = @ \cup {taken[c] + 1}]
  /\ Go(c, "more")
  /\ UNCHANGED <<stop, events, requests, handle, stopServing, jsonrpcId,
                 answering, replies, streams>>

(* The read after it would block: a part is no request, but may hold the   *)
(* word "ready".                                                           *)
ReceiveNoMore(c) ==
  /\ pc[c] = "more" /\ NothingToRead(c)
  /\ OnDisable(c) \/ (asked[c][taken[c]] = "ready" /\ OnEnable(c))
  /\ UNCHANGED <<stop, events, answers>>

(* The parts are longer than the buffer, which grows too late: the slice   *)
(* panics and the thread unwinds.                                          *)
ReceiveTooMuch(c) ==
  /\ pc[c] = "more"
  /\ Close(c)
  /\ UNCHANGED <<stop, events, stopServing, answers>>

(* A read with the end of a line: what is left of a request begun before,  *)
(* requests up to n, and maybe of the last of them only a part.            *)
Read(c, n, part) ==
  /\ pc[c] \in {"receive", "more"}
  /\ n \in taken[c]..Len(asked[c])
  /\ IF part THEN Parts /\ n > taken[c] + (IF rest[c] THEN 0 ELSE 1)
     ELSE rest[c] \/ n > taken[c]
  /\ taken' = [taken EXCEPT ![c] = n]
  /\ rest' = [rest EXCEPT ![c] = part]
  /\ cut' = [cut EXCEPT ![c] = IF part THEN @ \cup {n} ELSE @]

Whole(c, n, part) == taken[c] + 1..(IF part THEN n - 1 ELSE n)
Pieces(c, n, part) ==
  {i \in {taken[c], n} : (i = taken[c] /\ rest[c]) \/ (i = n /\ part)}
Among(c, numbers, kind) == \E i \in numbers : asked[c][i] = kind

ReceiveReady(c) ==
  /\ \E n \in 0..MaxRequests, part \in BOOLEAN :
       /\ Read(c, n, part)
       /\ Among(c, Whole(c, n, part) \cup Pieces(c, n, part), "ready")
  /\ OnEnable(c)
  /\ UNCHANGED <<stop, events, jsonrpcId, answering, replies>>

(* Not one request among what was read: Method::Disable without an action. *)
ReceiveGarbage(c) ==
  /\ \E n \in 0..MaxRequests, part \in BOOLEAN :
       /\ Read(c, n, part)
       /\ \A i \in Whole(c, n, part) : asked[c][i] = "garbage"
  /\ OnDisable(c)
  /\ UNCHANGED <<stop, events, jsonrpcId, answering, replies>>

(* The first request of what was read, of which the rest is dropped.       *)
First(c, n, part, i) ==
  /\ Read(c, n, part) /\ ~Among(c, Whole(c, n, part), "ready")
  /\ i \in Whole(c, n, part) /\ asked[c][i] # "garbage"
  /\ \A j \in taken[c] + 1..i - 1 : asked[c][j] = "garbage"

(* Mutant: the guard is dropped when the request has been read.            *)
ReceiveUnlocks(c) ==
  /\ \E n, i \in 1..MaxRequests, part \in BOOLEAN :
       /\ First(c, n, part, i)
       /\ answering' = [answering EXCEPT ![c] = i]
       /\ jsonrpcId' = <<c, i>>
  /\ Go(c, "handle")
  /\ handle' = Nobody
  /\ UNCHANGED <<stop, events, requests, stopServing, replies, streams>>

ReceiveRequest(c) ==
  /\ \E n, i \in 1..MaxRequests, part \in BOOLEAN :
       /\ First(c, n, part, i)
       /\ answering' = [answering EXCEPT ![c] = i]
       /\ jsonrpcId' = <<c, i>>
  /\ Go(c, "handle")
  /\ UNCHANGED <<stop, events, requests, handle, stopServing, replies, streams>>

Asks(c) == asked[c][answering[c]]

(* An Err of the operation or of the write, or a method without handler.   *)
HandleFails(c) ==
  /\ pc[c] = "handle"
  /\ Failures \/ hung[c] \/ Asks(c) = "unsupported"
  /\ Close(c)
  /\ UNCHANGED <<stop, events, stopServing, answers>>

(* The operation, the answer, which carries the global id, and the match   *)
(* on the Method.                                                          *)
Handle(c) ==
  /\ pc[c] = "handle"
  /\ replies' = [replies EXCEPT ![c] = Append(@, jsonrpcId)]
  /\ \/ Asks(c) = "disable" /\ OnDisable(c)
     \/ Asks(c) = "enable" /\ OnEnable(c)
     \/ Asks(c) = "op" /\ OnOperation(c)
  /\ UNCHANGED <<stop, events, jsonrpcId, taken, rest, cut, answering>>

(* while let Ok(msg) = rx.try_recv() { send }                              *)
SendEvent(c) ==
  /\ pc[c] = "drain" /\ rx[c] # <<>>
  /\ got' = [got EXCEPT ![c] = Append(@, Head(rx[c]))]
  /\ rx' = [rx EXCEPT ![c] = Tail(@)]
  /\ UNCHANGED <<stop, events, requests, pc, handle, stopServing, answers>>

(* The ? of a write that fails ends the thread.                            *)
SendFails(c) ==
  /\ pc[c] = "drain" /\ rx[c] # <<>>
  /\ Failures \/ hung[c]
  /\ Close(c)
  /\ UNCHANGED <<stop, events, stopServing, answers>>

(* Mutant: the guard outlives the round.                                   *)
RoundKeepsHandle(c) ==
  /\ pc[c] = "drain" /\ rx[c] = <<>>
  /\ Go(c, "top")
  /\ UNCHANGED <<stop, events, requests, handle, stopServing, answers, streams>>

RoundEnds(c) ==
  /\ pc[c] = "drain" /\ rx[c] = <<>>
  /\ handle' = Nobody
  /\ Go(c, "top")
  /\ UNCHANGED <<stop, events, requests, stopServing, answers, streams>>

ClientThread(c) ==
  \/ Top(c) \/ Lock(c) \/ LockTimesOut(c)
  \/ ReceiveHangUp(c) \/ ReceiveNothing(c)
  \/ ReceivePart(c) \/ ReceiveNoMore(c) \/ ReceiveTooMuch(c)
  \/ ReceiveReady(c) \/ ReceiveGarbage(c) \/ ReceiveRequest(c)
  \/ HandleFails(c) \/ Handle(c)
  \/ SendEvent(c) \/ SendFails(c) \/ RoundEnds(c)

-----------------------------------------------------------------------------
(* The clients, the poller and the signal handler                          *)

Connect(c) ==
  /\ conn[c] = "out"
  /\ conn' = [conn EXCEPT ![c] = "waiting"]
  /\ UNCHANGED <<stop, events, hung, asked, pc, handle, stopServing, answers, streams>>

Ask(c, kind) ==
  /\ conn[c] = "open" /\ ~hung[c] /\ Len(asked[c]) < MaxRequests
  /\ Pipelining \/ Len(replies[c]) = Len(asked[c])
  /\ asked' = [asked EXCEPT ![c] = Append(@, kind)]
  /\ UNCHANGED <<stop, events, conn, hung, pc, handle, stopServing, answers, streams>>

HangUp(c) ==
  /\ conn[c] = "open" /\ ~hung[c]
  /\ hung' = [hung EXCEPT ![c] = TRUE]
  /\ UNCHANGED <<stop, events, conn, asked, pc, handle, stopServing, answers, streams>>

(* The poller pushes an event; the same flag stops it.                     *)
Emit ==
  /\ ~stop /\ made < MaxEvents
  /\ made' = made + 1
  /\ UNCHANGED <<stop, acc, cast, requests, pc, handle, stopServing,
                 answers, joined, streams>>

Stop ==
  /\ ~stop /\ stop' = TRUE
  /\ UNCHANGED <<events, requests, pc, handle, stopServing, answers, streams>>

-----------------------------------------------------------------------------
Init ==
  /\ stop = FALSE /\ acc = "top"
  /\ made = 0 /\ cast = 0
  /\ conn = [c \in Clients |-> "out"] /\ hung = [c \in Clients |-> FALSE]
  /\ pc = [c \in Clients |-> "none"]
  /\ handle = Nobody /\ stopServing = FALSE
  /\ jsonrpcId = <<Nobody, 0>>
  /\ asked = [c \in Clients |-> <<>>]
  /\ taken = [c \in Clients |-> 0] /\ answering = [c \in Clients |-> 0]
  /\ rest = [c \in Clients |-> FALSE] /\ cut = [c \in Clients |-> {}]
  /\ replies = [c \in Clients |-> <<>>]
  /\ joined = [c \in Clients |-> 0]
  /\ rx = [c \in Clients |-> <<>>] /\ got = [c \in Clients |-> <<>>]

Next ==
  \/ AcceptStep
  \/ \E c \in Clients : ClientThread(c) \/ Connect(c) \/ HangUp(c)
  \/ \E c \in Clients, kind \in Kinds : Ask(c, kind)
  \/ Emit \/ Stop

Spec == Init /\ [][Next]_vars

(* The scheduler runs every thread.  The handle is asked for by a loop     *)
(* around try_lock, which promises nothing to a thread among others: no    *)
(* strong fairness.                                                        *)
Fairness == WF_vars(AcceptStep) /\ \A c \in Clients : WF_vars(ClientThread(c))

FairSpec == Spec /\ Fairness

-----------------------------------------------------------------------------
(* Properties                                                              *)

Ids == (Clients \cup {Nobody}) \X Nat

(* Every variable has its type.                                            *)
TypeOK ==
  /\ stop \in BOOLEAN /\ acc \in AccLabels
  /\ made \in Nat /\ cast \in Nat
  /\ conn \in [Clients -> {"out", "waiting", "open", "closed"}]
  /\ hung \in [Clients -> BOOLEAN]
  /\ pc \in [Clients -> Labels]
  /\ handle \in Clients \cup {Nobody}
  /\ stopServing \in BOOLEAN
  /\ jsonrpcId \in Ids
  /\ asked \in [Clients -> Seq(Kinds)]
  /\ taken \in [Clients -> Nat] /\ answering \in [Clients -> Nat]
  /\ rest \in [Clients -> BOOLEAN] /\ cut \in [Clients -> SUBSET Nat]
  /\ replies \in [Clients -> Seq(Ids)]
  /\ joined \in [Clients -> Nat]
  /\ rx \in [Clients -> Seq(Nat)] /\ got \in [Clients -> Seq(Nat)]

(* A thread owns the handle from its lock to the end of its round, on      *)
(* every path: one request at a time reaches the device and the global     *)
(* JSON-RPC id (server.rs:141-158, 240-284; device_handle.rs:656-673).     *)
HandleFollowsRound == \A c \in Clients : handle = c <=> pc[c] \in HoldsHandle

(* A client is sent every event that was broadcast since it was accepted,  *)
(* once and in order, although the rounds of Disable requests pass by the  *)
(* bus, receivers come and go during a broadcast, and the bus is bounded   *)
(* (server.rs:236-238, 279-291).                                           *)
Numbers(s, first, last) == s = [i \in 1..last - first + 1 |-> first + i - 1]

NoEventMissed ==
  \A c \in Clients :
    /\ Numbers(got[c], joined[c] + 1, joined[c] + Len(got[c]))
    /\ Serving(c) => Numbers(got[c] \o rx[c], joined[c] + 1, cast)

(* The answers a client gets are to its own requests, each to another one  *)
(* and in the order of the requests, although the id of an answer is a     *)
(* global (device_handle.rs:656-673, 684-861).                             *)
AnswersInOrder ==
  \A c \in Clients :
    /\ \A i \in DOMAIN replies[c] : replies[c][i][1] = c
    /\ \A i, j \in DOMAIN replies[c] : i < j => replies[c][i][2] < replies[c][j][2]

(* One Disable never closes a connection.  While nothing fails and the     *)
(* server runs, a client that has not hung up loses its connection only by *)
(* a request without handler, by a request that was read in parts, or by   *)
(* the second of two Disables, a text that is no request counted as one:   *)
(* its own Disable, after another that may be of another client, because   *)
(* they share STOP_SERVING_CLIENT (server.rs:246-277).                     *)
Disables(c, i) == i <= taken[c] /\ asked[c][i] \in {"disable", "garbage"}
SecondDisable(c) ==
  \E i \in DOMAIN asked[c] : \E d \in Clients : \E j \in DOMAIN asked[d] :
    /\ <<c, i>> # <<d, j>>
    /\ Disables(c, i)
    /\ Disables(d, j) \/ j \in cut[d]

Unhandled(c) == \E i \in DOMAIN asked[c] : asked[c][i] = "unsupported"

ClosedForAReason ==
  ~Failures => \A c \in Clients :
    pc[c] = "ended" =>
      stop \/ hung[c] \/ cut[c] # {} \/ Unhandled(c) \/ SecondDisable(c)

(* A Disable is forgotten: a client that sends nothing more after it finds *)
(* the flag reset by an idle round of its thread, so that a later Disable  *)
(* does not close it (server.rs:248-261; device_handle.rs:634-637).        *)
DisableForgotten ==
  \A c \in Clients, n \in 0..MaxRequests :
    (stopServing /\ Serving(c) /\ Len(asked[c]) = n)
      ~> (~stopServing \/ ~Serving(c) \/ stop \/ Len(asked[c]) > n)

(* When the flag is set, the accept loop and all client threads end, also  *)
(* when a broadcast is blocked by a receiver that is full (server.rs:224,  *)
(* 240, 288).                                                              *)
StopEnds == stop ~> acc = "done" /\ \A c \in Clients : ~Serving(c)

(* A request of a client that waits for its answers is answered, unless    *)
(* the connection is closed or the server stops; "ready" and what is no    *)
(* request have no answer (server.rs:240-284; device_handle.rs:611-678).   *)
Waits(c) ==
  /\ Serving(c) /\ Len(replies[c]) < Len(asked[c])
  /\ \A i \in DOMAIN asked[c] : asked[c][i] \notin {"ready", "garbage"}

AnsweredOrClosed ==
  ~Pipelining => \A c \in Clients : Waits(c) ~> ~Waits(c) \/ stop

(* An event reaches every client that is served when it is pushed, unless  *)
(* the connection is closed or the server stops (server.rs:279-289).       *)
EventsArrive ==
  \A c \in Clients, n \in 1..MaxEvents :
    (Serving(c) /\ made >= n) ~> (joined[c] + Len(got[c]) >= n \/ ~Serving(c) \/ stop)
=============================================================================
