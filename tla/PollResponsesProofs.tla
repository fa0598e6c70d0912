------------------------- MODULE PollResponsesProofs -------------------------
(***************************************************************************)
(* Proofs about PollResponses: whatever a device puts into its responses,  *)
(* of whatever length, the escrow and cashbox flags say what the last      *)
(* event about them said.  Both invariants are inductive once TypeOK keeps *)
(* idx within the response; the lemmas say what one round of parse_events  *)
(* does to the events before idx (nothing) and to idx itself.  And whoever *)
(* receives the events, at whatever pace, is told a consistent story.      *)
(***************************************************************************)
EXTENDS PollResponses, TLAPS

LEMMA CurrentEvent ==
  ASSUME TypeOK, Parsing
  PROVE  /\ idx \in 1..Len(data)
         /\ data[idx] \in Event
         /\ data[idx].kind \in Kinds /\ data[idx].value \in Values \cup {0}
<1>1. idx \in 1..Len(data) /\ data[idx] \in Event
  BY DEF TypeOK, Parsing
<1> QED BY <1>1 DEF Event

LEMMA NoEvents == <<>> \in Seq(Event)
OBVIOUS

LEMMA NoticeTyped ==
  ASSUME NEW e
  PROVE  BackNotice(e) \in Seq(Event)
<1>1. Plain("CashboxReplaced") \in Event
  BY DEF Plain, Event, Kinds
<1>2. <<Plain("CashboxReplaced")>> \in Seq(Event)
  BY <1>1
<1> QED BY <1>2, NoEvents DEF BackNotice

LEMMA SendTyped ==
  ASSUME queue \in Seq(Event), NEW es \in Seq(Event), Send(es)
  PROVE  queue' \in Seq(Event)
BY DEF Send

(* A round of the loop either parses the event at idx or looks at it again. *)
LEMMA ParseTyped ==
  ASSUME TypeOK, ParseEvent
  PROVE  /\ UNCHANGED data /\ idx' \in 1..Len(data) + 1
         /\ escrowed' \in BOOLEAN /\ amount' \in Values \cup {0}
         /\ cashbox' \in BOOLEAN /\ jam' \in BOOLEAN
         /\ queue' \in Seq(Event)
<1> DEFINE e == data[idx]
<1>1. idx \in 1..Len(data) /\ e \in Event /\ e.value \in Values \cup {0}
  BY CurrentEvent DEF ParseEvent
<1> HIDE DEF e
<1>2. <<e>> \in Seq(Event)
  BY <1>1
<1>3. ASSUME NEW es \in Seq(Event), Advance(e, es)
      PROVE  UNCHANGED data /\ idx' \in 1..Len(data) + 1 /\ queue' \in Seq(Event)
  <2>1. BackNotice(e) \o es \in Seq(Event)
    BY NoticeTyped
  <2>2. queue' \in Seq(Event)
    BY <1>3, <2>1, SendTyped DEF Advance, TypeOK
  <2> QED BY <1>1, <1>3, <2>2 DEF Advance, TypeOK
<1> USE <1>1, <1>2, <1>3, NoEvents DEF TypeOK, CashboxSeen, CashboxIsBack
<1>4. CASE NoticeFails(e)
  BY <1>4 DEF NoticeFails
<1>5. CASE Unparsable(e)
  BY <1>5, NoticeTyped, SendTyped DEF Unparsable
<1>6. CASE Forward(e)
  BY <1>6 DEF Forward
<1>7. CASE ReadNote(e)
  BY <1>7 DEF ReadNote
<1>8. CASE CreditNote(e)
  BY <1>8 DEF CreditNote
<1>9. CASE MoveNote(e)
  BY <1>9 DEF MoveNote
<1>10. CASE LoseCashbox(e)
  BY <1>10 DEF LoseCashbox
<1>11. CASE ReplaceCashbox(e)
  BY <1>11 DEF ReplaceCashbox
<1>12. CASE JamNote(e)
  BY <1>12 DEF JamNote
<1>13. CASE Ignore(e)
  BY <1>13 DEF Ignore
<1> QED BY <1>4, <1>5, <1>6, <1>7, <1>8, <1>9, <1>10, <1>11, <1>12, <1>13
       DEF ParseEvent, Parsed, e

LEMMA TypeInductive ==
  ASSUME TypeOK, [Next]_parserVars
  PROVE  TypeOK'
<1>1. CASE NextResponse
  <2>1. Responses \subseteq Seq(Event)
    BY ResponseAssumption DEF Responses
  <2> QED BY <1>1, <2>1 DEF NextResponse, TypeOK
<1>2. CASE Parse
  BY <1>2, ParseTyped DEF Parse, TypeOK
<1>3. CASE EndResponse
  BY <1>3, NoEvents DEF EndResponse, TypeOK
<1>4. CASE ClientDecides
  BY <1>4 DEF ClientDecides, TypeOK
<1>5. CASE JamCleared
  BY <1>5 DEF JamCleared, TypeOK
<1>6. CASE PopEvent
  BY <1>6 DEF PopEvent, TypeOK
<1>7. CASE DropReceiver
  BY <1>7, NoEvents DEF DropReceiver, TypeOK
<1>8. CASE UNCHANGED parserVars
  BY <1>8 DEF parserVars, TypeOK
<1> QED BY <1>1, <1>2, <1>3, <1>4, <1>5, <1>6, <1>7, <1>8 DEF Next

(* The flags and the response have their types and idx stays within the    *)
(* response or one past it (inner.rs:20-25).                               *)
THEOREM TypeCorrect == Spec => []TypeOK
<1>1. ASSUME Init
      PROVE  TypeOK
  <2>1. data = <<>> /\ idx = 1
    BY <1>1 DEF Init
  <2>2. idx \in 1..Len(data) + 1
    BY <2>1
  <2> QED BY <1>1, <2>1, <2>2, NoEvents DEF Init, TypeOK
<1>2. TypeOK /\ [Next]_parserVars => TypeOK'
  BY TypeInductive
<1> QED BY <1>1, <1>2, PTL DEF Spec

-----------------------------------------------------------------------------
(* What one round of parse_events does to the escrow flags                 *)

(* The flags stay as they are while an event is looked at again.           *)
SameEscrow == UNCHANGED <<data, idx, escrowed, amount>>

(* The event at idx is parsed: the flags follow it if it tells of the note *)
(* and stay as they are otherwise.                                         *)
EscrowFollows(e) ==
  /\ UNCHANGED data /\ idx' = idx + 1
  /\ IF TellsEscrow(e)
     THEN escrowed' = (e.kind = "Read") /\ (escrowed' => amount' = e.value)
     ELSE UNCHANGED <<escrowed, amount>>

LEMMA ParseAndEscrow ==
  ASSUME ParseEvent
  PROVE  SameEscrow \/ EscrowFollows(data[idx])
<1> DEFINE e == data[idx]
<1> SUFFICES SameEscrow \/ EscrowFollows(e)
  OBVIOUS
<1> HIDE DEF e
<1> USE DEF EscrowFollows, TellsEscrow, Advance, Forwarded, NoteMoved,
            CashboxGone, OneByte
<1>1. CASE NoticeFails(e)
  BY <1>1 DEF NoticeFails, SameEscrow
<1>2. CASE Unparsable(e)
  BY <1>2 DEF Unparsable, SameEscrow
<1>3. CASE Forward(e)
  BY <1>3 DEF Forward
<1>4. CASE ReadNote(e)
  BY <1>4 DEF ReadNote
<1>5. CASE CreditNote(e)
  BY <1>5 DEF CreditNote
<1>6. CASE MoveNote(e)
  BY <1>6 DEF MoveNote
<1>7. CASE LoseCashbox(e)
  BY <1>7 DEF LoseCashbox
<1>8. CASE ReplaceCashbox(e)
  BY <1>8 DEF ReplaceCashbox
<1>9. CASE JamNote(e)
  BY <1>9 DEF JamNote
<1>10. CASE Ignore(e)
  BY <1>10 DEF Ignore
<1> QED BY <1>1, <1>2, <1>3, <1>4, <1>5, <1>6, <1>7, <1>8, <1>9, <1>10
       DEF ParseEvent, Parsed, e

LEMMA EscrowInductive ==
  ASSUME TypeOK, EscrowFollowsResponse, [Next]_parserVars
  PROVE  EscrowFollowsResponse'
<1>1. CASE UNCHANGED <<data, idx, escrowed, amount>>
  BY <1>1 DEF EscrowFollowsResponse, LastAboutNote
<1>2. CASE idx' = 1
  BY <1>2 DEF EscrowFollowsResponse
<1>3. CASE data = <<>> /\ UNCHANGED <<data, idx>>
  BY <1>2, <1>3 DEF TypeOK
<1>4. CASE Parse
  <2>1. CASE SameEscrow
    BY <1>1, <2>1 DEF SameEscrow
  <2>2. CASE EscrowFollows(data[idx])
    <3> SUFFICES ASSUME NEW i \in 1..idx' - 1, LastAboutNote(i)'
                 PROVE  /\ escrowed' = (data[i].kind = "Read")
                        /\ escrowed' => amount' = data[i].value
      BY <2>2 DEF EscrowFollowsResponse, EscrowFollows
    <3>1. idx \in Nat /\ idx' = idx + 1 /\ data' = data
      BY <2>2 DEF EscrowFollows, TypeOK
    <3>2. CASE i = idx
      BY <2>2, <3>1, <3>2 DEF EscrowFollows, LastAboutNote
    <3>3. CASE i # idx
      <4>1. i \in 1..idx - 1 /\ ~TellsEscrow(data[idx])
        BY <3>1, <3>3 DEF LastAboutNote
      <4>2. LastAboutNote(i)
        BY <3>1, <4>1 DEF LastAboutNote
      <4>3. UNCHANGED <<escrowed, amount>>
        BY <2>2, <4>1 DEF EscrowFollows
      <4> QED BY <4>1, <4>2, <4>3 DEF EscrowFollowsResponse
    <3> QED BY <3>2, <3>3
  <2> QED BY <1>4, <2>1, <2>2, ParseAndEscrow DEF Parse
<1> QED BY <1>1, <1>2, <1>3, <1>4 DEF Next, NextResponse, EndResponse,
           ClientDecides, JamCleared, PopEvent, DropReceiver, parserVars

(* For every response of every device: ESCROWED and ESCROWED_AMOUNT say    *)
(* what the last event about the note said (inner.rs:55-90, 170-253).      *)
THEOREM EscrowCorrect == Spec => []EscrowFollowsResponse
<1>1. Init => EscrowFollowsResponse
  BY DEF Init, EscrowFollowsResponse
<1>2. TypeOK /\ EscrowFollowsResponse /\ [Next]_parserVars => EscrowFollowsResponse'
  BY EscrowInductive
<1> QED BY <1>1, <1>2, TypeCorrect, PTL DEF Spec

-----------------------------------------------------------------------------
(* ... and to CASHBOX_ATTACHED                                             *)

(* The event is looked at again; its status may have brought the cashbox   *)
(* back already.                                                           *)
CashboxNoticed ==
  /\ UNCHANGED <<data, idx>>
  /\ \/ UNCHANGED cashbox
     \/ cashbox' = TRUE /\ data[idx].kind \notin NotBack

CashboxFollows(e) ==
  /\ UNCHANGED data /\ idx' = idx + 1
  /\ IF TellsCashbox(e) THEN cashbox' = (e.kind \notin CashboxGone)
     ELSE UNCHANGED cashbox

LEMMA ParseAndCashbox ==
  ASSUME TypeOK, ParseEvent
  PROVE  CashboxNoticed \/ CashboxFollows(data[idx])
<1> DEFINE e == data[idx]
<1> SUFFICES CashboxNoticed \/ CashboxFollows(e)
  OBVIOUS
<1>1. e.kind \in Kinds /\ cashbox \in BOOLEAN
  BY CurrentEvent DEF ParseEvent, TypeOK
<1> HIDE DEF e
<1> USE <1>1 DEF CashboxFollows, TellsCashbox, Advance, CashboxSeen,
            CashboxIsBack, NotBack, Forwarded, NoteMoved, CashboxGone, OneByte
<1>2. CASE NoticeFails(e)
  BY <1>2 DEF NoticeFails, CashboxNoticed, e
<1>3. CASE Unparsable(e)
  BY <1>3 DEF Unparsable, CashboxNoticed, e
<1>4. CASE Forward(e)
  BY <1>4 DEF Forward
<1>5. CASE ReadNote(e)
  BY <1>5 DEF ReadNote
<1>6. CASE CreditNote(e)
  BY <1>6 DEF CreditNote
<1>7. CASE MoveNote(e)
  BY <1>7 DEF MoveNote
<1>8. CASE LoseCashbox(e)
  BY <1>8 DEF LoseCashbox
<1>9. CASE ReplaceCashbox(e)
  BY <1>9 DEF ReplaceCashbox
<1>10. CASE JamNote(e)
  BY <1>10 DEF JamNote
<1>11. CASE Ignore(e)
  BY <1>11 DEF Ignore
<1> QED BY <1>2, <1>3, <1>4, <1>5, <1>6, <1>7, <1>8, <1>9, <1>10, <1>11
       DEF ParseEvent, Parsed, e

LEMMA CashboxInductive ==
  ASSUME TypeOK, CashboxFollowsResponse, [Next]_parserVars
  PROVE  CashboxFollowsResponse'
<1>1. CASE UNCHANGED <<data, idx, cashbox>>
  BY <1>1 DEF CashboxFollowsResponse, LastAboutCashbox, Parsing
<1>2. CASE idx' = 1
  BY <1>2 DEF CashboxFollowsResponse
<1>3. CASE Parse
  <2>1. CASE CashboxNoticed
    <3>1. CASE UNCHANGED cashbox
      BY <1>1, <2>1, <3>1 DEF CashboxNoticed
    <3>2. CASE cashbox' = TRUE /\ data[idx].kind \notin NotBack
      BY <1>3, <2>1, <3>2
         DEF CashboxNoticed, CashboxFollowsResponse, Parsing, Parse, ParseEvent
    <3> QED BY <2>1, <3>1, <3>2 DEF CashboxNoticed
  <2>2. CASE CashboxFollows(data[idx])
    <3> SUFFICES ASSUME NEW i \in 1..idx' - 1, LastAboutCashbox(i)'
                 PROVE  cashbox' = (data[i].kind \notin CashboxGone)
      BY <2>2 DEF CashboxFollowsResponse, CashboxFollows
    <3>1. idx \in Nat /\ idx' = idx + 1 /\ data' = data
      BY <2>2 DEF CashboxFollows, TypeOK
    <3>2. CASE i = idx
      BY <2>2, <3>1, <3>2 DEF CashboxFollows, LastAboutCashbox
    <3>3. CASE i # idx
      <4>1. i \in 1..idx - 1 /\ ~TellsCashbox(data[idx])
        BY <3>1, <3>3 DEF LastAboutCashbox
      <4>2. LastAboutCashbox(i)
        BY <3>1, <4>1 DEF LastAboutCashbox
      <4>3. UNCHANGED cashbox /\ data[idx].kind \in NotBack
        BY <2>2, <4>1 DEF CashboxFollows, TellsCashbox, NotBack
      <4> QED BY <4>1, <4>2, <4>3 DEF CashboxFollowsResponse
    <3> QED BY <3>2, <3>3
  <2> QED BY <1>3, <2>1, <2>2, ParseAndCashbox DEF Parse
<1> QED BY <1>1, <1>2, <1>3 DEF Next, NextResponse, EndResponse,
           ClientDecides, JamCleared, PopEvent, DropReceiver, parserVars

(* For every response of every device: CASHBOX_ATTACHED says what the last *)
(* event that tells of the cashbox said (inner.rs:28-42, 91-128, 203-224). *)
THEOREM CashboxCorrect == Spec => []CashboxFollowsResponse
<1>1. Init => CashboxFollowsResponse
  BY DEF Init, CashboxFollowsResponse
<1>2. TypeOK /\ CashboxFollowsResponse /\ [Next]_parserVars => CashboxFollowsResponse'
  BY CashboxInductive
<1> QED BY <1>1, <1>2, TypeCorrect, PTL DEF Spec

-----------------------------------------------------------------------------
(* What the application hears                                              *)

LEMMA NothingHeard ==
  ASSUME NEW c, NEW v
  PROVE  TakeTurns(<<>>, c) /\ Announced(<<>>, v)
BY DEF TakeTurns, Announced

(* What is heard of some kinds after another event is received or sent.    *)
LEMMA AfterTail ==
  ASSUME NEW q \in Seq(Event), q # <<>>, NEW kinds
  PROVE  /\ Len(q) \in Nat /\ Tail(q) \in Seq(Event) /\ Len(Tail(q)) = Len(q) - 1
         /\ \A i \in 1..Len(Tail(q)) : i + 1 \in 1..Len(q) /\ Tail(q)[i] = q[i + 1]
         /\ \A i, j \in 1..Len(Tail(q)) :
              HeardNext(Tail(q), i, j, kinds) => HeardNext(q, i + 1, j + 1, kinds)
         /\ \A i \in 1..Len(Tail(q)) :
              HeardLast(Tail(q), i, kinds) => HeardLast(q, i + 1, kinds)
<1>1. /\ Len(q) \in Nat /\ Tail(q) \in Seq(Event) /\ Len(Tail(q)) = Len(q) - 1
      /\ \A i \in 1..Len(Tail(q)) : i + 1 \in 1..Len(q) /\ Tail(q)[i] = q[i + 1]
  OBVIOUS
<1>2. ASSUME NEW i \in 1..Len(Tail(q)), NEW j \in 1..Len(Tail(q)),
             HeardNext(Tail(q), i, j, kinds)
      PROVE  HeardNext(q, i + 1, j + 1, kinds)
  <2>1. i + 1 < j + 1 /\ q[i + 1].kind \in kinds /\ q[j + 1].kind \in kinds
    BY <1>1, <1>2 DEF HeardNext
  <2>2. ASSUME NEW k \in i + 2..j PROVE q[k].kind \notin kinds
    <3>1. k - 1 \in i + 1..j - 1 /\ k - 1 \in 1..Len(Tail(q)) /\ (k - 1) + 1 = k
      BY <1>1
    <3>2. Tail(q)[k - 1].kind \notin kinds
      BY <1>2, <3>1 DEF HeardNext
    <3> QED BY <1>1, <3>1, <3>2
  <2>3. (i + 1) + 1..(j + 1) - 1 = i + 2..j
    OBVIOUS
  <2> QED BY <2>1, <2>2, <2>3 DEF HeardNext
<1>3. ASSUME NEW i \in 1..Len(Tail(q)), HeardLast(Tail(q), i, kinds)
      PROVE  HeardLast(q, i + 1, kinds)
  <2>1. q[i + 1].kind \in kinds
    BY <1>1, <1>3 DEF HeardLast
  <2>2. ASSUME NEW k \in i + 2..Len(q) PROVE q[k].kind \notin kinds
    <3>1. k - 1 \in i + 1..Len(Tail(q)) /\ k - 1 \in 1..Len(Tail(q)) /\ (k - 1) + 1 = k
      BY <1>1
    <3>2. Tail(q)[k - 1].kind \notin kinds
      BY <1>3, <3>1 DEF HeardLast
    <3> QED BY <1>1, <3>1, <3>2
  <2>3. (i + 1) + 1..Len(q) = i + 2..Len(q)
    OBVIOUS
  <2> QED BY <2>1, <2>2, <2>3 DEF HeardLast
<1> QED BY <1>1, <1>2, <1>3

LEMMA AfterAppend ==
  ASSUME NEW q \in Seq(Event), NEW e \in Event, NEW kinds
  PROVE  LET p == Append(q, e)
         IN /\ p \in Seq(Event) /\ Len(q) \in Nat /\ Len(p) = Len(q) + 1
            /\ p[Len(p)] = e /\ \A i \in 1..Len(q) : p[i] = q[i]
            /\ \A i, j \in 1..Len(q) : HeardNext(p, i, j, kinds) => HeardNext(q, i, j, kinds)
            /\ \A i \in 1..Len(q) : HeardNext(p, i, Len(p), kinds) => HeardLast(q, i, kinds)
            /\ \A i \in 1..Len(q) : HeardLast(p, i, kinds) =>
                                      HeardLast(q, i, kinds) /\ e.kind \notin kinds
            /\ \A i \in 1..Len(p) : ~HeardNext(p, Len(p), i, kinds)
            /\ \A i, j \in 1..Len(p) : HeardNext(p, i, j, kinds) =>
                                         p[i].kind \in kinds /\ p[j].kind \in kinds
            /\ \A i \in 1..Len(p) : HeardLast(p, i, kinds) => p[i].kind \in kinds
<1> DEFINE p == Append(q, e)
<1>1. /\ p \in Seq(Event) /\ Len(q) \in Nat /\ Len(p) = Len(q) + 1
      /\ p[Len(p)] = e /\ \A i \in 1..Len(q) : p[i] = q[i]
  OBVIOUS
<1> HIDE DEF p
<1>2. ASSUME NEW i \in 1..Len(q), NEW j \in 1..Len(q), HeardNext(p, i, j, kinds)
      PROVE  HeardNext(q, i, j, kinds)
  <2>1. \A k \in i + 1..j - 1 : k \in 1..Len(q)
    BY <1>1
  <2> QED BY <1>1, <1>2, <2>1 DEF HeardNext
<1>3. ASSUME NEW i \in 1..Len(q), HeardNext(p, i, Len(p), kinds)
      PROVE  HeardLast(q, i, kinds)
  <2>1. \A k \in i + 1..Len(q) : k \in i + 1..Len(p) - 1 /\ k \in 1..Len(q)
    BY <1>1
  <2> QED BY <1>1, <1>3, <2>1 DEF HeardNext, HeardLast
<1>4. ASSUME NEW i \in 1..Len(q), HeardLast(p, i, kinds)
      PROVE  HeardLast(q, i, kinds) /\ e.kind \notin kinds
  <2>1. \A k \in i + 1..Len(q) : k \in i + 1..Len(p) /\ k \in 1..Len(q)
    BY <1>1
  <2>2. Len(p) \in i + 1..Len(p)
    BY <1>1
  <2> QED BY <1>1, <1>4, <2>1, <2>2 DEF HeardLast
<1>5. \A i \in 1..Len(p) : ~HeardNext(p, Len(p), i, kinds)
  BY <1>1 DEF HeardNext
<1> QED BY <1>1, <1>2, <1>3, <1>4, <1>5 DEF HeardNext, HeardLast, p

LEMMA TurnsAfterTail ==
  ASSUME NEW q \in Seq(Event), q # <<>>, NEW c, NEW v
  PROVE  /\ TakeTurns(q, c) => TakeTurns(Tail(q), c)
         /\ Announced(q, v) => Announced(Tail(q), v)
<1> DEFINE p == Tail(q)
<1>1. ASSUME TakeTurns(q, c) PROVE TakeTurns(p, c)
  <2>1. ASSUME NEW i \in 1..Len(p), NEW j \in 1..Len(p), HeardNext(p, i, j, AboutCashbox)
        PROVE  (p[i].kind \in CashboxGone) # (p[j].kind \in CashboxGone)
    <3>1. /\ i + 1 \in 1..Len(q) /\ j + 1 \in 1..Len(q) /\ p[i] = q[i + 1] /\ p[j] = q[j + 1]
          /\ HeardNext(q, i + 1, j + 1, AboutCashbox)
      BY <2>1, AfterTail
    <3> QED BY <1>1, <3>1, Zenon DEF TakeTurns
  <2>2. ASSUME NEW i \in 1..Len(p), HeardLast(p, i, AboutCashbox)
        PROVE  c = (p[i].kind \notin CashboxGone)
    <3>1. i + 1 \in 1..Len(q) /\ p[i] = q[i + 1] /\ HeardLast(q, i + 1, AboutCashbox)
      BY <2>2, AfterTail
    <3> QED BY <1>1, <3>1, Zenon DEF TakeTurns
  <2> QED BY <2>1, <2>2 DEF TakeTurns
<1>2. ASSUME Announced(q, v) PROVE Announced(p, v)
  <2>1. ASSUME NEW i \in 1..Len(p), HeardLast(p, i, AboutNote)
        PROVE  p[i] = Note("Read", v)
    <3>1. i + 1 \in 1..Len(q) /\ p[i] = q[i + 1] /\ HeardLast(q, i + 1, AboutNote)
      BY <2>1, AfterTail
    <3> QED BY <1>2, <3>1, Zenon DEF Announced
  <2> QED BY <2>1 DEF Announced
<1> QED BY <1>1, <1>2

(* An event of another kind does not matter.                               *)
LEMMA TurnsAfterOther ==
  ASSUME NEW q \in Seq(Event), NEW c, TakeTurns(q, c),
         NEW e \in Event, e.kind \notin AboutCashbox
  PROVE  TakeTurns(Append(q, e), c)
<1> DEFINE p == Append(q, e)
<1>1. ASSUME NEW i \in 1..Len(p), NEW j \in 1..Len(p), HeardNext(p, i, j, AboutCashbox)
      PROVE  (p[i].kind \in CashboxGone) # (p[j].kind \in CashboxGone)
  <2>1. i # Len(p) /\ j # Len(p)
    BY <1>1, AfterAppend
  <2>2. i \in 1..Len(q) /\ j \in 1..Len(q)
    BY <2>1, AfterAppend
  <2> QED BY <1>1, <2>2, AfterAppend DEF TakeTurns
<1>2. ASSUME NEW i \in 1..Len(p), HeardLast(p, i, AboutCashbox)
      PROVE  c = (p[i].kind \notin CashboxGone)
  <2>1. i \in 1..Len(q)
    BY <1>2, AfterAppend
  <2> QED BY <1>2, <2>1, AfterAppend DEF TakeTurns
<1> QED BY <1>1, <1>2 DEF TakeTurns

(* A loss is sent when the cashbox was there, a return when it was not.    *)
LEMMA TurnsAfterTurn ==
  ASSUME NEW q \in Seq(Event), NEW c \in BOOLEAN, TakeTurns(q, c),
         NEW e \in Event, e.kind \in AboutCashbox, c = (e.kind \in CashboxGone)
  PROVE  TakeTurns(Append(q, e), ~c)
<1> DEFINE p == Append(q, e)
<1>1. ASSUME NEW i \in 1..Len(p), NEW j \in 1..Len(p), HeardNext(p, i, j, AboutCashbox)
      PROVE  (p[i].kind \in CashboxGone) # (p[j].kind \in CashboxGone)
  <2>1. i \in 1..Len(q)
    BY <1>1, AfterAppend
  <2>2. CASE j = Len(p)
    <3>1. HeardLast(q, i, AboutCashbox) /\ p[j] = e /\ p[i] = q[i]
      BY <1>1, <2>1, <2>2, AfterAppend
    <3>2. c = (q[i].kind \notin CashboxGone)
      BY <2>1, <3>1, Zenon DEF TakeTurns
    <3> QED BY <3>1, <3>2, Zenon
  <2>3. CASE j # Len(p)
    <3>1. j \in 1..Len(q)
      BY <2>3, AfterAppend
    <3> QED BY <1>1, <2>1, <3>1, AfterAppend DEF TakeTurns
  <2> QED BY <2>2, <2>3
<1>2. ASSUME NEW i \in 1..Len(p), HeardLast(p, i, AboutCashbox)
      PROVE  ~c = (p[i].kind \notin CashboxGone)
  <2>1. i = Len(p)
    <3>1. i \notin 1..Len(q)
      BY <1>2, AfterAppend
    <3> QED BY <3>1, AfterAppend
  <2>2. p[i] = e
    BY <2>1, AfterAppend
  <2> QED BY <2>2, Zenon
<1> QED BY <1>1, <1>2 DEF TakeTurns

LEMMA AnnouncedAfterOther ==
  ASSUME NEW q \in Seq(Event), NEW v, Announced(q, v),
         NEW e \in Event, e.kind \notin AboutNote
  PROVE  Announced(Append(q, e), v)
<1> DEFINE p == Append(q, e)
<1>1. ASSUME NEW i \in 1..Len(p), HeardLast(p, i, AboutNote)
      PROVE  p[i] = Note("Read", v)
  <2>1. i \in 1..Len(q)
    BY <1>1, AfterAppend
  <2> QED BY <1>1, <2>1, AfterAppend DEF Announced
<1> QED BY <1>1 DEF Announced

LEMMA AnnouncedAfterRead ==
  ASSUME NEW q \in Seq(Event), NEW e \in Event, e.kind = "Read", e.whole
  PROVE  Announced(Append(q, e), e.value)
<1> DEFINE p == Append(q, e)
<1>1. e = Note("Read", e.value)
  BY DEF Event, Note
<1>2. ASSUME NEW i \in 1..Len(p), HeardLast(p, i, AboutNote)
      PROVE  p[i] = Note("Read", e.value)
  <2>1. i \notin 1..Len(q)
    <3>1. e.kind \in AboutNote
      BY DEF AboutNote
    <3>2. i \in 1..Len(q) => e.kind \notin AboutNote
      BY <1>2, AfterAppend
    <3> QED BY <3>1, <3>2
  <2>2. i = Len(p)
    BY <2>1, AfterAppend
  <2> QED BY <1>1, <2>2, AfterAppend
<1> QED BY <1>2 DEF Announced

(* A receiver that is gone holds nothing; a failed send adds nothing.      *)
HearInv ==
  (~rxOpen => queue = <<>>) /\ CashboxEventsAlternate /\ HeldNoteAnnounced

(* The inferred return of the cashbox is sent when it was gone.            *)
LEMMA NoticeHeard ==
  ASSUME TypeOK, HearInv, NEW e
  PROVE  LET q == queue \o BackNotice(e)
         IN /\ q \in Seq(Event)
            /\ TakeTurns(q, cashbox \/ CashboxIsBack(e))
            /\ escrowed => Announced(q, amount)
<1> DEFINE n == Plain("CashboxReplaced")
<1>1. queue \in Seq(Event) /\ n \in Event
  BY DEF TypeOK, Plain, Event, Kinds
<1>2. n.kind = "CashboxReplaced" /\ "CashboxReplaced" \notin CashboxGone
  BY DEF Plain, CashboxGone
<1>3. CASE CashboxIsBack(e)
  <2>1. ~cashbox /\ queue \o BackNotice(e) = Append(queue, n)
    BY <1>1, <1>3 DEF BackNotice, CashboxIsBack
  <2>2. TakeTurns(queue, FALSE)
    <3>1. cashbox = FALSE
      BY <2>1, Zenon DEF TypeOK
    <3> QED BY <3>1 DEF HearInv, CashboxEventsAlternate
  <2>3. TakeTurns(Append(queue, n), TRUE)
    <3>1. FALSE = (n.kind \in CashboxGone) /\ n.kind \in AboutCashbox
      BY <1>2 DEF AboutCashbox
    <3>2. TakeTurns(Append(queue, n), ~FALSE)
      BY <1>1, <2>2, <3>1, TurnsAfterTurn
    <3> QED BY <3>2
  <2>4. escrowed => Announced(Append(queue, n), amount)
    BY <1>1, <1>2, AnnouncedAfterOther DEF HearInv, HeldNoteAnnounced, AboutNote
  <2>5. (cashbox \/ CashboxIsBack(e)) = TRUE
    BY <1>3, Zenon DEF CashboxIsBack
  <2>6. queue \o BackNotice(e) \in Seq(Event)
    BY <1>1, <2>1
  <2> QED BY <2>1, <2>3, <2>4, <2>5, <2>6, Zenon
<1>4. CASE ~CashboxIsBack(e)
  <2>1. queue \o BackNotice(e) = queue
    BY <1>1, <1>4 DEF BackNotice
  <2>2. (cashbox \/ CashboxIsBack(e)) = cashbox
    BY <1>4, Zenon DEF TypeOK
  <2> QED BY <1>1, <2>1, <2>2, Zenon DEF HearInv, CashboxEventsAlternate, HeldNoteAnnounced
<1> QED BY <1>3, <1>4

(* The queue after one event: the notice, and the event itself or nothing. *)
LEMMA QueueAfter ==
  ASSUME TypeOK, HearInv, NEW e \in Event,
         Advance(e, <<e>>) \/ Advance(e, <<>>) \/ Send(BackNotice(e))
  PROVE  LET q == queue \o BackNotice(e)
         IN IF rxOpen
            THEN /\ Advance(e, <<e>>) => queue' = Append(q, e)
                 /\ Advance(e, <<>>) \/ Send(BackNotice(e)) => queue' = q
            ELSE queue' = <<>>
<1>1. queue \in Seq(Event) /\ BackNotice(e) \in Seq(Event) /\ <<e>> \in Seq(Event)
  BY NoticeTyped DEF TypeOK
<1>2. /\ queue \o (BackNotice(e) \o <<e>>) = Append(queue \o BackNotice(e), e)
      /\ queue \o (BackNotice(e) \o <<>>) = queue \o BackNotice(e)
  BY <1>1
<1> QED BY <1>2 DEF Advance, Send, HearInv

LEMMA NothingSent ==
  ASSUME HearInv, ~rxOpen, UNCHANGED rxOpen, queue' = <<>>
  PROVE  HearInv'
BY NothingHeard DEF HearInv, CashboxEventsAlternate, HeldNoteAnnounced

LEMMA ParseHeard ==
  ASSUME TypeOK, HearInv, Parse
  PROVE  HearInv'
<1> DEFINE e == data[idx]
           q == queue \o BackNotice(e)
           c == cashbox \/ CashboxIsBack(e)
<1>1. /\ e \in Event /\ UNCHANGED rxOpen /\ cashbox \in BOOLEAN
      /\ q \in Seq(Event) /\ TakeTurns(q, c) /\ (escrowed => Announced(q, amount))
  BY CurrentEvent, NoticeHeard DEF Parse, ParseEvent, TypeOK
<1>2. NoticeFails(e) \/ Unparsable(e) \/ Parsed(e)
  BY DEF Parse, ParseEvent
<1>3. IF rxOpen
      THEN /\ Advance(e, <<e>>) => queue' = Append(q, e)
           /\ Advance(e, <<>>) \/ Send(BackNotice(e)) => queue' = q
      ELSE (Advance(e, <<e>>) \/ Advance(e, <<>>) \/ Send(BackNotice(e))) => queue' = <<>>
  BY <1>1, QueueAfter
<1> HIDE DEF e, q, c
<1>4. ASSUME rxOpen, TakeTurns(queue', cashbox'), escrowed' => Announced(queue', amount')
      PROVE  HearInv'
  BY <1>1, <1>4 DEF HearInv, CashboxEventsAlternate, HeldNoteAnnounced
<1>5. ASSUME Advance(e, <<e>>) \/ Advance(e, <<>>) \/ Send(BackNotice(e)),
             rxOpen => TakeTurns(queue', cashbox') /\ (escrowed' => Announced(queue', amount'))
      PROVE  HearInv'
  BY <1>1, <1>3, <1>4, <1>5, NothingSent
<1>6. ASSUME e.kind \notin AboutCashbox
      PROVE  TakeTurns(Append(q, e), c)
  BY <1>1, <1>6, TurnsAfterOther
<1>7. CASE NoticeFails(e)
  BY <1>1, <1>7, NothingSent DEF NoticeFails, HearInv
<1>8. CASE Unparsable(e)
  BY <1>1, <1>3, <1>5, <1>8 DEF Unparsable, c
<1>9. CASE Forward(e)
  <2>1. e.kind \notin AboutCashbox /\ e.kind \notin AboutNote
    BY <1>9 DEF Forward, Forwarded, AboutCashbox, AboutNote, CashboxGone
  <2> QED BY <1>1, <1>3, <1>5, <1>6, <1>9, <2>1, AnnouncedAfterOther
          DEF Forward, CashboxSeen, c
<1>10. CASE ReadNote(e) /\ Parsed(e)
  <2>1. e.kind = "Read" /\ e.kind \notin AboutCashbox /\ cashbox' = c
    BY <1>10 DEF ReadNote, AboutCashbox, CashboxGone, CashboxSeen, c
  <2>2. CASE e.value # 0
    <3>1. Advance(e, <<e>>) /\ amount' = e.value
      BY <1>10, <2>2 DEF ReadNote
    <3>2. e.whole
      BY <1>10, <2>1 DEF Parsed, OneByte
    <3> QED BY <1>1, <1>3, <1>5, <1>6, <2>1, <3>1, <3>2, AnnouncedAfterRead
  <2>3. CASE e.value = 0
    BY <1>1, <1>3, <1>5, <1>10, <2>1, <2>3 DEF ReadNote
  <2> QED BY <2>2, <2>3
<1>11. CASE CreditNote(e) \/ JamNote(e)
  <2>1. /\ e.kind \notin AboutCashbox /\ ~escrowed' /\ cashbox' = c
        /\ Advance(e, <<e>>)
    BY <1>11 DEF CreditNote, JamNote, AboutCashbox, CashboxGone, CashboxSeen, c
  <2> QED BY <1>3, <1>5, <1>6, <2>1
<1>12. CASE MoveNote(e)
  BY <1>1, <1>3, <1>5, <1>12 DEF MoveNote, CashboxSeen, c
<1>13. CASE Ignore(e)
  BY <1>1, <1>3, <1>5, <1>13 DEF Ignore, CashboxSeen, c
<1>14. CASE ReplaceCashbox(e)
  <2>1. c = TRUE
    BY <1>1, <1>14, Zenon DEF ReplaceCashbox, CashboxIsBack, NotBack, CashboxGone, c
  <2>2. cashbox' = c
    BY <1>14, <2>1, Zenon DEF ReplaceCashbox
  <2> QED BY <1>1, <1>3, <1>5, <1>14, <2>2 DEF ReplaceCashbox
<1>15. CASE LoseCashbox(e)
  <2>1. /\ e.kind \in CashboxGone /\ e.kind \in AboutCashbox /\ e.kind \notin AboutNote
        /\ UNCHANGED <<escrowed, amount>>
    BY <1>15 DEF LoseCashbox, CashboxGone, AboutCashbox, AboutNote
  <2>2. cashbox' = FALSE /\ c = cashbox
    BY <1>1, <1>15, Zenon DEF LoseCashbox, CashboxIsBack, NotBack, c
  <2>3. CASE cashbox
    <3>1. c = TRUE /\ c = (e.kind \in CashboxGone) /\ Advance(e, <<e>>)
      BY <1>1, <1>15, <2>1, <2>2, <2>3, Zenon DEF LoseCashbox
    <3>2. TakeTurns(q, TRUE)
      BY <1>1, <3>1
    <3>3. TakeTurns(Append(q, e), FALSE)
      <4>1. TRUE = (e.kind \in CashboxGone)
        BY <2>1
      <4>2. TakeTurns(Append(q, e), ~TRUE)
        BY <1>1, <2>1, <3>2, <4>1, TurnsAfterTurn
      <4> QED BY <4>2
    <3>4. escrowed => Announced(Append(q, e), amount)
      BY <1>1, <2>1, AnnouncedAfterOther
    <3> QED BY <1>3, <1>5, <2>1, <2>2, <3>1, <3>3, <3>4
  <2>4. CASE ~cashbox
    <3>1. Advance(e, <<>>) /\ cashbox' = c
      BY <1>1, <1>15, <2>2, <2>4, Zenon DEF LoseCashbox
    <3> QED BY <1>1, <1>3, <1>5, <2>1, <3>1
  <2> QED BY <2>3, <2>4
<1> QED BY <1>2, <1>7, <1>8, <1>9, <1>10, <1>11, <1>12, <1>13, <1>14, <1>15 DEF Parsed

LEMMA HearInductive ==
  ASSUME TypeOK, HearInv, [Next]_parserVars
  PROVE  HearInv'
<1>1. CASE Parse
  BY <1>1, ParseHeard
<1>2. CASE UNCHANGED <<escrowed, amount, cashbox, queue, rxOpen>>
  BY <1>2 DEF HearInv, CashboxEventsAlternate, HeldNoteAnnounced
<1>3. CASE ClientDecides
  <2>1. ~escrowed' /\ UNCHANGED <<cashbox, queue, rxOpen>>
    BY <1>3 DEF ClientDecides
  <2> QED BY <2>1 DEF HearInv, CashboxEventsAlternate, HeldNoteAnnounced
<1>4. CASE PopEvent
  <2>1. /\ queue' = Tail(queue) /\ queue # <<>> /\ rxOpen /\ queue \in Seq(Event)
        /\ UNCHANGED <<escrowed, amount, cashbox, rxOpen>>
    BY <1>4 DEF PopEvent, TypeOK
  <2> QED BY <2>1, TurnsAfterTail DEF HearInv, CashboxEventsAlternate, HeldNoteAnnounced
<1>5. CASE DropReceiver
  BY <1>5, NothingHeard DEF DropReceiver, HearInv, CashboxEventsAlternate, HeldNoteAnnounced
<1> QED BY <1>1, <1>2, <1>3, <1>4, <1>5
       DEF Next, NextResponse, EndResponse, JamCleared, parserVars

LEMMA Hearing == Spec => []HearInv
<1>1. Init => HearInv
  BY NothingHeard DEF Init, HearInv, CashboxEventsAlternate, HeldNoteAnnounced
<1>2. TypeOK /\ HearInv /\ [Next]_parserVars => HearInv'
  BY HearInductive
<1> QED BY <1>1, <1>2, TypeCorrect, PTL DEF Spec

(* Whatever a device sends and whenever the application listens, it hears  *)
(* of losses and returns of the cashbox in turns, and the last of them is  *)
(* what CASHBOX_ATTACHED says (inner.rs:28, 99, 118, 210).                 *)
THEOREM CashboxHeard == Spec => []CashboxEventsAlternate
BY Hearing, PTL DEF HearInv

(* ... and a note that ESCROWED says is held is the last the application   *)
(* was told of the note, with its value (inner.rs:55-90, 236-253).         *)
THEOREM NoteHeard == Spec => []HeldNoteAnnounced
BY Hearing, PTL DEF HearInv
=============================================================================
