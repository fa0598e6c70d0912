------------------------- MODULE KeyNegotiationProofs -------------------------
(***************************************************************************)
(* For all primes, random numbers, fixed keys, faults and calls: a         *)
(* negotiation that returns Ok leaves the device's key with the handle, a  *)
(* renegotiation fails only when something went wrong in it, and the key   *)
(* is never one of numbers that have been replaced.                        *)
(***************************************************************************)
EXTENDS KeyNegotiation, SequenceTheorems, TLAPS

(* The steps that a call can be made of; setKey only follows exchange.     *)
Plain == Steps \ {"setKey"}

(* What is left of a negotiation, by the number of steps.                  *)
Left1 == <<"exchange">>
Left2 == <<"setModulus", "exchange">>
Left3 == <<"setGenerator", "setModulus", "exchange">>
Left4 == <<"sync", "setGenerator", "setModulus", "exchange">>
Left5 == <<"newRandom", "sync", "setGenerator", "setModulus", "exchange">>
Left6 == <<"newModulus", "newRandom", "sync", "setGenerator", "setModulus", "exchange">>
Left7 == <<"newGenerator", "newModulus", "newRandom", "sync", "setGenerator",
           "setModulus", "exchange">>
LeftSet == <<"setKey">>

-----------------------------------------------------------------------------
(* Sequences of steps and powers                                           *)

LEMMA LeftTails ==
  /\ Left7 # <<>> /\ Head(Left7) = "newGenerator" /\ Tail(Left7) = Left6
  /\ Left6 # <<>> /\ Head(Left6) = "newModulus" /\ Tail(Left6) = Left5
  /\ Left5 # <<>> /\ Head(Left5) = "newRandom" /\ Tail(Left5) = Left4
  /\ Left4 # <<>> /\ Head(Left4) = "sync" /\ Tail(Left4) = Left3
  /\ Left3 # <<>> /\ Head(Left3) = "setGenerator" /\ Tail(Left3) = Left2
  /\ Left2 # <<>> /\ Head(Left2) = "setModulus" /\ Tail(Left2) = Left1
  /\ Left1 # <<>> /\ Head(Left1) = "exchange" /\ Tail(Left1) = <<>>
  /\ LeftSet # <<>> /\ Head(LeftSet) = "setKey" /\ Tail(LeftSet) = <<>>
  /\ <<"setKey">> \o Tail(Left1) = LeftSet
<1>1. Left7 # <<>> /\ Head(Left7) = "newGenerator" /\ Tail(Left7) = Left6
  BY DEF Left6, Left7
<1>2. Left6 # <<>> /\ Head(Left6) = "newModulus" /\ Tail(Left6) = Left5
  BY DEF Left5, Left6
<1>3. Left5 # <<>> /\ Head(Left5) = "newRandom" /\ Tail(Left5) = Left4
  BY DEF Left4, Left5
<1>4. Left4 # <<>> /\ Head(Left4) = "sync" /\ Tail(Left4) = Left3
  BY DEF Left3, Left4
<1>5. Left3 # <<>> /\ Head(Left3) = "setGenerator" /\ Tail(Left3) = Left2
  BY DEF Left2, Left3
<1>6. Left2 # <<>> /\ Head(Left2) = "setModulus" /\ Tail(Left2) = Left1
  BY DEF Left1, Left2
<1>7. Left1 # <<>> /\ Head(Left1) = "exchange" /\ Tail(Left1) = <<>>
  BY DEF Left1
<1>8. LeftSet # <<>> /\ Head(LeftSet) = "setKey" /\ Tail(LeftSet) = <<>>
  BY DEF LeftSet
<1>9. <<"setKey">> \o Tail(Left1) = LeftSet
  BY DEF Left1, LeftSet
<1> QED BY <1>1, <1>2, <1>3, <1>4, <1>5, <1>6, <1>7, <1>8, <1>9, Zenon

LEMMA Negotiations ==
  Program("negotiate") = Left4 /\ Program("renegotiate") = Left7
<1>1. Draw \in Seq(Steps) /\ Negotiate \in Seq(Steps) /\ Left7 \in Seq(Steps)
  BY DEF Draw, Negotiate, Left7, Steps
<1>2. Len(Draw) = 3 /\ Len(Negotiate) = 4 /\ Len(Left7) = 7
  BY DEF Draw, Negotiate, Left7
<1>3. /\ Draw \o Negotiate \in Seq(Steps) /\ Len(Draw \o Negotiate) = 7
      /\ \A i \in 1..7 : (Draw \o Negotiate)[i] = IF i <= 3 THEN Draw[i] ELSE Negotiate[i - 3]
  <2>1. 3 + 4 = 7
    OBVIOUS
  <2>2. /\ Draw \o Negotiate \in Seq(Steps)
        /\ Len(Draw \o Negotiate) = Len(Draw) + Len(Negotiate)
        /\ \A i \in 1..Len(Draw) + Len(Negotiate) :
             (Draw \o Negotiate)[i] = IF i <= Len(Draw) THEN Draw[i]
                                      ELSE Negotiate[i - Len(Draw)]
    BY <1>1, ConcatProperties
  <2> QED BY <1>2, <2>1, <2>2
<1>4. ASSUME NEW i \in 1..7 PROVE (Draw \o Negotiate)[i] = Left7[i]
  <2>1. /\ Draw[1] = Left7[1] /\ Draw[2] = Left7[2] /\ Draw[3] = Left7[3]
        /\ Negotiate[1] = Left7[4] /\ Negotiate[2] = Left7[5]
        /\ Negotiate[3] = Left7[6] /\ Negotiate[4] = Left7[7]
    BY DEF Draw, Negotiate, Left7
  <2>2. CASE i <= 3
    <3>1. (Draw \o Negotiate)[i] = Draw[i] /\ (i = 1 \/ i = 2 \/ i = 3)
      <4>1. (Draw \o Negotiate)[i] = Draw[i]
        BY <1>3, <2>2, Zenon
      <4>2. i = 1 \/ i = 2 \/ i = 3
        BY <2>2
      <4> QED BY <4>1, <4>2
    <3>2. Draw[i] = Left7[i]
      <4>1. CASE i = 1
        BY <2>1, <4>1, Zenon
      <4>2. CASE i = 2
        BY <2>1, <4>2, Zenon
      <4>3. CASE i = 3
        BY <2>1, <4>3, Zenon
      <4> QED BY <3>1, <4>1, <4>2, <4>3, Zenon
    <3> QED BY <3>1, <3>2, Zenon
  <2>3. CASE ~(i <= 3)
    <3>1. (Draw \o Negotiate)[i] = Negotiate[i - 3]
      BY <1>3, <2>3, Zenon
    <3>2. \/ i = 4 /\ i - 3 = 1
          \/ i = 5 /\ i - 3 = 2
          \/ i = 6 /\ i - 3 = 3
          \/ i = 7 /\ i - 3 = 4
      BY <2>3
    <3> QED BY <2>1, <3>1, <3>2, Zenon
  <2> QED BY <2>2, <2>3
<1>5. Draw \o Negotiate = Left7
  BY <1>1, <1>2, <1>3, <1>4, SeqEqual
<1> QED BY <1>5 DEF Program, Left4, Negotiate

LEMMA ProgramPlain == ASSUME NEW c \in AllCalls PROVE Program(c) \in Seq(Plain)
<1>1. Draw \in Seq(Plain) /\ Negotiate \in Seq(Plain) /\ <<"setFixed">> \in Seq(Plain)
  BY DEF Draw, Negotiate, Plain, Steps
<1>2. Draw \o Negotiate \in Seq(Plain) /\ Negotiate \o <<"setFixed">> \in Seq(Plain)
  BY <1>1, ConcatProperties
<1>3. CASE c \in {"negotiate", "renegotiate", "careful"}
  BY <1>1, <1>2, <1>3 DEF Program
<1>4. CASE c \notin {"negotiate", "renegotiate", "careful"}
  <2>1. c \in Plain
    BY <1>4 DEF AllCalls, Plain, Steps
  <2>2. <<c>> \in Seq(Plain)
    BY <2>1
  <2> QED BY <1>4, <2>2 DEF Program
<1> QED BY <1>3, <1>4

LEMMA AdvicePlain == ASSUME NEW s \in Steps PROVE Advice(s) \in Seq(Plain)
<1>1. /\ "newGenerator" \in Plain /\ "newRandom" \in Plain /\ "exchange" \in Plain
      /\ "newModulus" \in Plain /\ "setGenerator" \in Plain /\ "setModulus" \in Plain
      /\ "setFixed" \in Plain
  BY DEF Plain, Steps
<1> QED BY <1>1 DEF Advice

(* It does not matter which of the two raised the base first.              *)
LEMMA PowersCommute ==
  ASSUME NEW g, NEW m, NEW h, NEW d
  PROVE  Raise(Power(g, h, m), d, m) = Raise(Power(g, d, m), h, m)
BY DEF Raise, Power

LEMMA RaisedLast ==
  ASSUME NEW b, NEW e, NEW l, NEW h, NEW m
  PROVE  /\ h \in Raise(Power(b, e, l), h, m).by
         /\ Raise(Power(b, e, l), h, m).modulo[2] = m
BY DEF Raise, Power
-----------------------------------------------------------------------------
(* The key follows the numbers                                             *)

TodoInv ==
  todo \in Seq(Plain) \/ \E t \in Seq(Plain) : todo = <<"setKey">> \o t

(* set_key works on the reply that has just been read.                     *)
PowerInv == At("setKey") => \E b, e, m : inter = Power(b, e, m)

KeyInv ==
  /\ call \in AllCalls \cup {"none"}
  /\ TodoInv /\ PowerInv /\ KeyOfTheseNumbers

LEMMA SetKeyAhead ==
  ASSUME NEW t \in Seq(Plain)
  PROVE  /\ <<"setKey">> \o t # <<>> /\ Head(<<"setKey">> \o t) = "setKey"
         /\ Tail(<<"setKey">> \o t) = t
BY DEF Plain, Steps

LEMMA TodoTyped ==
  ASSUME TodoInv, todo # <<>>
  PROVE  Head(todo) \in Steps /\ Tail(todo) \in Seq(Plain)
<1>1. CASE todo \in Seq(Plain)
  <2>1. Head(todo) \in Plain /\ Tail(todo) \in Seq(Plain)
    BY <1>1, HeadTailProperties
  <2> QED BY <2>1 DEF Plain
<1>2. ASSUME NEW t \in Seq(Plain), todo = <<"setKey">> \o t
      PROVE  Head(todo) \in Steps /\ Tail(todo) \in Seq(Plain)
  BY <1>2, SetKeyAhead DEF Steps
<1> QED BY <1>1, <1>2 DEF TodoInv

(* Whatever comes next, after a step or an Err, it is not set_key.         *)
LEMMA PlainAhead ==
  ASSUME KeyInv, todo # <<>>, Step \/ \E why : Fail(why)
  PROVE  todo' \in Seq(Plain) /\ ~At("setKey")' /\ call' = call
<1>1. Head(todo) \in Steps /\ Tail(todo) \in Seq(Plain)
  BY TodoTyped DEF KeyInv
<1>2. todo' \in Seq(Plain)
  <2>1. CASE Step
    BY <1>1, <2>1 DEF Step
  <2>2. ASSUME NEW why, Fail(why) PROVE todo' \in Seq(Plain)
    <3>1. Advice(Head(todo)) \in Seq(Plain)
      BY <1>1, AdvicePlain
    <3>2. Advice(Head(todo)) \o Tail(todo) \in Seq(Plain) /\ <<>> \in Seq(Plain)
      BY <1>1, <3>1, ConcatProperties
    <3> QED BY <2>2, <3>2 DEF Fail
  <2> QED BY <2>1, <2>2
<1>3. ~At("setKey")'
  <2>1. todo' # <<>> => Head(todo') \in Plain
    BY <1>2, HeadTailProperties
  <2> QED BY <2>1 DEF At, Plain
<1>4. call' = call
  BY DEF Step, Fail
<1> QED BY <1>2, <1>3, <1>4

(* A step that makes no key keeps the invariant if it leaves the key and   *)
(* the numbers alone, or lets go of the key.                               *)
LEMMA OrdinaryStep ==
  ASSUME KeyInv, todo # <<>>, Step \/ \E why : Fail(why),
         \/ UNCHANGED <<numbers, key, stale>>
         \/ key' = NoKey
         \/ stale' = TRUE
  PROVE  KeyInv'
<1>1. todo' \in Seq(Plain) /\ ~At("setKey")' /\ call' = call
  BY PlainAhead
<1>2. KeyOfTheseNumbers'
  BY DEF KeyInv, KeyOfTheseNumbers, numbers, Host
<1> QED BY <1>1, <1>2 DEF KeyInv, TodoInv, PowerInv

LEMMA DrawingKeeps ==
  ASSUME KeyInv, NewGenerator \/ NewModulus \/ NewRandom \/ ResetKeyCall
  PROVE  KeyInv'
<1>1. todo # <<>> /\ Step /\ ResetKey
  BY DEF NewGenerator, NewModulus, NewRandom, ResetKeyCall, At
<1>2. key' = NoKey \/ stale' = TRUE
  BY <1>1 DEF ResetKey
<1> QED BY <1>1, <1>2, OrdinaryStep

LEMMA ExchangesKeep ==
  ASSUME KeyInv,
         Sync \/ SetGenerator \/ SetModulus \/ SetEncryptionKey \/ EncryptionReset
  PROVE  KeyInv'
<1>1. todo # <<>> /\ UNCHANGED <<numbers, key, stale>>
  BY DEF Sync, SetGenerator, SetModulus, SetEncryptionKey, EncryptionReset, At, numbers
<1>2. Answered \/ ReplyLost \/ Refused \/ CommandLost \/ Fail("err") \/ Fail("keyNotSet")
  BY DEF Sync, SetGenerator, SetModulus, SetEncryptionKey, EncryptionReset
<1>3. Step \/ \E why : Fail(why)
  BY <1>2 DEF Answered, ReplyLost, Refused, CommandLost
<1> QED BY <1>1, <1>3, OrdinaryStep

LEMMA KeyExchangeKeeps == ASSUME KeyInv, RequestKeyExchange PROVE KeyInv'
<1>1. todo # <<>> /\ UNCHANGED <<numbers, key, stale>>
  BY DEF RequestKeyExchange, At, numbers
<1>2. \/ \E why : Fail(why)
      \/ /\ \E x \in DeviceExponents : inter' = Power(devGen, Device(x), devMod)
         /\ todo' = <<"setKey">> \o Tail(todo) /\ call' = call
  BY DEF RequestKeyExchange, ReplyLost, Refused, CommandLost
<1>3. CASE \E why : Fail(why)
  BY <1>1, <1>3, OrdinaryStep
<1>4. CASE /\ \E x \in DeviceExponents : inter' = Power(devGen, Device(x), devMod)
           /\ todo' = <<"setKey">> \o Tail(todo) /\ call' = call
  <2>1. Tail(todo) \in Seq(Plain)
    BY <1>1, TodoTyped DEF KeyInv
  <2>2. TodoInv' /\ PowerInv'
    BY <1>4, <2>1 DEF TodoInv, PowerInv
  <2>3. KeyOfTheseNumbers'
    BY <1>1 DEF KeyInv, KeyOfTheseNumbers, numbers, Host
  <2> QED BY <1>4, <2>2, <2>3 DEF KeyInv
<1> QED BY <1>2, <1>3, <1>4

LEMMA SetKeyKeeps == ASSUME KeyInv, SetKey PROVE KeyInv'
<1>1. todo # <<>> /\ At("setKey") /\ UNCHANGED numbers
  BY DEF SetKey, At
<1>2. CASE Fail("err") /\ UNCHANGED <<key, stale>>
  BY <1>1, <1>2, OrdinaryStep DEF numbers
<1>3. CASE Step /\ key' = Key(fixed, Raise(inter, Host, mod)) /\ stale' = FALSE
  <2>1. todo' \in Seq(Plain) /\ ~At("setKey")' /\ call' = call
    BY <1>1, <1>3, PlainAhead
  <2>2. PICK b, e, m : inter = Power(b, e, m)
    BY <1>1 DEF KeyInv, PowerInv
  <2>3. /\ Host \in Raise(inter, Host, mod).by
        /\ Raise(inter, Host, mod).modulo[2] = mod
    BY <2>2, RaisedLast
  <2>4. key'.secret = Raise(inter, Host, mod)
    BY <1>3 DEF Key
  <2>5. Host' = Host /\ mod' = mod
    BY <1>1 DEF Host, numbers
  <2>6. KeyOfTheseNumbers'
    BY <2>3, <2>4, <2>5, Zenon DEF KeyOfTheseNumbers
  <2> QED BY <2>1, <2>6 DEF KeyInv, TodoInv, PowerInv
<1> QED BY <1>2, <1>3 DEF SetKey

LEMMA StartKeeps == ASSUME KeyInv, NEW c \in Calls, Start(c) PROVE KeyInv'
<1>1. c \in AllCalls
  BY CallsAssumption
<1>2. todo' \in Seq(Plain)
  BY <1>1, ProgramPlain DEF Start
<1>3. todo' # <<>> => Head(todo') \in Plain
  BY <1>2, HeadTailProperties
<1>4. ~At("setKey")'
  BY <1>3 DEF At, Plain
<1>5. call' = c /\ UNCHANGED <<numbers, key, stale>>
  BY DEF Start, numbers
<1>6. KeyOfTheseNumbers'
  BY <1>5 DEF KeyInv, KeyOfTheseNumbers, numbers, Host
<1> QED BY <1>1, <1>2, <1>4, <1>5, <1>6 DEF KeyInv, TodoInv, PowerInv

LEMMA OthersKeep ==
  ASSUME KeyInv, Poll \/ DeviceRestarts \/ UNCHANGED vars
  PROVE  KeyInv'
<1>1. UNCHANGED <<numbers, key, stale, inter, todo, call>>
  BY DEF Poll, DeviceRestarts, vars, numbers
<1> QED BY <1>1 DEF KeyInv, TodoInv, PowerInv, KeyOfTheseNumbers, At, numbers, Host

LEMMA KeyInvariance == Spec => []KeyInv
<1>1. ASSUME Init PROVE KeyInv
  <2>1. <<>> \in Seq(Plain) /\ ~At("setKey")
    BY <1>1 DEF Init, At
  <2> QED BY <1>1, <2>1 DEF Init, KeyInv, TodoInv, PowerInv, KeyOfTheseNumbers
<1>2. ASSUME KeyInv, [Next]_vars PROVE KeyInv'
  BY <1>2, DrawingKeeps, ExchangesKeep, KeyExchangeKeeps, SetKeyKeeps, StartKeeps,
     OthersKeep DEF Next
<1> QED BY <1>1, <1>2, PTL DEF Spec

(* The session key is None or made of the handle's present numbers, for    *)
(* every sequence of calls and every fault: each of the three calls that   *)
(* draw a number ends with reset_key (device_handle.rs:1001-1030).         *)
THEOREM KeyCorrect == Spec => []KeyOfTheseNumbers
<1>1. KeyInv => KeyOfTheseNumbers
  BY DEF KeyInv
<1> QED BY <1>1, KeyInvariance, PTL
-----------------------------------------------------------------------------
(* Types                                                                   *)

DataInv ==
  /\ gen \in Numbers /\ mod \in Numbers /\ rnd \in Exponents
  /\ fixed \in Fixed /\ devFixed \in Fixed
  /\ key \in Keys /\ devKey \in Keys /\ inter \in Powers
  /\ devGen \in 0..MaxNumber /\ devMod \in 0..MaxNumber /\ devLost \in BOOLEAN
  /\ poller \in BOOLEAN /\ clean \in BOOLEAN /\ stale \in BOOLEAN
  /\ ret \in {"none", "ok", "err", "status", "keyNotSet"}
  /\ At("setKey") => inter.base \in Numbers

LEMMA Constants ==
  /\ Numbers \subseteq Nat /\ Numbers \subseteq 0..MaxNumber /\ 0 \notin Numbers
  /\ \A n \in 0..MaxNumber : n # 0 => n \in Numbers
  /\ 0 \in Fixed /\ 0 \in 0..MaxNumber
  /\ NoPower \in Powers /\ NoKey \in Keys
<1>1. /\ Numbers \subseteq Nat /\ Numbers \subseteq 0..MaxNumber /\ 0 \notin Numbers
      /\ \A n \in 0..MaxNumber : n # 0 => n \in Numbers
      /\ 0 \in Fixed /\ 0 \in 0..MaxNumber
  BY NumberAssumption DEF Numbers, Fixed
<1>2. NoPower \in Powers
  BY Zenon DEF Powers
<1>3. NoKey \in Keys
  BY <1>1, <1>2 DEF NoKey, Keys
<1> QED BY <1>1, <1>2, <1>3

Parties == ({"host"} \X Exponents) \cup ({"device"} \X DeviceExponents)

LEMMA PowerTyped ==
  ASSUME NEW b \in Numbers, NEW e \in Parties, NEW m \in Numbers
  PROVE  Power(b, e, m) \in Powers /\ Power(b, e, m).base \in Numbers
<1>1. {e} \in SUBSET Parties /\ <<m>> \in Seq(Numbers)
  OBVIOUS
<1> QED BY <1>1 DEF Power, Powers, Parties

LEMMA RaiseTyped ==
  ASSUME NEW p \in Powers, p.base \in Numbers, NEW e \in Parties, NEW m \in Numbers
  PROVE  Raise(p, e, m) \in Powers
<1>1. 0 \notin Numbers /\ NoPower.base = 0
  BY Constants DEF NoPower
<1>2. p \in [base : Numbers, by : SUBSET Parties, modulo : Seq(Numbers)]
  BY <1>1 DEF Powers, Parties
<1>3. p.by \cup {e} \in SUBSET Parties
  BY <1>2
<1>4. Append(p.modulo, m) \in Seq(Numbers)
  BY <1>2
<1> QED BY <1>2, <1>3, <1>4 DEF Raise, Powers, Parties

LEMMA RetTyped ==
  ASSUME DataInv,
         Step \/ Fail("err") \/ Fail("status") \/ Fail("keyNotSet")
  PROVE  ret' \in {"none", "ok", "err", "status", "keyNotSet"}
BY DEF Step, Fail

(* Every action but the exchange of powers and set_key.                    *)
LEMMA DataKept ==
  ASSUME KeyInv, DataInv, todo # <<>>,
         Step \/ Fail("err") \/ Fail("status") \/ Fail("keyNotSet"),
         gen' \in Numbers, mod' \in Numbers, rnd' \in Exponents,
         fixed' \in Fixed, devFixed' \in Fixed, key' = key \/ key' = NoKey,
         inter' = inter, devKey' = devKey, poller' = poller,
         devGen' \in 0..MaxNumber, devMod' \in 0..MaxNumber, devLost' \in BOOLEAN,
         clean' \in BOOLEAN, stale' \in BOOLEAN
  PROVE  DataInv'
<1>1. ~At("setKey")'
  BY PlainAhead
<1>2. key' \in Keys
  BY Constants DEF DataInv
<1>3. ret' \in {"none", "ok", "err", "status", "keyNotSet"}
  BY RetTyped
<1>4. inter' \in Powers /\ devKey' \in Keys /\ poller' \in BOOLEAN
  BY DEF DataInv
<1> QED BY <1>1, <1>2, <1>3, <1>4 DEF DataInv

LEMMA DrawingTyped ==
  ASSUME KeyInv, DataInv, NewGenerator \/ NewModulus \/ NewRandom \/ ResetKeyCall
  PROVE  DataInv'
<1>1. todo # <<>> /\ Step /\ ResetKey /\ Rest
  BY DEF NewGenerator, NewModulus, NewRandom, ResetKeyCall, At
<1>2. gen' \in Numbers /\ mod' \in Numbers /\ rnd' \in Exponents
  BY DEF DataInv, NewGenerator, NewModulus, NewRandom, ResetKeyCall, numbers
<1>3. key' = key \/ key' = NoKey
  BY <1>1 DEF ResetKey
<1>4. clean' \in BOOLEAN /\ stale' \in BOOLEAN
  BY <1>1, Zenon DEF ResetKey, DataInv
<1>5. /\ UNCHANGED <<fixed, inter, devGen, devMod, devFixed, devKey, poller>>
      /\ devLost' \in BOOLEAN
  BY <1>1 DEF Rest, device, DataInv
<1>6. fixed' \in Fixed /\ devFixed' \in Fixed /\ devGen' \in 0..MaxNumber
      /\ devMod' \in 0..MaxNumber
  BY <1>5 DEF DataInv
<1> QED BY <1>1, <1>2, <1>3, <1>4, <1>5, <1>6, DataKept

LEMMA CleanTyped ==
  ASSUME DataInv, Answered \/ ReplyLost \/ Refused \/ CommandLost \/ UNCHANGED clean
  PROVE  clean' \in BOOLEAN
BY Zenon DEF DataInv, Answered, ReplyLost, Refused, CommandLost

LEMMA ExchangesTyped ==
  ASSUME KeyInv, DataInv,
         Sync \/ SetGenerator \/ SetModulus \/ SetEncryptionKey \/ EncryptionReset
  PROVE  DataInv'
<1>1. todo # <<>> /\ UNCHANGED <<gen, mod, rnd, key, stale, inter, poller, devKey>>
  BY DEF Sync, SetGenerator, SetModulus, SetEncryptionKey, EncryptionReset, At, numbers,
         Refused, CommandLost, device
<1>2. Answered \/ ReplyLost \/ Refused \/ CommandLost
      \/ (UNCHANGED clean /\ (Fail("err") \/ Fail("keyNotSet")))
  BY DEF Sync, SetGenerator, SetModulus, SetEncryptionKey, EncryptionReset
<1>3. Step \/ Fail("err") \/ Fail("status") \/ Fail("keyNotSet")
  BY <1>2 DEF Answered, ReplyLost, Refused, CommandLost
<1>4. clean' \in BOOLEAN
  BY <1>2, CleanTyped
<1>5. /\ fixed' = fixed \/ fixed' \in Fixed
      /\ devFixed' = devFixed \/ devFixed' = 0 \/ devFixed' \in Fixed
      /\ devGen' = devGen \/ devGen' = gen
      /\ devMod' = devMod \/ devMod' = mod
  BY DEF Sync, SetGenerator, SetModulus, SetEncryptionKey, EncryptionReset,
         Refused, CommandLost, device
<1>6. fixed' \in Fixed /\ devFixed' \in Fixed /\ devGen' \in 0..MaxNumber
      /\ devMod' \in 0..MaxNumber
  BY <1>5, Constants DEF DataInv
<1>7. devLost' \in BOOLEAN
  <2>1. devLost' = devLost \/ devLost' = TRUE
    BY DEF Sync, SetGenerator, SetModulus, SetEncryptionKey, EncryptionReset,
           Refused, CommandLost, device
  <2> QED BY <2>1, Zenon DEF DataInv
<1>8. gen' \in Numbers /\ mod' \in Numbers /\ rnd' \in Exponents /\ stale' \in BOOLEAN
  BY <1>1 DEF DataInv
<1> QED BY <1>1, <1>3, <1>4, <1>6, <1>7, <1>8, DataKept

LEMMA KeyExchangeTyped == ASSUME KeyInv, DataInv, RequestKeyExchange PROVE DataInv'
<1>1. todo # <<>> /\ UNCHANGED <<gen, mod, rnd, fixed, key, stale, poller>>
  BY DEF RequestKeyExchange, At, numbers
<1>2. clean' \in BOOLEAN
  BY CleanTyped DEF RequestKeyExchange
<1>3. \/ UNCHANGED <<inter, device>> /\ (Fail("err") \/ Fail("status"))
      \/ /\ devGen # 0 /\ devMod # 0 /\ devLost' = FALSE
         /\ UNCHANGED <<devGen, devMod, devFixed>>
         /\ \E x \in DeviceExponents :
              /\ devKey' = Key(devFixed, Raise(Power(gen, Host, mod), Device(x), devMod))
              /\ \/ inter' = Power(devGen, Device(x), devMod) /\ ret' = ret
                 \/ inter' = inter /\ Fail("err")
  BY DEF RequestKeyExchange, ReplyLost, Refused, CommandLost
<1>4. CASE UNCHANGED <<inter, device>> /\ (Fail("err") \/ Fail("status"))
  <2>1. UNCHANGED <<devGen, devMod, devFixed, devKey, devLost>>
    BY <1>4 DEF device
  <2>2. /\ gen' \in Numbers /\ mod' \in Numbers /\ rnd' \in Exponents
        /\ fixed' \in Fixed /\ devFixed' \in Fixed /\ stale' \in BOOLEAN
        /\ devGen' \in 0..MaxNumber /\ devMod' \in 0..MaxNumber /\ devLost' \in BOOLEAN
    BY <1>1, <2>1 DEF DataInv
  <2> QED BY <1>1, <1>2, <1>4, <2>1, <2>2, DataKept
<1>5. ASSUME devGen # 0, devMod # 0, devLost' = FALSE,
             UNCHANGED <<devGen, devMod, devFixed>>,
             NEW x \in DeviceExponents,
             devKey' = Key(devFixed, Raise(Power(gen, Host, mod), Device(x), devMod)),
             \/ inter' = Power(devGen, Device(x), devMod) /\ ret' = ret
             \/ inter' = inter /\ Fail("err")
      PROVE  DataInv'
  <2>1. devGen \in Numbers /\ devMod \in Numbers /\ gen \in Numbers /\ mod \in Numbers
    BY <1>5, Constants DEF DataInv
  <2>2. Host \in Parties /\ Device(x) \in Parties
    BY DEF Host, Device, Parties, DataInv
  <2>3. Raise(Power(gen, Host, mod), Device(x), devMod) \in Powers
    BY <2>1, <2>2, PowerTyped, RaiseTyped
  <2>4. devKey' \in Keys
    BY <1>5, <2>3 DEF Key, Keys, DataInv
  <2>5. Power(devGen, Device(x), devMod) \in Powers
        /\ Power(devGen, Device(x), devMod).base \in Numbers
    BY <2>1, <2>2, PowerTyped
  <2>6. CASE inter' = Power(devGen, Device(x), devMod) /\ ret' = ret
    BY <1>1, <1>2, <1>5, <2>4, <2>5, <2>6 DEF DataInv
  <2>7. CASE inter' = inter /\ Fail("err")
    <3>1. ~At("setKey")'
      BY <1>1, <2>7, PlainAhead
    <3>2. ret' \in {"none", "ok", "err", "status", "keyNotSet"}
      BY <2>7, RetTyped
    <3> QED BY <1>1, <1>2, <1>5, <2>4, <2>7, <3>1, <3>2 DEF DataInv
  <2> QED BY <1>5, <2>6, <2>7
<1> QED BY <1>3, <1>4, <1>5

LEMMA SetKeyTyped == ASSUME KeyInv, DataInv, SetKey PROVE DataInv'
<1>1. /\ todo # <<>> /\ At("setKey") /\ inter' = NoPower
      /\ UNCHANGED <<gen, mod, rnd, fixed, devGen, devMod, devFixed, devKey, devLost, poller>>
  BY DEF SetKey, At, numbers, device
<1>2. Step \/ Fail("err")
  BY DEF SetKey
<1>3. ~At("setKey")'
  BY <1>1, <1>2, PlainAhead
<1>4. ret' \in {"none", "ok", "err", "status", "keyNotSet"}
  BY <1>2, RetTyped
<1>5. clean' \in BOOLEAN /\ stale' \in BOOLEAN
  BY Zenon DEF SetKey, DataInv
<1>6. Raise(inter, Host, mod) \in Powers
  <2>1. Host \in Parties
    BY DEF Host, Parties, DataInv
  <2> QED BY <1>1, <2>1, RaiseTyped DEF DataInv
<1>7. key' \in Keys
  <2>1. key' = key \/ key' = Key(fixed, Raise(inter, Host, mod))
    BY DEF SetKey
  <2>2. Key(fixed, Raise(inter, Host, mod)) \in Keys
    BY <1>6 DEF Key, Keys, DataInv
  <2> QED BY <2>1, <2>2 DEF DataInv
<1> QED BY <1>1, <1>3, <1>4, <1>5, <1>7, Constants DEF DataInv

LEMMA WorldTyped ==
  ASSUME KeyInv, DataInv,
         (\E c \in Calls : Start(c)) \/ Poll \/ DeviceRestarts \/ UNCHANGED vars
  PROVE  DataInv'
<1>1. ASSUME NEW c \in Calls, Start(c) PROVE DataInv'
  <2>1. ~At("setKey")'
    <3>1. todo' \in Seq(Plain)
      BY <1>1, CallsAssumption, ProgramPlain DEF Start
    <3>2. todo' # <<>> => Head(todo') \in Plain
      BY <3>1, HeadTailProperties
    <3> QED BY <3>2 DEF At, Plain
  <2>2. clean' \in BOOLEAN
    BY <1>1, Zenon DEF Start
  <2> QED BY <1>1, <2>1, <2>2 DEF Start, DataInv, numbers, device
<1>2. CASE Poll
  BY <1>2 DEF Poll, DataInv, numbers, device, At
<1>3. CASE DeviceRestarts
  <2>1. clean' \in BOOLEAN /\ devLost' \in BOOLEAN
    BY <1>3, Zenon DEF DeviceRestarts
  <2> QED BY <1>3, <2>1, Constants DEF DeviceRestarts, DataInv, numbers, At
<1>4. CASE UNCHANGED vars
  BY <1>4 DEF vars, DataInv, numbers, device, At
<1> QED BY <1>1, <1>2, <1>3, <1>4

(* Every variable keeps its type, and set_key works on a power that the    *)
(* device has raised.                                                      *)
THEOREM Typed == Spec => []TypeOK
<1>1. ASSUME Init PROVE DataInv
  <2>1. ~At("setKey")
    BY <1>1 DEF Init, At
  <2>2. devLost \in BOOLEAN /\ poller \in BOOLEAN /\ clean \in BOOLEAN /\ stale \in BOOLEAN
    BY <1>1, Zenon DEF Init
  <2> QED BY <1>1, <2>1, <2>2, Constants DEF Init, DataInv
<1>2. ASSUME KeyInv, DataInv, [Next]_vars PROVE DataInv'
  BY <1>2, DrawingTyped, ExchangesTyped, KeyExchangeTyped, SetKeyTyped, WorldTyped DEF Next
<1>3. ASSUME KeyInv, DataInv PROVE TypeOK
  <2>1. todo # <<>> => Head(todo) \in Steps
    BY <1>3, TodoTyped DEF KeyInv
  <2>2. At("setKey") => inter # NoPower
    <3>1. NoPower.base \notin Numbers
      BY Constants DEF NoPower
    <3> QED BY <1>3, <3>1 DEF DataInv
  <2> QED BY <1>3, <2>1, <2>2 DEF KeyInv, DataInv, TypeOK
<1> QED BY <1>1, <1>2, <1>3, KeyInvariance, PTL DEF Spec

-----------------------------------------------------------------------------
(* Both sides have the same key                                            *)

Negotiating == call \in {"negotiate", "renegotiate"}

ProgramInv ==
  Negotiating => todo \in {<<>>, LeftSet, Left1, Left2, Left3, Left4, Left5, Left6, Left7}

(* What the device has been sent, unless a restart made it forget.         *)
SentInv ==
  Negotiating =>
    /\ todo = Left2 => devGen \in {gen, 0}
    /\ todo = Left1 => devGen \in {gen, 0} /\ devMod \in {mod, 0}

(* The key that set_key is going to derive is the one the device has.      *)
SecretInv ==
  Negotiating /\ todo = LeftSet => devKey = Key(devFixed, Raise(inter, Host, mod))

(* A renegotiation in which nothing has gone wrong has let go of the key.  *)
CleanInv ==
  call = "renegotiate" /\ clean =>
    /\ todo \in {Left6, Left5, Left4, Left3} => key = NoKey
    /\ todo = Left2 => devGen = gen
    /\ todo = Left1 => devGen = gen /\ devMod = mod

AgreeInv ==
  /\ gen \in Numbers /\ mod \in Numbers
  /\ ProgramInv /\ SentInv /\ SecretInv /\ CleanInv

LEMMA Distinct ==
  /\ Left1 \notin {<<>>, LeftSet, Left2, Left3, Left4, Left5, Left6, Left7}
  /\ Left2 \notin {<<>>, LeftSet, Left3, Left4, Left5, Left6, Left7}
  /\ Left3 \notin {<<>>, LeftSet, Left4, Left5, Left6, Left7}
  /\ Left4 \notin {<<>>, LeftSet, Left5, Left6, Left7}
  /\ Left5 \notin {<<>>, LeftSet, Left6, Left7}
  /\ Left6 \notin {<<>>, LeftSet, Left7}
  /\ Left7 \notin {<<>>, LeftSet} /\ LeftSet # <<>>
<1>1. /\ Left1 # <<>> /\ Left2 # <<>> /\ Left3 # <<>> /\ Left4 # <<>>
      /\ Left5 # <<>> /\ Left6 # <<>> /\ Left7 # <<>>
  BY LeftTails, Zenon
<1>2. /\ Head(Left1) = "exchange" /\ Head(Left2) = "setModulus"
      /\ Head(Left3) = "setGenerator" /\ Head(Left4) = "sync"
      /\ Head(Left5) = "newRandom" /\ Head(Left6) = "newModulus"
      /\ Head(Left7) = "newGenerator" /\ Head(LeftSet) = "setKey" /\ LeftSet # <<>>
  BY LeftTails, Zenon
<1> QED BY <1>1, <1>2

(* The first step left tells how many there are.                           *)
LEMMA Position ==
  ASSUME AgreeInv, Negotiating, todo # <<>>
  PROVE  /\ At("newGenerator") => todo = Left7 /\ Tail(todo) = Left6
         /\ At("newModulus") => todo = Left6 /\ Tail(todo) = Left5
         /\ At("newRandom") => todo = Left5 /\ Tail(todo) = Left4
         /\ At("sync") => todo = Left4 /\ Tail(todo) = Left3
         /\ At("setGenerator") => todo = Left3 /\ Tail(todo) = Left2
         /\ At("setModulus") => todo = Left2 /\ Tail(todo) = Left1
         /\ At("exchange") => todo = Left1 /\ <<"setKey">> \o Tail(todo) = LeftSet
         /\ At("setKey") => todo = LeftSet /\ Tail(todo) = <<>>
         /\ ~At("resetKey") /\ ~At("setFixed") /\ ~At("encryptionReset")
<1>1. todo \in {LeftSet, Left1, Left2, Left3, Left4, Left5, Left6, Left7}
  BY DEF AgreeInv, ProgramInv
<1> QED BY <1>1, LeftTails DEF At

(* An Err ends a negotiation.                                              *)
LEMMA FailEnds ==
  ASSUME Negotiating, NEW why, Fail(why)
  PROVE  todo' = <<>> /\ ret' = why /\ call' = call
BY DEF Negotiating, Fail

(* With nothing left there is nothing to keep but the numbers.             *)
LEMMA NothingLeft ==
  ASSUME AgreeInv, gen' \in Numbers, mod' \in Numbers, call' = call,
         Negotiating => todo' = <<>>
  PROVE  AgreeInv'
<1>1. ~Negotiating => ~Negotiating' /\ call' # "renegotiate"
  BY DEF Negotiating
<1> QED BY <1>1, Distinct DEF AgreeInv, ProgramInv, SentInv, SecretInv, CleanInv, Negotiating

LEMMA DrawingAgrees ==
  ASSUME AgreeInv, NewGenerator \/ NewModulus \/ NewRandom \/ ResetKeyCall
  PROVE  AgreeInv'
<1>1. todo # <<>> /\ todo' = Tail(todo) /\ call' = call /\ ResetKey
  BY DEF NewGenerator, NewModulus, NewRandom, ResetKeyCall, At, Step
<1>2. gen' \in Numbers /\ mod' \in Numbers
  BY DEF AgreeInv, NewGenerator, NewModulus, NewRandom, ResetKeyCall, numbers
<1>3. CASE ~Negotiating
  BY <1>1, <1>2, <1>3, NothingLeft
<1>4. CASE Negotiating
  <2>1. todo' \in {Left6, Left5, Left4}
    BY <1>1, <1>4, Position DEF NewGenerator, NewModulus, NewRandom, ResetKeyCall
  <2>2. clean' => key' = NoKey
    BY <1>1 DEF ResetKey
  <2> QED BY <1>2, <2>1, <2>2, Distinct
          DEF AgreeInv, ProgramInv, SentInv, SecretInv, CleanInv
<1> QED BY <1>3, <1>4

LEMMA SyncAgrees == ASSUME AgreeInv, Sync PROVE AgreeInv'
<1>1. todo # <<>> /\ At("sync") /\ UNCHANGED <<numbers, key>> /\ (clean' => clean)
  BY DEF Sync, At, Answered, Refused, CommandLost, ReplyLost
<1>2. gen' \in Numbers /\ mod' \in Numbers
  BY <1>1 DEF AgreeInv, numbers
<1>3. Step \/ \E why : Fail(why)
  BY DEF Sync, Answered, Refused, CommandLost, ReplyLost
<1>4. call' = call
  BY <1>3 DEF Step, Fail
<1>5. CASE ~Negotiating \/ \E why : Fail(why)
  BY <1>2, <1>4, <1>5, FailEnds, NothingLeft
<1>6. CASE Negotiating /\ Step
  <2>1. todo = Left4 /\ todo' = Left3
    BY <1>1, <1>6, Position DEF Step
  <2>2. call' = "renegotiate" /\ clean' => key' = NoKey
    BY <1>1, <1>4, <2>1 DEF AgreeInv, CleanInv
  <2> QED BY <1>2, <2>1, <2>2, Distinct
          DEF AgreeInv, ProgramInv, SentInv, SecretInv, CleanInv
<1> QED BY <1>3, <1>5, <1>6

LEMMA SetGeneratorAgrees == ASSUME AgreeInv, SetGenerator PROVE AgreeInv'
<1>1. todo # <<>> /\ At("setGenerator") /\ UNCHANGED numbers
  BY DEF SetGenerator, At, numbers
<1>2. gen' \in Numbers /\ mod' \in Numbers /\ gen' = gen
  BY <1>1 DEF AgreeInv, numbers
<1>3. (Step /\ devGen' = gen) \/ \E why : Fail(why)
  BY DEF SetGenerator, Answered, Refused, CommandLost, ReplyLost
<1>4. call' = call
  BY <1>3 DEF Step, Fail
<1>5. CASE ~Negotiating \/ \E why : Fail(why)
  BY <1>2, <1>4, <1>5, FailEnds, NothingLeft
<1>6. CASE Negotiating /\ Step /\ devGen' = gen
  <2>1. todo' = Left2
    BY <1>1, <1>6, Position DEF Step
  <2> QED BY <1>2, <1>6, <2>1, Distinct
          DEF AgreeInv, ProgramInv, SentInv, SecretInv, CleanInv
<1> QED BY <1>3, <1>5, <1>6

LEMMA SetModulusAgrees == ASSUME AgreeInv, SetModulus PROVE AgreeInv'
<1>1. todo # <<>> /\ At("setModulus") /\ UNCHANGED numbers /\ (clean' => clean)
  BY DEF SetModulus, At, numbers, Answered, Refused, CommandLost, ReplyLost
<1>2. gen' \in Numbers /\ mod' \in Numbers /\ gen' = gen /\ mod' = mod
  BY <1>1 DEF AgreeInv, numbers
<1>3. (Step /\ devMod' = mod /\ devGen' = devGen) \/ \E why : Fail(why)
  BY DEF SetModulus, Answered, Refused, CommandLost, ReplyLost
<1>4. call' = call
  BY <1>3 DEF Step, Fail
<1>5. CASE ~Negotiating \/ \E why : Fail(why)
  BY <1>2, <1>4, <1>5, FailEnds, NothingLeft
<1>6. CASE Negotiating /\ Step /\ devMod' = mod /\ devGen' = devGen
  <2>1. todo = Left2 /\ todo' = Left1
    BY <1>1, <1>6, Position DEF Step
  <2>2. devGen \in {gen, 0} /\ (call = "renegotiate" /\ clean => devGen = gen)
    BY <1>6, <2>1 DEF AgreeInv, SentInv, CleanInv
  <2> QED BY <1>1, <1>2, <1>4, <1>6, <2>1, <2>2, Distinct
          DEF AgreeInv, ProgramInv, SentInv, SecretInv, CleanInv
<1> QED BY <1>3, <1>5, <1>6

LEMMA KeyExchangeAgrees == ASSUME AgreeInv, RequestKeyExchange PROVE AgreeInv'
<1>1. todo # <<>> /\ At("exchange") /\ UNCHANGED numbers
  BY DEF RequestKeyExchange, At, numbers
<1>2. gen' \in Numbers /\ mod' \in Numbers /\ Host' = Host /\ mod' = mod
  BY <1>1 DEF AgreeInv, numbers, Host
<1>3. \/ \E why : Fail(why)
      \/ /\ devGen # 0 /\ devMod # 0 /\ devFixed' = devFixed
         /\ todo' = <<"setKey">> \o Tail(todo) /\ call' = call
         /\ \E x \in DeviceExponents :
              /\ devKey' = Key(devFixed, Raise(Power(gen, Host, mod), Device(x), devMod))
              /\ inter' = Power(devGen, Device(x), devMod)
  BY DEF RequestKeyExchange, Refused, CommandLost, ReplyLost
<1>4. call' = call
  BY <1>3 DEF Fail
<1>5. CASE ~Negotiating \/ \E why : Fail(why)
  BY <1>2, <1>4, <1>5, FailEnds, NothingLeft
<1>6. CASE Negotiating /\ ~\E why : Fail(why)
  <2>1. todo = Left1 /\ todo' = LeftSet
    BY <1>1, <1>3, <1>6, Position
  <2>2. devGen = gen /\ devMod = mod
    BY <1>3, <1>6, <2>1 DEF AgreeInv, SentInv
  <2>3. PICK x \in DeviceExponents :
          /\ devKey' = Key(devFixed, Raise(Power(gen, Host, mod), Device(x), mod))
          /\ inter' = Power(gen, Device(x), mod)
    BY <1>3, <1>6, <2>2
  <2>4. Raise(Power(gen, Host, mod), Device(x), mod)
          = Raise(Power(gen, Device(x), mod), Host, mod)
    BY PowersCommute
  <2>5. devKey' = Key(devFixed', Raise(inter', Host', mod'))
    BY <1>2, <1>3, <1>6, <2>3, <2>4, Zenon
  <2>6. SecretInv'
    BY <2>5 DEF SecretInv, Host
  <2> QED BY <1>2, <2>1, <2>6, Distinct DEF AgreeInv, ProgramInv, SentInv, CleanInv
<1> QED BY <1>5, <1>6

LEMMA SetKeyAgrees == ASSUME AgreeInv, SetKey PROVE AgreeInv'
<1>1. todo # <<>> /\ At("setKey") /\ UNCHANGED numbers
  BY DEF SetKey, At
<1>2. gen' \in Numbers /\ mod' \in Numbers
  BY <1>1 DEF AgreeInv, numbers
<1>3. Step \/ Fail("err")
  BY DEF SetKey
<1>4. call' = call
  BY <1>3 DEF Step, Fail
<1>5. Negotiating => todo' = <<>>
  BY <1>1, <1>3, Position, FailEnds DEF Step
<1> QED BY <1>2, <1>4, <1>5, NothingLeft

LEMMA FixedKeysAgree ==
  ASSUME AgreeInv, SetEncryptionKey \/ EncryptionReset
  PROVE  AgreeInv'
<1>1. todo # <<>> /\ (At("setFixed") \/ At("encryptionReset")) /\ UNCHANGED numbers
  BY DEF SetEncryptionKey, EncryptionReset, At, numbers
<1>2. ~Negotiating
  BY <1>1, Position
<1>3. Step \/ \E why : Fail(why)
  BY DEF SetEncryptionKey, EncryptionReset, Answered, Refused, CommandLost, ReplyLost
<1>4. call' = call
  BY <1>3 DEF Step, Fail
<1>5. gen' \in Numbers /\ mod' \in Numbers
  BY <1>1 DEF AgreeInv, numbers
<1> QED BY <1>2, <1>4, <1>5, NothingLeft

LEMMA StartAgrees == ASSUME AgreeInv, NEW c \in Calls, Start(c) PROVE AgreeInv'
<1>1. call' = c /\ todo' = Program(c) /\ UNCHANGED numbers
  BY DEF Start, numbers
<1>2. /\ c = "negotiate" => todo' = Left4
      /\ c = "renegotiate" => todo' = Left7
  BY <1>1, Negotiations
<1>3. gen' \in Numbers /\ mod' \in Numbers
  BY <1>1 DEF AgreeInv, numbers
<1> QED BY <1>1, <1>2, <1>3, Distinct
        DEF AgreeInv, ProgramInv, SentInv, SecretInv, CleanInv, Negotiating

LEMMA OthersAgree ==
  ASSUME AgreeInv, Poll \/ DeviceRestarts \/ UNCHANGED vars
  PROVE  AgreeInv'
<1>1. UNCHANGED <<gen, mod, rnd, key, inter, todo, call, devKey, devFixed>>
  BY DEF Poll, DeviceRestarts, vars, numbers, device
<1>2. \/ UNCHANGED <<devGen, devMod, clean>>
      \/ devGen' = 0 /\ devMod' = 0 /\ clean' = FALSE
  BY DEF Poll, DeviceRestarts, vars, device
<1> QED BY <1>1, <1>2
        DEF AgreeInv, ProgramInv, SentInv, SecretInv, CleanInv, Negotiating, Host

LEMMA AgreeInvariance == Spec => []AgreeInv
<1>1. ASSUME Init PROVE AgreeInv
  BY <1>1, Distinct
     DEF Init, AgreeInv, ProgramInv, SentInv, SecretInv, CleanInv, Negotiating
<1>2. ASSUME AgreeInv, [Next]_vars PROVE AgreeInv'
  BY <1>2, DrawingAgrees, SyncAgrees, SetGeneratorAgrees, SetModulusAgrees,
     KeyExchangeAgrees, SetKeyAgrees, FixedKeysAgree, StartAgrees, OthersAgree DEF Next
<1> QED BY <1>1, <1>2, PTL DEF Spec
(* Only set_key ends a negotiation well.                                   *)
LEMMA EndsWithKey ==
  ASSUME AgreeInv, [Next]_vars, Negotiating, Returns
  PROVE  \/ SetKey /\ Step /\ todo = LeftSet
         \/ \E why \in {"err", "status"} : Fail(why)
<1>1. todo # <<>> /\ todo' = <<>>
  BY DEF Returns
<1>2. /\ ~Poll /\ ~DeviceRestarts /\ ~UNCHANGED vars /\ ~\E c \in Calls : Start(c)
  BY <1>1 DEF Poll, DeviceRestarts, Start, vars
<1>3. CASE NewGenerator \/ NewModulus \/ NewRandom \/ ResetKeyCall
  <2>1. todo' \in {Left6, Left5, Left4}
    BY <1>1, <1>3, Position DEF NewGenerator, NewModulus, NewRandom, ResetKeyCall, Step
  <2> QED BY <1>1, <2>1, Distinct
<1>4. CASE Sync \/ SetGenerator \/ SetModulus
  <2>1. Step \/ \E why \in {"err", "status"} : Fail(why)
    BY <1>4 DEF Sync, SetGenerator, SetModulus, Answered, Refused, CommandLost, ReplyLost
  <2>2. CASE Step
    <3>1. todo' \in {Left3, Left2, Left1}
      BY <1>1, <1>4, <2>2, Position DEF Sync, SetGenerator, SetModulus, Step
    <3> QED BY <1>1, <3>1, Distinct
  <2> QED BY <2>1, <2>2
<1>5. CASE RequestKeyExchange
  <2>1. \/ todo' = <<"setKey">> \o Tail(todo)
        \/ \E why \in {"err", "status"} : Fail(why)
    BY <1>5 DEF RequestKeyExchange, Refused, CommandLost, ReplyLost
  <2>2. CASE todo' = <<"setKey">> \o Tail(todo)
    <3>1. todo' = LeftSet
      BY <1>1, <1>5, <2>2, Position DEF RequestKeyExchange
    <3> QED BY <1>1, <3>1, Distinct
  <2> QED BY <2>1, <2>2
<1>6. CASE SetKey
  <2>1. At("setKey") /\ (Step \/ Fail("err"))
    BY <1>6 DEF SetKey
  <2> QED BY <1>1, <1>6, <2>1, Position
<1>7. ~SetEncryptionKey /\ ~EncryptionReset
  BY <1>1, Position DEF SetEncryptionKey, EncryptionReset
<1> QED BY <1>2, <1>3, <1>4, <1>5, <1>6, <1>7 DEF Next

(* A negotiation that returns Ok has given both sides the same key, if     *)
(* their fixed keys are the same: whatever was refused or lost before, and *)
(* even if the device restarted between the steps                          *)
(* (device_handle.rs:1078-1096, 1516-1540).                                *)
THEOREM KeysCorrect == Spec => KeysAgree
<1>1. ASSUME AgreeInv, [Next]_vars
      PROVE  Negotiated /\ fixed' = devFixed' => key' = devKey'
  <2> SUFFICES ASSUME Negotiated, fixed' = devFixed' PROVE key' = devKey'
    OBVIOUS
  <2>1. Negotiating /\ Returns /\ ret' = "ok"
    BY DEF Negotiated, Negotiating
  <2>2. ASSUME NEW why \in {"err", "status"}, Fail(why) PROVE FALSE
    BY <2>1, <2>2 DEF Fail
  <2>3. SetKey /\ Step /\ todo = LeftSet
    BY <1>1, <2>1, <2>2, EndsWithKey
  <2>4. devKey = Key(devFixed, Raise(inter, Host, mod))
    BY <1>1, <2>1, <2>3 DEF AgreeInv, SecretInv
  <2>5. /\ key' = Key(fixed, Raise(inter, Host, mod))
        /\ fixed' = fixed /\ devFixed' = devFixed /\ devKey' = devKey
    <3>1. ~Fail("err")
      BY <2>2
    <3> QED BY <2>3, <3>1 DEF SetKey, device
  <2>6. fixed = devFixed
    BY <2>5
  <2> QED BY <2>4, <2>5, <2>6
<1> QED BY <1>1, AgreeInvariance, PTL DEF KeysAgree, Spec

(* renegotiate_key returns Ok unless a command of it is refused or lost,   *)
(* the device restarts meanwhile, or a lock is waited for in vain: it has  *)
(* let go of the old key before the sync that would be encrypted with it   *)
(* (device_handle.rs:1088-1096).                                           *)
THEOREM RenegotiationCorrect == Spec => RenegotiationWorks
<1>1. ASSUME AgreeInv, [Next]_vars
      PROVE  Returns /\ call = "renegotiate" /\ clean /\ clean' => ret' = "ok"
  <2> SUFFICES ASSUME Returns, call = "renegotiate", clean, clean' PROVE ret' = "ok"
    OBVIOUS
  <2>1. Negotiating
    BY DEF Negotiating
  <2>2. todo # <<>> /\ todo' = <<>>
    BY DEF Returns
  <2>3. CASE Step
    BY <2>3 DEF Step
  <2>4. ASSUME NEW why \in {"err", "status"}, Fail(why) PROVE FALSE
    <3>1. clean' # FALSE
      OBVIOUS
    <3>2. ~CommandLost /\ ~ReplyLost /\ ~Refused
      BY <3>1 DEF CommandLost, ReplyLost, Refused
    <3>3. ret' = why /\ why # "ok"
      BY <2>4 DEF Fail
    <3>4. ~Step
      BY <3>3 DEF Step
    <3>5. ~Sync
      <4>1. ASSUME Sync PROVE FALSE
        <5>1. todo = Left4
          BY <1>1, <2>1, <2>2, <4>1, Position DEF Sync
        <5>2. key = NoKey
          BY <1>1, <5>1 DEF AgreeInv, CleanInv
        <5> QED BY <3>2, <3>4, <4>1, <5>2 DEF Sync, Answered
      <4> QED BY <4>1
    <3>6. ~RequestKeyExchange
      <4>1. ASSUME RequestKeyExchange PROVE FALSE
        <5>1. todo = Left1 /\ <<"setKey">> \o Tail(todo) = LeftSet
          BY <1>1, <2>1, <2>2, <4>1, Position DEF RequestKeyExchange
        <5>2. devGen # 0 /\ devMod # 0
          <6>1. devGen = gen /\ devMod = mod /\ gen \in Numbers /\ mod \in Numbers
            BY <1>1, <5>1 DEF AgreeInv, CleanInv
          <6> QED BY <6>1, NumberAssumption DEF Numbers
        <5>3. todo' = <<"setKey">> \o Tail(todo)
          BY <3>2, <4>1, <5>2 DEF RequestKeyExchange
        <5> QED BY <2>2, <5>1, <5>3, Distinct
      <4> QED BY <4>1
    <3>7. ~SetGenerator /\ ~SetModulus /\ ~SetKey
      BY <3>1, <3>2, <3>4 DEF SetGenerator, SetModulus, SetKey, Answered
    <3>8. ~NewGenerator /\ ~NewModulus /\ ~NewRandom /\ ~ResetKeyCall
      BY <3>4 DEF NewGenerator, NewModulus, NewRandom, ResetKeyCall
    <3>9. ~SetEncryptionKey /\ ~EncryptionReset
      BY <1>1, <2>1, <2>2, Position DEF SetEncryptionKey, EncryptionReset
    <3>10. ~Poll /\ ~DeviceRestarts /\ ~UNCHANGED vars /\ ~\E c \in Calls : Start(c)
      BY <2>2 DEF Poll, DeviceRestarts, Start, vars
    <3> QED BY <1>1, <3>5, <3>6, <3>7, <3>8, <3>9, <3>10 DEF Next
  <2> QED BY <1>1, <2>1, <2>3, <2>4, EndsWithKey
<1> QED BY <1>1, AgreeInvariance, PTL DEF RenegotiationWorks, Spec
=============================================================================
