--------------------------- MODULE ServerSetupProofs ---------------------------
(***************************************************************************)
(* For every MAX_RESETS and whatever is lost: a server without encryption  *)
(* is handed over with its device disabled, and a server that was not      *)
(* given up on has a configured device.  That a status other than Ok goes  *)
(* unnoticed is left out, by NoRefusal: with it neither holds.             *)
(***************************************************************************)
EXTENDS ServerSetup, SequenceTheorems, TLAPS

NoRefusal == "refuse" \notin Faults

Sent == {"version", "setup", "serial", "enable", "payout", "inhibits", "channelData"}

Has(s, c) == \E i \in 1..Len(s) : s[i] = c

(* The command has still to be sent.                                       *)
Due(c) == Has(todo, c)

Configured ==
  dev.version = "wanted" /\ version = "wanted" /\ dev.channels

(* What enable_device has sent so far has taken effect.                    *)
EnablingInv ==
  pc = "enable" =>
    /\ resets < MaxResets
    /\ Due("version") \/ (dev.version = "wanted" /\ version = "wanted")
    /\ Due("inhibits") \/ dev.channels

EnabledInv ==
  pc \in {"disable", "start", "bind", "ok"} /\ resets < MaxResets => Configured

DisabledInv ==
  pc \in {"start", "bind", "ok"} /\ mode = "clear" => ~Accepts(dev)

(* Only an encrypted setup negotiates, and no more is done after MAX_RESETS. *)
ModeInv ==
  /\ mode = "clear" => ~hasKey
  /\ pc = "negotiate" => mode = "encrypted"
  /\ pc \in {"open", "negotiate", "reset", "reenable", "repoll"} => resets < MaxResets

IInv == TypeOK /\ ModeInv /\ EnablingInv /\ EnabledInv /\ DisabledInv

-----------------------------------------------------------------------------
LEMMA Joined ==
  ASSUME NEW s \in Seq(Sent), NEW t \in Seq(Sent)
  PROVE  /\ s \o t \in Seq(Sent)
         /\ \A c : Has(s, c) \/ Has(t, c) => Has(s \o t, c)
<1>1. /\ s \o t \in Seq(Sent) /\ Len(s \o t) = Len(s) + Len(t)
      /\ \A i \in 1..Len(s) + Len(t) :
           (s \o t)[i] = IF i <= Len(s) THEN s[i] ELSE t[i - Len(s)]
      /\ Len(s) \in Nat /\ Len(t) \in Nat
  BY ConcatProperties, LenProperties
<1>2. ASSUME NEW c, NEW i \in 1..Len(s), s[i] = c PROVE Has(s \o t, c)
  <2>1. i \in 1..Len(s) + Len(t) /\ i <= Len(s)
    BY <1>1
  <2>2. (s \o t)[i] = c /\ i \in 1..Len(s \o t)
    BY <1>1, <1>2, <2>1
  <2> QED BY <2>2 DEF Has
<1>3. ASSUME NEW c, NEW i \in 1..Len(t), t[i] = c PROVE Has(s \o t, c)
  <2>1. /\ Len(s) + i \in 1..Len(s) + Len(t) /\ ~(Len(s) + i <= Len(s))
        /\ (Len(s) + i) - Len(s) = i
    BY <1>1
  <2>2. (s \o t)[Len(s) + i] = c /\ Len(s) + i \in 1..Len(s \o t)
    BY <1>1, <1>3, <2>1
  <2> QED BY <2>2 DEF Has
<1> QED BY <1>1, <1>2, <1>3 DEF Has

(* enable_device_inner sends the version and the inhibits, in either case. *)
LEMMA Program ==
  ASSUME NEW key
  PROVE  /\ EnableProgram(key) \in Seq(Sent)
         /\ Has(EnableProgram(key), "version") /\ Has(EnableProgram(key), "inhibits")
<1> DEFINE payout == IF PayoutUnit /\ key THEN <<"payout">> ELSE <<>>
           last == <<"inhibits", "channelData">>
<1>1. Commands \in Seq(Sent) /\ Has(Commands, "version")
  BY DEF Commands, Sent, Has
<1>2. payout \in Seq(Sent)
  <2>1. <<"payout">> \in Seq(Sent) /\ <<>> \in Seq(Sent)
    BY DEF Sent
  <2> QED BY <2>1
<1>3. last \in Seq(Sent) /\ Has(last, "inhibits")
  BY DEF Sent, Has
<1> HIDE DEF payout, last
<1>4. Commands \o payout \in Seq(Sent) /\ Has(Commands \o payout, "version")
  BY <1>1, <1>2, Joined
<1>5. /\ (Commands \o payout) \o last \in Seq(Sent)
      /\ Has((Commands \o payout) \o last, "version")
      /\ Has((Commands \o payout) \o last, "inhibits")
  BY <1>3, <1>4, Joined
<1> QED BY <1>5 DEF EnableProgram, payout, last

(* A step through the program: only the command sent is not due any more.  *)
LEMMA OneSent ==
  ASSUME todo \in Seq(Sent), todo # <<>>, todo' = Tail(todo)
  PROVE  /\ Head(todo) \in Sent /\ todo' \in Seq(Sent)
         /\ \A c : Due(c) => c = Head(todo) \/ Due(c)'
<1>1. /\ Head(todo) \in Sent /\ todo' \in Seq(Sent)
      /\ Len(todo') = Len(todo) - 1 /\ Len(todo) \in Nat
      /\ \A i \in 1..Len(todo) - 1 : todo'[i] = todo[i + 1]
      /\ Head(todo) = todo[1]
  BY HeadTailProperties, LenProperties
<1>2. ASSUME NEW c, NEW i \in 1..Len(todo), todo[i] = c, i # 1
      PROVE  Due(c)'
  <2>1. i - 1 \in 1..Len(todo) - 1 /\ (i - 1) + 1 = i
    BY <1>1, <1>2
  <2>2. todo'[i - 1] = c /\ i - 1 \in 1..Len(todo')
    BY <1>1, <1>2, <2>1
  <2> QED BY <2>2 DEF Due, Has
<1> QED BY <1>1, <1>2 DEF Due, Has

Devices == [version : Versions, enabled : BOOLEAN, payout : BOOLEAN,
            channels : BOOLEAN, session : BOOLEAN]

LEMMA OffTyped == Off \in Devices
BY Zenon DEF Off, Devices, Versions

LEMMA EffectTyped ==
  ASSUME NEW d \in Devices, NEW c, NEW v \in Versions
  PROVE  Effect(d, c, v) \in Devices
BY OffTyped DEF Effect, Devices

LEMMA RepliesTyped ==
  ASSUME TypeOK, NEW c, NEW v \in Versions, NEW key, Succeeds(c, v, key) \/ Fails(c, v, key)
  PROVE  dev' \in Devices /\ clean' \in BOOLEAN
<1>1. dev \in Devices /\ clean \in BOOLEAN
  BY DEF TypeOK, Devices
<1>2. dev' \in {dev, Effect(dev, c, v)}
  BY DEF Succeeds, Fails
<1>3. clean' = clean \/ clean' = FALSE
  BY DEF Succeeds, Fails
<1>4. Effect(dev, c, v) \in Devices
  BY <1>1, EffectTyped
<1>5. dev' \in Devices
  BY <1>1, <1>2, <1>4
<1>6. clean' \in BOOLEAN
  BY <1>1, <1>3, Zenon
<1> QED BY <1>5, <1>6

-----------------------------------------------------------------------------
LEMMA InitIInv == ASSUME Init PROVE IInv
<1>1. dev \in Devices
  <2>1. [version |-> "default", enabled |-> TRUE, payout |-> TRUE,
         channels |-> TRUE, session |-> FALSE] \in Devices
    BY Zenon DEF Devices, Versions
  <2> QED BY <2>1, OffTyped DEF Init
<1>2. hasKey \in BOOLEAN /\ polling \in BOOLEAN /\ clean \in BOOLEAN
  BY Zenon DEF Init
<1>3. <<>> \in Seq(Sent) /\ 0 \in 0..MaxResets /\ 0 < MaxResets
  BY ResetAssumption
<1>4. TypeOK
  BY <1>1, <1>2, <1>3 DEF Init, TypeOK, Devices, Sent, Versions
<1> QED BY <1>3, <1>4 DEF Init, IInv, ModeInv, EnablingInv, EnabledInv, DisabledInv
-----------------------------------------------------------------------------
(* The actions                                                             *)

LEMMA OpenKeeps == ASSUME IInv, Open PROVE IInv'
<1> DEFINE program == EnableProgram(FALSE)
<1>1. program \in Seq(Sent) /\ Has(program, "version") /\ Has(program, "inhibits")
  BY Program
<1> HIDE DEF program
<1>2. polling' \in BOOLEAN /\ hasKey' \in BOOLEAN /\ clean' \in BOOLEAN
  BY Zenon DEF IInv, TypeOK, Open
<1>3. \/ mode = "encrypted" /\ pc' = "negotiate" /\ todo' = <<>>
      \/ mode # "encrypted" /\ pc' = "enable" /\ todo' = program
  BY DEF Open, program
<1>4. <<>> \in Seq(Sent) /\ pc = "open" /\ UNCHANGED <<mode, hasKey, version, resets, dev>>
  BY DEF Open
<1>5. TypeOK'
  BY <1>1, <1>2, <1>3, <1>4 DEF IInv, TypeOK, Sent
<1>6. ModeInv' /\ EnabledInv' /\ DisabledInv'
  BY <1>3, <1>4 DEF IInv, ModeInv, EnabledInv, DisabledInv
<1>7. EnablingInv'
  BY <1>1, <1>3, <1>4 DEF IInv, ModeInv, EnablingInv, Due
<1> QED BY <1>5, <1>6, <1>7 DEF IInv

LEMMA NegotiateKeyKeeps == ASSUME IInv, NegotiateKey PROVE IInv'
<1> DEFINE program == EnableProgram(TRUE)
<1>1. program \in Seq(Sent) /\ Has(program, "version") /\ Has(program, "inhibits")
  BY Program
<1> HIDE DEF program
<1>2. version \in Versions
  BY DEF IInv, TypeOK
<1>3. dev' \in Devices /\ clean' \in BOOLEAN
  BY <1>2, RepliesTyped DEF IInv, NegotiateKey
<1>4. \/ hasKey' = TRUE /\ pc' = "enable" /\ todo' = program
      \/ hasKey' = hasKey /\ pc' = "err" /\ todo' = todo
  BY DEF NegotiateKey, program
<1>5. hasKey' \in BOOLEAN /\ polling' \in BOOLEAN
  BY <1>4, Zenon DEF IInv, TypeOK, NegotiateKey
<1>6. pc = "negotiate" /\ UNCHANGED <<mode, version, resets>>
  BY DEF NegotiateKey
<1>7. TypeOK'
  BY <1>1, <1>3, <1>4, <1>5, <1>6 DEF IInv, TypeOK, Devices, Sent
<1>8. ModeInv' /\ EnabledInv' /\ DisabledInv'
  BY <1>4, <1>6 DEF IInv, ModeInv, EnabledInv, DisabledInv
<1>9. EnablingInv'
  BY <1>1, <1>4, <1>6 DEF IInv, ModeInv, EnablingInv, Due
<1> QED BY <1>7, <1>8, <1>9 DEF IInv

LEMMA EnableStepKeeps == ASSUME NoRefusal, IInv, EnableStep PROVE IInv'
<1> DEFINE c == Head(todo)
<1>1. /\ Enabling /\ todo # <<>> /\ todo' = Tail(todo)
      /\ UNCHANGED <<mode, pc, hasKey, resets, polling>>
      /\ version' = IF c = "version" THEN VersionSent ELSE version
      /\ Succeeds(c, VersionSent, KeyOf(pc))
  BY DEF EnableStep
<1>2. todo \in Seq(Sent) /\ version \in Versions \ {"none"} /\ dev \in Devices
  BY DEF IInv, TypeOK, Sent, Devices
<1>3. c \in Sent /\ todo' \in Seq(Sent) /\ \A d : Due(d) => d = c \/ Due(d)'
  BY <1>1, <1>2, OneSent
<1> HIDE DEF c
<1>4. VersionSent \in Versions \ {"none"} /\ (pc = "enable" => VersionSent = "wanted")
  BY <1>2 DEF VersionSent, Versions
<1>5. dev' \in Devices /\ clean' \in BOOLEAN
  BY <1>1, <1>4, RepliesTyped DEF IInv
<1>6. dev' = Effect(dev, c, VersionSent)
  BY <1>1 DEF Succeeds, NoRefusal
<1>7. TypeOK'
  BY <1>1, <1>2, <1>3, <1>4, <1>5 DEF IInv, TypeOK, Devices, Sent
<1>8. ModeInv' /\ EnabledInv' /\ DisabledInv'
  BY <1>1 DEF IInv, ModeInv, Enabling, EnabledInv, DisabledInv
<1>9. /\ dev'.version = IF c = "version" THEN VersionSent ELSE dev.version
      /\ dev'.channels = IF c = "inhibits" THEN TRUE ELSE dev.channels
  BY <1>2, <1>3, <1>6 DEF Effect, Sent, Devices
<1>10. ASSUME pc = "enable"
       PROVE  /\ Due("version")' \/ (dev'.version = "wanted" /\ version' = "wanted")
              /\ Due("inhibits")' \/ dev'.channels
  <2>1. CASE c = "version"
    BY <1>1, <1>3, <1>4, <1>9, <1>10, <2>1 DEF IInv, EnablingInv
  <2>2. CASE c = "inhibits"
    BY <1>1, <1>3, <1>9, <1>10, <2>2 DEF IInv, EnablingInv
  <2>3. CASE c # "version" /\ c # "inhibits"
    BY <1>1, <1>3, <1>9, <1>10, <2>3 DEF IInv, EnablingInv
  <2> QED BY <2>1, <2>2, <2>3
<1>11. EnablingInv'
  BY <1>1, <1>10 DEF IInv, EnablingInv
<1> QED BY <1>7, <1>8, <1>11 DEF IInv

LEMMA EnableFailsKeeps == ASSUME IInv, EnableFails PROVE IInv'
<1>1. Fails(Head(todo), VersionSent, KeyOf(pc)) /\ VersionSent \in Versions
  BY DEF EnableFails, IInv, TypeOK, VersionSent, Versions
<1>2. dev' \in Devices /\ clean' \in BOOLEAN
  BY <1>1, RepliesTyped DEF IInv
<1>3. /\ pc' \in {"repoll", "err", "reset"} /\ todo' = <<>>
      /\ UNCHANGED <<mode, hasKey, version, resets, polling>>
  BY DEF EnableFails
<1>4. <<>> \in Seq(Sent)
  OBVIOUS
<1>5. TypeOK'
  BY <1>2, <1>3, <1>4 DEF IInv, TypeOK, Devices, Sent
<1>6. (pc' = "reset" \/ pc' = "repoll") => resets < MaxResets
  BY DEF EnableFails, Enabling, IInv, ModeInv, EnablingInv
<1> QED BY <1>3, <1>5, <1>6 DEF IInv, ModeInv, EnablingInv, EnabledInv, DisabledInv

LEMMA EnabledKeeps == ASSUME IInv, Enabled PROVE IInv'
<1>1. /\ todo = <<>> /\ Enabling
      /\ UNCHANGED <<mode, todo, hasKey, version, resets, polling, dev, clean>>
      /\ pc' = CASE pc = "reenable" -> "repoll"
                 [] pc = "enable" /\ mode = "auto" -> "ok"
                 [] OTHER -> "disable"
  BY DEF Enabled
<1>2. ~Due("version") /\ ~Due("inhibits")
  BY <1>1 DEF Due, Has
<1>3. pc = "enable" => Configured
  BY <1>2 DEF IInv, EnablingInv, Configured
<1>4. TypeOK'
  BY <1>1 DEF IInv, TypeOK, Enabling
<1>5. EnabledInv'
  BY <1>1, <1>3 DEF EnabledInv, Configured, Enabling
<1>6. ModeInv' /\ EnablingInv' /\ DisabledInv'
  BY <1>1 DEF IInv, ModeInv, EnablingInv, DisabledInv, Enabling
<1> QED BY <1>4, <1>5, <1>6 DEF IInv

(* The loop of new_uds goes round, or on to disable the device.            *)
LEMMA ResetOverKeeps ==
  ASSUME IInv, NEW ok, ResetOver(ok), UNCHANGED <<mode, hasKey, version, polling>>,
         dev' \in Devices, clean' \in BOOLEAN, pc \in {"reset", "repoll"},
         resets < MaxResets
  PROVE  IInv'
<1> DEFINE program == EnableProgram(hasKey)
<1>1. program \in Seq(Sent) /\ Has(program, "version") /\ Has(program, "inhibits")
  BY Program
<1> HIDE DEF program
<1>2. /\ resets' = resets + 1
      /\ \/ resets' >= MaxResets /\ pc' = "disable" /\ todo' = todo
         \/ ~(resets' >= MaxResets) /\ pc' = "enable" /\ todo' = program
  BY DEF ResetOver, program
<1>3. resets \in 0..MaxResets /\ MaxResets \in Nat
  BY ResetAssumption DEF IInv, TypeOK
<1>4. resets' \in 0..MaxResets
  BY <1>2, <1>3
<1>5. TypeOK'
  BY <1>1, <1>2, <1>4 DEF IInv, TypeOK, Devices, Sent
<1>6. ModeInv' /\ DisabledInv'
  BY <1>2 DEF IInv, ModeInv, DisabledInv
<1>7. EnablingInv' /\ EnabledInv'
  BY <1>1, <1>2, <1>3 DEF EnablingInv, EnabledInv, Due
<1> QED BY <1>5, <1>6, <1>7 DEF IInv

LEMMA ResetKeeps == ASSUME IInv, Reset PROVE IInv'
<1> DEFINE program == EnableProgram(FALSE)
<1>1. program \in Seq(Sent)
  BY Program
<1> HIDE DEF program
<1>2. dev' \in Devices
  <2>1. dev \in Devices
    BY DEF IInv, TypeOK, Devices
  <2>2. dev' \in {dev, Off}
    BY DEF Reset
  <2> QED BY <2>1, <2>2, OffTyped
<1>3. clean' \in BOOLEAN
  BY Zenon DEF Reset
<1>4. pc = "reset" /\ UNCHANGED <<mode, hasKey, version, polling>>
  BY DEF Reset
<1>5. CASE pc' = "reenable" /\ todo' = EnableProgram(FALSE) /\ UNCHANGED resets
  <2>1. TypeOK'
    BY <1>1, <1>2, <1>3, <1>4, <1>5 DEF IInv, TypeOK, Devices, Sent, program
  <2> QED BY <1>4, <1>5, <2>1 DEF IInv, ModeInv, EnablingInv, EnabledInv, DisabledInv
<1>6. CASE ResetOver(FALSE)
  BY <1>2, <1>3, <1>4, <1>6, ResetOverKeeps DEF IInv, ModeInv
<1> QED BY <1>5, <1>6 DEF Reset

LEMMA RepollKeeps == ASSUME IInv, Repoll PROVE IInv'
<1>1. dev' \in Devices /\ clean' \in BOOLEAN
  <2>1. version \in Versions
    BY DEF IInv, TypeOK
  <2> QED BY <2>1, RepliesTyped DEF IInv, Repoll
<1>2. pc = "repoll" /\ UNCHANGED <<mode, hasKey, version, polling>>
  BY DEF Repoll
<1> QED BY <1>1, <1>2, ResetOverKeeps DEF IInv, ModeInv, Repoll

LEMMA DisableKeeps == ASSUME NoRefusal, IInv, Disable PROVE IInv'
<1> DEFINE c == IF mode = "encrypted" THEN "disablePayout" ELSE "disable"
<1>1. version \in Versions /\ dev \in Devices
  BY DEF IInv, TypeOK, Devices
<1>2. dev' \in Devices /\ clean' \in BOOLEAN
  BY <1>1, RepliesTyped DEF IInv, Disable
<1>3. pc = "disable" /\ UNCHANGED <<mode, todo, hasKey, version, resets, polling>>
  BY DEF Disable
<1>4. \/ pc' = "start" /\ Succeeds(c, version, hasKey)
      \/ pc' = "err"
  BY DEF Disable
<1>5. CASE pc' = "start"
  <2>1. dev' = Effect(dev, c, version)
    BY <1>4, <1>5 DEF Succeeds, NoRefusal
  <2>2. dev'.version = dev.version /\ dev'.channels = dev.channels
    BY <1>1, <2>1 DEF Effect, Devices
  <2>3. mode = "clear" => ~dev'.enabled
    BY <1>1, <2>1 DEF Effect, Devices
  <2>4. TypeOK'
    BY <1>2, <1>3, <1>5 DEF IInv, TypeOK, Devices
  <2> QED BY <1>3, <1>5, <2>2, <2>3, <2>4
          DEF IInv, ModeInv, EnablingInv, EnabledInv, DisabledInv, Configured, Accepts
<1>6. CASE pc' = "err"
  <2>1. TypeOK'
    BY <1>2, <1>3, <1>6 DEF IInv, TypeOK, Devices
  <2> QED BY <1>3, <1>6, <2>1 DEF IInv, ModeInv, EnablingInv, EnabledInv, DisabledInv
<1> QED BY <1>4, <1>5, <1>6

LEMMA LastStepsKeep == ASSUME IInv, StartPolling \/ Bind PROVE IInv'
<1>1. /\ UNCHANGED <<mode, todo, hasKey, version, resets, dev, clean>>
      /\ \/ pc = "start" /\ pc' = "bind"
         \/ pc = "bind" /\ pc' \in {"ok", "err"}
  BY DEF StartPolling, Bind
<1>2. polling' \in BOOLEAN
  BY Zenon DEF IInv, TypeOK, StartPolling, Bind
<1>3. TypeOK'
  BY <1>1, <1>2 DEF IInv, TypeOK
<1> QED BY <1>1, <1>3 DEF IInv, ModeInv, EnablingInv, EnabledInv, DisabledInv,
                          Configured, Accepts

LEMMA Invariance == ASSUME NoRefusal PROVE Spec => []IInv
<1>1. ASSUME IInv, UNCHANGED vars PROVE IInv'
  BY <1>1 DEF IInv, TypeOK, ModeInv, EnablingInv, EnabledInv, DisabledInv,
              Configured, Accepts, Due, vars
<1>2. ASSUME IInv, [Next]_vars PROVE IInv'
  BY <1>1, <1>2, OpenKeeps, NegotiateKeyKeeps, EnableStepKeeps, EnableFailsKeeps,
     EnabledKeeps, ResetKeeps, RepollKeeps, DisableKeeps, LastStepsKeep DEF Next
<1> QED BY <1>2, InitIInv, PTL DEF Spec

(* Unless a command is refused, a server without encryption is handed over *)
(* with a device that takes no notes: disable is the last command of       *)
(* new_uds, and its Err is the setup's (server.rs:111-119).                *)
THEOREM ClearCorrect == ASSUME NoRefusal PROVE Spec => []ClearWaitsForClient
<1>1. IInv => ClearWaitsForClient
  BY DEF IInv, DisabledInv, ClearWaitsForClient
<1> QED BY <1>1, Invariance, PTL

(* Unless a command is refused, a server that new_uds did not give up on   *)
(* has a device with the caller's protocol version and with open channels: *)
(* it comes from an enable_device all of whose commands took effect, which *)
(* undoes the default version of full_reset (server.rs:94-109).            *)
THEOREM ConfiguredCorrect == ASSUME NoRefusal PROVE Spec => []ConfiguredUnlessGivenUp
<1>1. IInv => ConfiguredUnlessGivenUp
  BY DEF IInv, EnabledInv, Configured, ConfiguredUnlessGivenUp
<1> QED BY <1>1, Invariance, PTL
=============================================================================
