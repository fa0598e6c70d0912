---------------------------- MODULE KeyNegotiation ----------------------------
(***************************************************************************)
(* The eSSP session key (src/device_handle.rs 246-291, 1001-1096,          *)
(* 1478-1585): the host draws a generator, a modulus and a random number,  *)
(* sends the first two, and exchanges powers with the device; the key is   *)
(* made of the secret both derive and of a fixed key, which                *)
(* set_encryption_key changes on both sides.                               *)
(*                                                                         *)
(* The calls are made by one thread (most take &mut self); the polling     *)
(* thread shares only the port and the key, which it locks for every poll. *)
(* The powers are kept as terms: which base was raised by whom, modulo     *)
(* what.  The device is external: it raises what it is sent with the       *)
(* numbers it has, may refuse any command, and forgets the session, but    *)
(* not the fixed key, when it restarts.                                    *)
(***************************************************************************)
EXTENDS Naturals, Sequences

CONSTANTS
  Calls,            \* the calls the application makes: see Program
  MaxNumber,        \* bound: the primes are 1..MaxNumber, in their order
  MaxExponent,      \* bound: the random numbers of the handle
  MaxDeviceExponent, \* bound: those of the device
  MaxFixed,         \* bound: fixed keys, 0 is DEFAULT_FIXED_KEY
  Faults,           \* "refuse", "lose", "restart"
  Polling           \* a polling thread runs beside

AllCalls == {"negotiate", "renegotiate", "careful", "newGenerator", "newModulus",
             "newRandom", "resetKey", "sync", "setGenerator", "setModulus",
             "exchange", "setFixed", "encryptionReset"}

ASSUME CallsAssumption == Calls \subseteq AllCalls
ASSUME NumberAssumption ==
  /\ MaxNumber \in Nat /\ MaxExponent \in Nat
  /\ MaxDeviceExponent \in Nat /\ MaxFixed \in Nat
ASSUME FaultAssumption == Faults \subseteq {"refuse", "lose", "restart"}
ASSUME PollingAssumption == Polling \in BOOLEAN

Numbers == 1..MaxNumber
Exponents == 1..MaxExponent
DeviceExponents == 1..MaxDeviceExponent
Fixed == 0..MaxFixed
NoPower == [base |-> 0, by |-> {}, modulo |-> <<>>]
NoKey == [fixed |-> 0, secret |-> NoPower]

VARIABLES
  gen, mod, rnd,    \* generator, modulus and random of the handle; 0: not set
  fixed,            \* its fixed_key
  key,              \* its session key, under a mutex of its own
  inter,            \* the power in the device's reply
  devGen, devMod,   \* what the device has been sent
  devFixed, devKey, \* the device's fixed key; the last session key it made
  devLost,          \* it has forgotten that session
  poller,           \* the polling thread holds the port and the key
  call, todo, ret,  \* the call, the steps it has left, what it returned
  clean,            \* nothing has gone wrong in this call
  stale             \* a reset_key has given up waiting for the lock

numbers == <<gen, mod, rnd>>
device == <<devGen, devMod, devFixed, devKey, devLost>>
vars == <<numbers, fixed, key, inter, device, poller, call, todo, ret, clean, stale>>

Negotiate == <<"sync", "setGenerator", "setModulus", "exchange">>
Draw == <<"newGenerator", "newModulus", "newRandom">>

(* Mutant: the new modulus is drawn when the old one has been sent.        *)
ProgramDrawsLate(c) ==
  IF c = "renegotiate"
  THEN <<"newGenerator", "newRandom", "sync", "setGenerator", "setModulus",
         "newModulus", "exchange">>
  ELSE IF c = "negotiate" THEN Negotiate ELSE <<c>>

(* negotiate_key and renegotiate_key call the others.  "careful" is an     *)
(* application that calls them one by one and retries as their             *)
(* documentation says (1478-1546), then sets a new fixed key.              *)
Program(c) ==
  CASE c = "negotiate"   -> Negotiate
    [] c = "renegotiate" -> Draw \o Negotiate
    [] c = "careful"     -> Negotiate \o <<"setFixed">>
    [] OTHER             -> <<c>>

Steps == {"newGenerator", "newModulus", "newRandom", "resetKey", "sync",
          "setGenerator", "setModulus", "exchange", "setKey", "setFixed",
          "encryptionReset"}

(* What the documentation advises to draw anew before trying again.        *)
Advice(s) ==
  CASE s = "setGenerator"             -> <<"newGenerator", s>>
    [] s \in {"exchange", "setKey"}     -> <<"newRandom", "exchange">>
    [] s \in {"setModulus", "setFixed"} -> <<"newModulus", s>>
    [] OTHER                            -> <<>>

At(s) == todo # <<>> /\ Head(todo) = s

Step == todo' = Tail(todo) /\ ret' = "ok" /\ UNCHANGED call

(* An Err, or a status that status_res makes one, ends the call; the       *)
(* careful application goes on as advised, unless it has no key.           *)
Fail(why) ==
  /\ todo' = IF call = "careful" /\ why # "keyNotSet" /\ Advice(Head(todo)) # <<>>
             THEN Advice(Head(todo)) \o Tail(todo) ELSE <<>>
  /\ ret' = why /\ UNCHANGED call

-----------------------------------------------------------------------------
(* Powers and keys                                                         *)

Power(base, e, m) == [base |-> base, by |-> {e}, modulo |-> <<m>>]

Raise(p, e, m) ==
  [base |-> p.base, by |-> p.by \cup {e}, modulo |-> Append(p.modulo, m)]

Host == <<"host", rnd>>
Device(x) == <<"device", x>>

Key(f, p) == [fixed |-> f, secret |-> p]

-----------------------------------------------------------------------------
(* Drawing numbers                                                         *)

(* Mutant: the key stays when the numbers change.                          *)
ResetKeyNot == UNCHANGED <<key, stale, clean>>

(* The key is None afterwards, unless the polling thread keeps the lock    *)
(* for 5 s (a poll may take 10): nothing happens then.                     *)
ResetKey ==
  \/ key' = NoKey /\ UNCHANGED <<stale, clean>>
  \/ poller /\ UNCHANGED key /\ stale' = TRUE /\ clean' = FALSE

Rest == UNCHANGED <<fixed, inter, device, poller>>

NewGenerator ==
  /\ At("newGenerator") /\ Step
  /\ gen' \in Numbers \ {mod}
  /\ UNCHANGED <<mod, rnd>>
  /\ ResetKey /\ Rest

(* The smaller of the generator and the new number is the modulus.         *)
NewModulus ==
  /\ At("newModulus") /\ Step
  /\ \E m \in Numbers \ {gen} :
       IF gen < m THEN gen' = m /\ mod' = gen ELSE mod' = m /\ UNCHANGED gen
  /\ UNCHANGED rnd
  /\ ResetKey /\ Rest

NewRandom ==
  /\ At("newRandom") /\ Step
  /\ rnd' \in Exponents
  /\ UNCHANGED <<gen, mod>>
  /\ ResetKey /\ Rest

ResetKeyCall ==
  /\ At("resetKey") /\ Step
  /\ UNCHANGED numbers
  /\ ResetKey /\ Rest

-----------------------------------------------------------------------------
(* Exchanges with the device                                               *)

(* The command did not get there, or the port stayed locked for 10 s.      *)
CommandLost ==
  /\ "lose" \in Faults \/ poller
  /\ Fail("err") /\ clean' = FALSE
  /\ UNCHANGED device

(* The device has done it, and the caller sees an Err.                     *)
ReplyLost == "lose" \in Faults /\ ~poller /\ Fail("err") /\ clean' = FALSE

Refused ==
  /\ "refuse" \in Faults /\ ~poller
  /\ Fail("status") /\ clean' = FALSE
  /\ UNCHANGED device

Answered == ~poller /\ Step /\ UNCHANGED clean

Understands == ~devLost /\ key = devKey

(* sync is encrypted when there is a key; the others are not.              *)
Sync ==
  /\ At("sync")
  /\ \/ (key = NoKey \/ Understands) /\ (Answered \/ Refused) /\ UNCHANGED device
     \/ key # NoKey /\ ~Understands /\ ~poller /\ Fail("err")
          /\ UNCHANGED <<device, clean>>
     \/ CommandLost
     \/ ReplyLost /\ UNCHANGED device
  /\ UNCHANGED <<numbers, fixed, key, inter, poller, stale>>

SetGenerator ==
  /\ At("setGenerator")
  /\ \/ (Answered \/ ReplyLost) /\ devGen' = gen
          /\ UNCHANGED <<devMod, devFixed, devKey, devLost>>
     \/ Refused \/ CommandLost
  /\ UNCHANGED <<numbers, fixed, key, inter, poller, stale>>

SetModulus ==
  /\ At("setModulus")
  /\ \/ (Answered \/ ReplyLost) /\ devMod' = mod
          /\ UNCHANGED <<devGen, devFixed, devKey, devLost>>
     \/ Refused \/ CommandLost
  /\ UNCHANGED <<numbers, fixed, key, inter, poller, stale>>

(* request_key_exchange: the device derives its key, and the handle lets   *)
(* go of the port before it locks the key to set its own.                  *)
RequestKeyExchange ==
  /\ At("exchange")
  /\ \/ /\ devGen # 0 /\ devMod # 0 /\ ~poller
        /\ \E x \in DeviceExponents :
             /\ devKey' = Key(devFixed, Raise(Power(gen, Host, mod), Device(x), devMod))
             /\ \/ /\ inter' = Power(devGen, Device(x), devMod)
                   /\ todo' = <<"setKey">> \o Tail(todo)
                   /\ UNCHANGED <<call, ret, clean>>
                \/ ReplyLost /\ UNCHANGED inter
        /\ devLost' = FALSE
        /\ UNCHANGED <<devGen, devMod, devFixed>>
     \/ (Refused \/ CommandLost) /\ UNCHANGED inter
     \/ (devGen = 0 \/ devMod = 0) /\ ~poller /\ Fail("status")
          /\ UNCHANGED <<inter, device, clean>>
  /\ UNCHANGED <<numbers, fixed, key, poller, stale>>

(* set_key, or an Err when the key stays locked for 5 s.                   *)
SetKey ==
  /\ At("setKey")
  /\ \/ ~poller /\ Step /\ UNCHANGED clean
          /\ key' = Key(fixed, Raise(inter, Host, mod)) /\ stale' = FALSE
     \/ poller /\ Fail("err") /\ clean' = FALSE /\ UNCHANGED <<key, stale>>
  /\ inter' = NoPower
  /\ UNCHANGED <<numbers, fixed, device, poller>>

(* set_encryption_key: the new fixed key is kept whenever a reply was      *)
(* read, and the status is left to the caller.                             *)
SetEncryptionKey ==
  /\ At("setFixed")
  /\ \/ /\ key = NoKey /\ Fail("keyNotSet")
        /\ UNCHANGED <<fixed, device, clean>>
     \/ /\ key # NoKey /\ Understands
        /\ \E f \in Fixed \ {0} :
             \/ Answered /\ fixed' = f /\ devFixed' = f
                  /\ UNCHANGED <<devGen, devMod, devKey, devLost>>
             \/ Refused /\ fixed' = f
             \/ ReplyLost /\ UNCHANGED fixed /\ devFixed' = f
                  /\ UNCHANGED <<devGen, devMod, devKey, devLost>>
     \/ /\ key # NoKey /\ ~Understands /\ ~poller
        /\ Fail("err") /\ UNCHANGED <<fixed, device, clean>>
     \/ CommandLost /\ UNCHANGED fixed
  /\ UNCHANGED <<numbers, key, inter, poller, stale>>

(* encryption_reset: the device goes back to the default, the handle keeps *)
(* its fixed key and its session key.                                      *)
EncryptionReset ==
  /\ At("encryptionReset")
  /\ \/ (Answered \/ ReplyLost) /\ devFixed' = 0 /\ devLost' = TRUE
          /\ UNCHANGED <<devGen, devMod, devKey>>
     \/ Refused \/ CommandLost
  /\ UNCHANGED <<numbers, fixed, key, inter, poller, stale>>

-----------------------------------------------------------------------------
Start(c) ==
  /\ todo = <<>>
  /\ call' = c /\ todo' = Program(c) /\ ret' = "none" /\ clean' = TRUE
  /\ UNCHANGED <<numbers, fixed, key, inter, device, poller, stale>>

(* A poll, from the lock of the key to the end of the exchange.            *)
Poll ==
  /\ Polling
  /\ poller' = ~poller
  /\ UNCHANGED <<numbers, fixed, key, inter, device, call, todo, ret, clean, stale>>

DeviceRestarts ==
  /\ "restart" \in Faults
  /\ devLost' = TRUE /\ devGen' = 0 /\ devMod' = 0 /\ clean' = FALSE
  /\ UNCHANGED <<numbers, fixed, key, inter, devFixed, devKey, poller, call,
                 todo, ret, stale>>

(* DeviceHandle::new: of two primes the greater is the modulus.            *)
Init ==
  /\ gen \in Numbers /\ mod \in Numbers /\ gen < mod
  /\ rnd \in Exponents
  /\ fixed = 0 /\ key = NoKey /\ inter = NoPower
  /\ devGen = 0 /\ devMod = 0 /\ devFixed = 0 /\ devKey = NoKey /\ devLost = TRUE
  /\ poller = FALSE
  /\ call = "none" /\ todo = <<>> /\ ret = "none"
  /\ clean = TRUE /\ stale = FALSE

Next ==
  \/ NewGenerator \/ NewModulus \/ NewRandom \/ ResetKeyCall
  \/ Sync \/ SetGenerator \/ SetModulus \/ RequestKeyExchange \/ SetKey
  \/ SetEncryptionKey \/ EncryptionReset
  \/ \E c \in Calls : Start(c)
  \/ Poll \/ DeviceRestarts

Spec == Init /\ [][Next]_vars

-----------------------------------------------------------------------------
(* Properties                                                              *)

Powers == {NoPower} \cup
  [base : Numbers, by : SUBSET (({"host"} \X Exponents) \cup ({"device"} \X DeviceExponents)),
   modulo : Seq(Numbers)]

Keys == [fixed : Fixed, secret : Powers]

(* Every variable has its type, and set_key has a reply to work on.        *)
TypeOK ==
  /\ gen \in Numbers /\ mod \in Numbers /\ rnd \in Exponents
  /\ fixed \in Fixed /\ devFixed \in Fixed
  /\ key \in Keys /\ devKey \in Keys /\ inter \in Powers
  /\ devGen \in 0..MaxNumber /\ devMod \in 0..MaxNumber /\ devLost \in BOOLEAN
  /\ poller \in BOOLEAN /\ clean \in BOOLEAN /\ stale \in BOOLEAN
  /\ call \in AllCalls \cup {"none"} /\ (todo # <<>> => Head(todo) \in Steps)
  /\ ret \in {"none", "ok", "err", "status", "keyNotSet"}
  /\ At("setKey") => inter # NoPower

Returns == todo # <<>> /\ todo' = <<>>

Negotiated == Returns /\ call \in {"negotiate", "renegotiate"} /\ ret' = "ok"

(* A negotiation that returns Ok leaves the key that the device has, as    *)
(* long as the fixed keys are the same: whatever was refused, lost or      *)
(* restarted before, and whatever polls come between its steps             *)
(* (device_handle.rs:1078-1096, 1516-1540).                                *)
KeysAgree == [][Negotiated /\ fixed' = devFixed' => key' = devKey']_vars

(* The session key is None or made of the numbers the handle has now: no   *)
(* call changes them and keeps the key, unless it waits for the lock in    *)
(* vain (device_handle.rs:1001-1030, 1042-1062).                           *)
KeyOfTheseNumbers ==
  key # NoKey /\ ~stale =>
    Host \in key.secret.by /\ key.secret.modulo[2] = mod

(* A renegotiation in which nothing goes wrong returns Ok: it does not     *)
(* depend on the session that was, of which the device may know nothing    *)
(* (device_handle.rs:1088-1096).                                           *)
RenegotiationWorks ==
  [][Returns /\ call = "renegotiate" /\ clean /\ clean' => ret' = "ok"]_vars

(* "Modulus key must be smaller than the Generator key"                    *)
(* (device_handle.rs:269, 1010).                                           *)
ModulusSmaller == mod < gen

(* reset_key: "Resets the Encryption key to none" (device_handle.rs:1056). *)
ResetForgets == [][At("resetKey") /\ Returns => key' = NoKey]_vars

(* set_modulus: "the caller should call new_modulus_key, and try again"    *)
(* (device_handle.rs:1497-1499): having done so, it gets the device's key. *)
RetryAgrees ==
  [][call = "careful" /\ At("setKey") /\ key' # key => key' = devKey']_vars

(* set_encryption_key: "the caller should call new_modulus_key, and try    *)
(* again" (device_handle.rs:1544-1546): the second try has a key.          *)
RetryHasKey == call = "careful" => ret # "keyNotSet"

(* "Renegotiates the encryption key for a new eSSP session."               *)
(* (device_handle.rs:1087): the keys are the same when it has returned Ok. *)
SessionsAgree == [][Negotiated => key' = devKey']_vars
=============================================================================
