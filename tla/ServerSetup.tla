------------------------------ MODULE ServerSetup ------------------------------
(***************************************************************************)
(* How a server is made (src/server.rs 51-133): new_auto starts the        *)
(* polling thread and enables the device; new_uds may negotiate a key,     *)
(* enables the device, with a full_reset after every failure up to         *)
(* MAX_RESETS, disables it again, starts the polling thread and binds the  *)
(* socket.  Modelled with enable_device_inner (device_handle.rs            *)
(* 1270-1302), the commands it sends and full_reset (864-913); one thread  *)
(* does all of it.                                                         *)
(*                                                                         *)
(* The device is external: it accepts notes when it is enabled and its     *)
(* channels are not inhibited, loses all of that and the session when it   *)
(* is reset, and answers an encrypted command without a session by         *)
(* KeyNotSet.  full_reset relies on the same: it speaks to the device in   *)
(* the clear.                                                              *)
(***************************************************************************)
EXTENDS Naturals, Sequences

CONSTANTS
  Modes,            \* of "auto", "clear", "encrypted"
  PayoutUnit,       \* the unit type is 6 or 7
  Faults,           \* "lose": commands and replies; "refuse": a status other than Ok
  MaxResets         \* MAX_RESETS: 10 in the code

ASSUME ModeAssumption == Modes \subseteq {"auto", "clear", "encrypted"}
ASSUME PayoutAssumption == PayoutUnit \in BOOLEAN
ASSUME FaultAssumption == Faults \subseteq {"lose", "refuse"}
ASSUME ResetAssumption == MaxResets \in Nat \ {0}

VARIABLES
  mode,
  pc, todo,         \* where the setup is, and what enable_device has to send
  hasKey,           \* the handle has a session key
  version,          \* PROTOCOL_VERSION: that of the caller, or the default
  resets,           \* reset_count
  polling,          \* the polling thread runs
  dev,              \* the device: see Off
  clean             \* since the last full_reset that succeeded nothing went
                    \* wrong; FALSE before the first

vars == <<mode, pc, todo, hasKey, version, resets, polling, dev, clean>>

Off == [version |-> "none", enabled |-> FALSE, payout |-> FALSE,
        channels |-> FALSE, session |-> FALSE]

Accepts(d) == d.enabled /\ d.channels

Commands == <<"version", "setup", "serial", "enable">>

(* Mutant: the inhibits are left as they are.                              *)
EnableProgramKeepsInhibits(key) ==
  Commands \o (IF PayoutUnit /\ key THEN <<"payout">> ELSE <<>>) \o <<"channelData">>

(* enable_device_inner; each Err ends it, a status is not looked at.       *)
EnableProgram(key) ==
  Commands \o (IF PayoutUnit /\ key THEN <<"payout">> ELSE <<>>)
           \o <<"inhibits", "channelData">>

-----------------------------------------------------------------------------
(* One command and its reply                                               *)

Effect(d, c, v) ==
  CASE c = "version"       -> [d EXCEPT !.version = v]
    [] c = "enable"        -> [d EXCEPT !.enabled = TRUE]
    [] c = "payout"        -> [d EXCEPT !.payout = TRUE]
    [] c = "inhibits"      -> [d EXCEPT !.channels = TRUE]
    [] c = "disable"       -> [d EXCEPT !.enabled = FALSE]
    [] c = "disablePayout" -> [d EXCEPT !.payout = FALSE]
    [] c = "session"       -> [d EXCEPT !.session = TRUE]
    [] c = "reset"         -> Off
    [] OTHER               -> d

Understood(key) == key => dev.session

(* The replies to these are parsed: of a refusal nothing can be.           *)
Parsed == {"setup", "channelData", "session", "poll"}

Succeeds(c, v, key) ==
  \/ Understood(key) /\ dev' = Effect(dev, c, v) /\ UNCHANGED clean
  \/ "refuse" \in Faults /\ c \notin Parsed /\ Understood(key)
       /\ UNCHANGED dev /\ clean' = FALSE

Fails(c, v, key) ==
  \/ ~Understood(key) /\ UNCHANGED <<dev, clean>>
  \/ "lose" \in Faults /\ dev' \in {dev, Effect(dev, c, v)} /\ clean' = FALSE
  \/ "refuse" \in Faults /\ c \in Parsed /\ UNCHANGED dev /\ clean' = FALSE

-----------------------------------------------------------------------------
(* DeviceHandle::new, and for new_auto the polling thread, which cannot    *)
(* fail to start.                                                          *)
Open ==
  /\ pc = "open"
  /\ polling' = (mode = "auto")
  /\ pc' = IF mode = "encrypted" THEN "negotiate" ELSE "enable"
  /\ todo' = IF mode = "encrypted" THEN <<>> ELSE EnableProgram(FALSE)
  /\ UNCHANGED <<mode, hasKey, version, resets, dev, clean>>

(* sync and renegotiate_key: see KeyNegotiation.                           *)
NegotiateKey ==
  /\ pc = "negotiate"
  /\ \/ Succeeds("session", version, FALSE) /\ hasKey' = TRUE
          /\ pc' = "enable" /\ todo' = EnableProgram(TRUE)
     \/ Fails("session", version, FALSE) /\ pc' = "err" /\ UNCHANGED <<hasKey, todo>>
  /\ UNCHANGED <<mode, version, resets, polling>>

Enabling == pc \in {"enable", "reenable"}

(* full_reset has no use for the key.                                      *)
KeyOf(p) == p # "reenable" /\ hasKey

VersionSent == IF pc = "enable" THEN "wanted" ELSE version

EnableStep ==
  /\ Enabling /\ todo # <<>>
  /\ Succeeds(Head(todo), VersionSent, KeyOf(pc))
  /\ todo' = Tail(todo)
  /\ version' = IF Head(todo) = "version" THEN VersionSent ELSE version
  /\ UNCHANGED <<mode, pc, hasKey, resets, polling>>

(* The Err is returned by new_auto, logged by new_uds and by full_reset.   *)
EnableFails ==
  /\ Enabling /\ todo # <<>>
  /\ Fails(Head(todo), VersionSent, KeyOf(pc))
  /\ todo' = <<>>
  /\ pc' = CASE pc = "reenable" -> "repoll"
             [] pc = "enable" /\ mode = "auto" -> "err"
             [] OTHER -> "reset"
  /\ UNCHANGED <<mode, hasKey, version, resets, polling>>

Enabled ==
  /\ Enabling /\ todo = <<>>
  /\ pc' = CASE pc = "reenable" -> "repoll"
             [] pc = "enable" /\ mode = "auto" -> "ok"
             [] OTHER -> "disable"
  /\ UNCHANGED <<mode, todo, hasKey, version, resets, polling, dev, clean>>

-----------------------------------------------------------------------------
(* full_reset                                                              *)

(* Mutant: only the resets that work are counted.                          *)
ResetOverCountsSuccess(ok) ==
  /\ resets' = IF ok THEN resets + 1 ELSE resets
  /\ IF resets' >= MaxResets THEN pc' = "disable" /\ UNCHANGED todo
     ELSE pc' = "enable" /\ todo' = EnableProgram(hasKey)

(* The loop of new_uds: enable_device again, or on after MAX_RESETS.       *)
ResetOver(ok) ==
  /\ resets' = resets + 1
  /\ IF resets' >= MaxResets THEN pc' = "disable" /\ UNCHANGED todo
     ELSE pc' = "enable" /\ todo' = EnableProgram(hasKey)

(* reset() needs no reply; then sync until it works or 60 s are over.      *)
Reset ==
  /\ pc = "reset"
  /\ \/ /\ \/ dev' = Off /\ clean' = TRUE
           \/ "lose" \in Faults /\ UNCHANGED dev /\ clean' = FALSE
        /\ pc' = "reenable" /\ todo' = EnableProgram(FALSE)
        /\ UNCHANGED resets
     \/ "lose" \in Faults /\ dev' \in {dev, Off} /\ clean' = FALSE /\ ResetOver(FALSE)
  /\ UNCHANGED <<mode, hasKey, version, polling>>

(* The poll decides whether full_reset has succeeded.  INTERACTIVE is not  *)
(* set yet, so that nothing disables the device before.                    *)
Repoll ==
  /\ pc = "repoll"
  /\ \/ Succeeds("poll", version, FALSE) /\ ResetOver(TRUE)
     \/ Fails("poll", version, FALSE) /\ ResetOver(FALSE)
  /\ UNCHANGED <<mode, hasKey, version, polling>>

-----------------------------------------------------------------------------
(* Mutant: the Err of disable is not returned.                             *)
DisableUnnoticed ==
  /\ pc = "disable"
  /\ LET c == IF mode = "encrypted" THEN "disablePayout" ELSE "disable" IN
     \/ Succeeds(c, version, hasKey) /\ pc' = "start"
     \/ Fails(c, version, hasKey) /\ pc' = "start"
  /\ UNCHANGED <<mode, todo, hasKey, version, resets, polling>>

Disable ==
  /\ pc = "disable"
  /\ LET c == IF mode = "encrypted" THEN "disablePayout" ELSE "disable" IN
     \/ Succeeds(c, version, hasKey) /\ pc' = "start"
     \/ Fails(c, version, hasKey) /\ pc' = "err"
  /\ UNCHANGED <<mode, todo, hasKey, version, resets, polling>>

(* The polling thread, and then the socket; an Err leaves the thread.      *)
StartPolling ==
  /\ pc = "start"
  /\ polling' = TRUE /\ pc' = "bind"
  /\ UNCHANGED <<mode, todo, hasKey, version, resets, dev, clean>>

Bind ==
  /\ pc = "bind"
  /\ pc' \in {"ok", "err"}
  /\ UNCHANGED <<mode, todo, hasKey, version, resets, polling, dev, clean>>

(* The device may be as an earlier program has left it.                    *)
Init ==
  /\ mode \in Modes
  /\ pc = "open" /\ todo = <<>> /\ hasKey = FALSE /\ version = "default"
  /\ resets = 0 /\ polling = FALSE /\ clean = FALSE
  /\ dev \in {Off, [version |-> "default", enabled |-> TRUE, payout |-> TRUE,
                    channels |-> TRUE, session |-> FALSE]}

Next ==
  \/ Open \/ NegotiateKey \/ EnableStep \/ EnableFails \/ Enabled
  \/ Reset \/ Repoll \/ Disable \/ StartPolling \/ Bind

Spec == Init /\ [][Next]_vars

(* Every exchange, wait and system call comes to an end.                   *)
FairSpec == Spec /\ WF_vars(Next)

-----------------------------------------------------------------------------
(* Properties                                                              *)

Versions == {"none", "default", "wanted"}

(* Every variable has its type; reset_count does not pass MAX_RESETS.      *)
TypeOK ==
  /\ mode \in Modes /\ hasKey \in BOOLEAN /\ polling \in BOOLEAN /\ clean \in BOOLEAN
  /\ pc \in {"open", "negotiate", "enable", "reset", "reenable", "repoll",
             "disable", "start", "bind", "ok", "err"}
  /\ todo \in Seq({"version", "setup", "serial", "enable", "payout", "inhibits",
                   "channelData"})
  /\ version \in Versions \ {"none"} /\ resets \in 0..MaxResets
  /\ dev \in [version : Versions, enabled : BOOLEAN, payout : BOOLEAN,
              channels : BOOLEAN, session : BOOLEAN]

(* When new_uds returns a server without encryption, or has the polling    *)
(* thread start, the device takes no notes, whatever was lost before and   *)
(* however often enabling was given up (server.rs:94-119).                 *)
ClearWaitsForClient == pc \in {"bind", "ok"} /\ mode = "clear" => ~Accepts(dev)

(* "enable the device to fully configure" (server.rs:94): a server that    *)
(* was returned before MAX_RESETS was reached has a device with the        *)
(* protocol version of the caller and with open channels, not with the     *)
(* default version, with which full_reset enables it.                      *)
ConfiguredUnlessGivenUp ==
  pc = "ok" /\ resets < MaxResets =>
    dev.version = "wanted" /\ version = "wanted" /\ dev.channels

(* The setup ends, with a server or an Err, even when every command and    *)
(* every reset fails (server.rs:94-108).                                   *)
SetupEnds == <>(pc \in {"ok", "err"})

(* "disable again to allow client to decide when to begin accepting notes" *)
(* (server.rs:111), also with encryption.                                  *)
NotesWaitForClient == pc \in {"bind", "ok"} /\ mode # "auto" => ~Accepts(dev)

(* "Performs the full reset protocol to restart a device."                 *)
(* (device_handle.rs:863): enable_device works after a full_reset that     *)
(* did, unless something else goes wrong.                                  *)
ResetCures == [][EnableFails /\ pc = "enable" /\ clean => ~clean']_vars
=============================================================================
