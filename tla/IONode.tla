------------------------------- MODULE IONode -------------------------------
(***************************************************************************)
(* IONode and its subclasses for the MIB, MIBV2, GIB, PC059, FIB and FMC:  *)
(* the calls that reach SFPs, PLL and UID over I2C, and the reset.         *)
(*                                                                         *)
(* On three boards all or most SFPs share one I2C address behind a switch  *)
(* that connects one channel at a time to the bus, and the PLL and the     *)
(* UID of some are behind it too; on the others every SFP has its own bus. *)
(* Some enable lasers, and one resets its PLL, by the pins of I2C          *)
(* expanders.                                                              *)
(*                                                                         *)
(* A step is one transfer over I2C, or one dispatch of register writes, by *)
(* one client.  Any of them may fail, and whatever a failed write to a     *)
(* chip was to do may be done.                                             *)
(***************************************************************************)
EXTENDS Naturals

CONSTANTS
  Boards,    \* which boards to look at
  Fitted,    \* per board: cages that may hold an SFP
  Requests   \* per board: calls that may be made

(* get_sfp_status, switch_sfp_soft_tx_control_bit, switch_sfp_tx (pin),    *)
(* get_pll_status or configure_pll, get_hardware_info, reset by clock      *)
(* source, and reset by clock file (configure).                            *)
SfpOps == {"status", "tx"}
Ops == SfpOps \cup {"pin", "pll", "uid", "reset", "configure"}
Call == [op : Ops, sfp : Nat, on : BOOLEAN]

NoChannel == 100
Held == 101

---------------------------------------------------------------------------
(* What the class of each board does.                                      *)
(*   sfps    ids that it accepts                                           *)
(*   own     SFPs with a bus of their own                                  *)
(*   pulses  calls that pulse the reset of the I2C switch first            *)
(*   selects calls that write its channels                                 *)
(*   channel the channel written for each SFP                              *)
(*   main    the channel written for PLL and UID                           *)
(*   first   the first step of a reset once the switch is set              *)
(*   after   the steps that follow it, each after which                    *)

(* The steps that end a reset: the PLL, the clock manager in firmware, the *)
(* expander's pins made outputs and set.                                   *)
PlainTail == [pll |-> "mmcm", mmcm |-> "done"]

(* Mutant of ExpanderTail: the pins are left as they are.                  *)
ExpanderTailUnset == [pll |-> "mmcm", mmcm |-> "drive", drive |-> "done"]

ExpanderTail == [pll |-> "mmcm", mmcm |-> "drive", drive |-> "light", light |-> "done"]

MIB ==
  [sfps |-> 0 .. 2, own |-> {}, pulses |-> {},
   selects |-> {"status", "tx", "pll", "configure"},
   channel |-> [s \in 0 .. 2 |-> s], main |-> 3,
   first |-> "pll", after |-> PlainTail]

GIB ==
  [sfps |-> 0 .. 5, own |-> {}, pulses |-> {"reset", "configure"},
   selects |-> {"status", "pll", "uid", "reset", "configure"},
   channel |-> [s \in 0 .. 5 |-> s + 1], main |-> 0,
   first |-> "pll", after |-> ExpanderTail]

PC059 ==
  [sfps |-> 0 .. 8, own |-> {0}, pulses |-> {"status", "tx", "configure"},
   selects |-> {"status", "tx"},
   channel |-> [s \in 1 .. 8 |-> s - 1], main |-> NoChannel,
   first |-> "pll", after |-> ExpanderTail]

(* The FIB sets its expanders first; pll_out is the pin of the PLL's reset *)
(* made high, and then reset_pll.                                          *)
FIB ==
  [sfps |-> 0 .. 7, own |-> 0 .. 7, pulses |-> {}, selects |-> {},
   channel |-> <<>>, main |-> NoChannel, first |-> "drive",
   after |-> [drive |-> "light", light |-> "pll_out", pll_out |-> "pll_low",
              pll_low |-> "pll_high", pll_high |-> "pll", pll |-> "done"]]

MIBV2 ==
  [sfps |-> 0 .. 2, own |-> 0 .. 2, pulses |-> {}, selects |-> {},
   channel |-> <<>>, main |-> NoChannel, first |-> "pll", after |-> PlainTail]

(* The laser of the FMC is enabled by a register in firmware.              *)
FMC ==
  [sfps |-> {0}, own |-> {0}, pulses |-> {}, selects |-> {},
   channel |-> <<>>, main |-> NoChannel, first |-> "pll",
   after |-> [pll |-> "mmcm", mmcm |-> "light", light |-> "done"]]

Class == [MIB |-> MIB, GIB |-> GIB, PC059 |-> PC059, FIB |-> FIB, MIBV2 |-> MIBV2, FMC |-> FMC]

ASSUME BoardAssumption ==
  /\ Boards \subseteq DOMAIN Class
  /\ \A b \in Boards :
       /\ Fitted[b] \subseteq Class[b].sfps
       /\ Requests[b] \subseteq Call
       /\ \A c \in Requests[b] : c.op = "pin" => b = "FIB"

VARIABLES
  board,   \* the board; it never changes
  kind,    \* what each device is
  dark,    \* SFPs whose laser is disabled by their control register
  chan,    \* the channel the switch connects; NoChannel; Held in reset
  pins,    \* outputs of expanders: lasers disabled, bank driven, PLL in reset
  pc,      \* the next step of the call, or "idle"
  call,    \* the last call
  flags,   \* the laser pins as the call has read them
  heard,   \* devices whose registers it has read
  out      \* how it ended

built == <<board, kind>>
vars == <<board, kind, dark, chan, pins, pc, call, flags, heard, out>>

Board == Class[board]

(* The devices: SFPs by their ids, the PLL and the UID PROM.               *)
Pll == 200
Uid == 201
Sfps == Board.sfps
Devices == Sfps \cup {Pll, Uid}

(* A device of kind "noddm" has no diagnostics, "swap" needs an address    *)
(* change to show them, "nosoft" cannot switch its laser.                  *)
Kinds == {"absent", "noddm", "swap", "nosoft", "full"}

(* The outputs of an expander that has been reset.                         *)
Undriven == [off |-> Sfps, driven |-> FALSE, held |-> FALSE]

---------------------------------------------------------------------------
(* The wiring.                                                             *)

(* The channel a device is on, if any.                                     *)
Wired(d) ==
  CASE board = "MIB"   -> IF d \in Sfps THEN d ELSE 3
    [] board = "GIB"   -> IF d \in Sfps THEN d + 1 ELSE 0
    [] board = "PC059" -> IF d \in Sfps \ {0} THEN d - 1 ELSE NoChannel
    [] OTHER           -> NoChannel

(* The UID PROM of the GIB has the address of the SFPs' EEPROM, 0x50.      *)
UidAddress == IF board = "GIB" THEN "eeprom" ELSE "uid"

Listens(d) ==
  IF d \in Sfps THEN {"eeprom", "diag"} ELSE IF d = Pll THEN {"pll"} ELSE {UidAddress}

OnMain(c) == c.op \in SfpOps => c.sfp \notin Board.own

(* The devices that a transfer to an address reaches; a PLL in reset does  *)
(* not answer.                                                             *)
Reached(address) ==
  {d \in Devices :
     /\ kind[d] # "absent" /\ address \in Listens(d)
     /\ d = Pll => ~pins.held
     /\ IF OnMain(call)
        THEN d \notin Board.own /\ Wired(d) \in {chan, NoChannel}
        ELSE d = call.sfp}

---------------------------------------------------------------------------
(* The course of a call.                                                   *)

PulsesReset(c) == OnMain(c) /\ c.op \in Board.pulses

(* Mutants of Selects: the laser is switched on the channel as it is; the  *)
(* UID is read on it.                                                      *)
SelectsNotForLaser(c) == OnMain(c) /\ c.op \in Board.selects \ {"tx"}
SelectsNotForUid(c) == OnMain(c) /\ c.op \in Board.selects \ {"uid"}

(* On the GIB, a reset by clock source selects the channel of the PLL to   *)
(* look up its version, before it configures it.                           *)
Selects(c) == OnMain(c) /\ c.op \in Board.selects

(* The channel that is written.                                            *)
Channel(c) == IF c.op \in SfpOps THEN Board.channel[c.sfp] ELSE Board.main

(* The first transfer to a device.                                         *)
Access(c) ==
  CASE c.op = "status"    -> "ident"
    [] c.op = "tx"        -> "ddm"
    [] c.op = "pin"       -> "flags"
    [] c.op = "uid"       -> "uid"
    [] c.op = "reset"     -> "lookup"
    [] c.op = "configure" -> Board.first
    [] OTHER              -> "pll"

AfterReset(c) == IF Selects(c) THEN "select" ELSE Access(c)

First(c) == IF PulsesReset(c) THEN "hold" ELSE AfterReset(c)

PinSteps == {"drive", "light", "pll_out", "pll_low", "pll_high", "set_flags"}
Steps == {"hold", "release", "select", "ident", "ddm", "swap", "soft", "control", "set", "diag",
          "uid", "lookup", "pll", "mmcm", "flags"} \cup PinSteps

(* The MIB gives the switch back to the PLL after a status, however it     *)
(* ended, and after a laser has been switched.                             *)
Restores(result) ==
  board = "MIB" /\ (call.op = "status" \/ (call.op = "tx" /\ result = "ok"))

(* Mutant of End: the switch is given back only after a success.           *)
EndRestoresSuccess(result) ==
  /\ out' = result
  /\ pc' = IF Restores(result) /\ result = "ok" THEN "restore" ELSE "idle"

End(result) ==
  /\ out' = result
  /\ pc' = IF Restores(result) THEN "restore" ELSE "idle"

(* The next step of a reset; any other call is at its end.                 *)
Advance ==
  IF call.op = "configure" /\ Board.after[pc] # "done"
  THEN pc' = Board.after[pc] /\ UNCHANGED out
  ELSE End("ok")

(* Mutant of NewFlags: the flags of the other SFPs are forgotten.          *)
NewFlagsAlone == IF call.on THEN {} ELSE {call.sfp}

(* switch_sfp_tx: a bit that is set disables the laser.                    *)
NewFlags == IF call.on THEN flags \ {call.sfp} ELSE flags \cup {call.sfp}

(* The outputs after a write to an expander.                               *)
Written(step) ==
  CASE step = "drive"                   -> [pins EXCEPT !.driven = TRUE]
    [] step = "light"                   -> [pins EXCEPT !.off = {}]
    [] step = "pll_low"                 -> [pins EXCEPT !.held = TRUE]
    [] step \in {"pll_out", "pll_high"} -> [pins EXCEPT !.held = FALSE]
    [] step = "set_flags"               -> [pins EXCEPT !.off = NewFlags]

---------------------------------------------------------------------------
Init ==
  /\ board \in Boards
  /\ \E uid \in Kinds \ {"absent"}, sfp \in [Fitted[board] -> Kinds] :
       kind = [d \in Devices |->
                 IF d = Pll THEN "full"
                 ELSE IF d = Uid THEN uid
                 ELSE IF d \in Fitted[board] THEN sfp[d] ELSE "absent"]
  /\ dark = {} /\ chan = NoChannel /\ pins = Undriven
  /\ pc = "idle" /\ call = [op |-> "pll", sfp |-> 0, on |-> FALSE]
  /\ flags = {} /\ heard = {} /\ out = "none"

Begin(c) ==
  /\ pc = "idle"
  /\ c.op \in SfpOps \cup {"pin"} => c.sfp \in Sfps
  /\ call' = c /\ pc' = First(c)
  /\ flags' = {} /\ heard' = {} /\ out' = "none"
  /\ UNCHANGED <<built, dark, chan, pins>>

(* validate_sfp_id                                                         *)
RefuseId(c) ==
  /\ pc = "idle"
  /\ c.op \in SfpOps \cup {"pin"} /\ c.sfp \notin Sfps
  /\ call' = c /\ flags' = {} /\ heard' = {} /\ out' = "invalid"
  /\ UNCHANGED <<built, dark, chan, pins, pc>>

(* The reset of the switch is asserted and taken back by two dispatches,   *)
(* by one in PC059IONode::reset.  The GIB resets its expanders and its     *)
(* PLL with the switch.                                                    *)
HoldSwitch ==
  /\ pc = "hold"
  /\ IF board = "PC059" /\ call.op = "configure"
     THEN chan' = NoChannel /\ pc' = AfterReset(call)
     ELSE chan' = Held /\ pc' = "release"
  /\ pins' = IF board = "GIB" THEN [Undriven EXCEPT !.held = TRUE] ELSE pins
  /\ UNCHANGED <<built, dark, call, flags, heard, out>>

(* Mutant of ReleaseSwitch: the PLL stays in reset.                        *)
ReleaseSwitchOnly ==
  /\ pc = "release"
  /\ chan' = NoChannel /\ pc' = AfterReset(call)
  /\ UNCHANGED <<built, dark, pins, call, flags, heard, out>>

ReleaseSwitch ==
  /\ pc = "release"
  /\ chan' = NoChannel /\ pc' = AfterReset(call)
  /\ pins' = [pins EXCEPT !.held = FALSE]
  /\ UNCHANGED <<built, dark, call, flags, heard, out>>

(* A switch held in reset does not answer.                                 *)
SelectChannel ==
  /\ pc = "select" /\ chan # Held
  /\ chan' = Channel(call) /\ pc' = Access(call)
  /\ UNCHANGED <<built, dark, pins, call, flags, heard, out>>

SelectFails ==
  /\ pc = "select"
  /\ chan' \in IF chan = Held THEN {Held} ELSE {chan, Channel(call)}
  /\ pc' = "idle" /\ out' = "unselected"
  /\ UNCHANGED <<built, dark, pins, call, flags, heard>>

Identify ==
  /\ pc = "ident"
  /\ \E d \in Reached("eeprom") : heard' = heard \cup {d}
  /\ pc' = "ddm"
  /\ UNCHANGED <<built, dark, chan, pins, call, flags, out>>

(* A status ends early without diagnostics, a switch of the laser is       *)
(* refused.                                                                *)
CheckCapability ==
  /\ pc \in {"ddm", "swap", "soft"}
  /\ \E d \in Reached("eeprom") :
       /\ heard' = heard \cup {d}
       /\ IF kind[d] = CASE pc = "ddm" -> "noddm" [] pc = "swap" -> "swap" [] pc = "soft" -> "nosoft"
          THEN End(IF call.op = "status" THEN "ok" ELSE "unsupported")
          ELSE /\ pc' = CASE pc = "ddm"  -> "swap"
                          [] pc = "swap" -> IF call.op = "status" THEN "diag" ELSE "soft"
                          [] pc = "soft" -> "control"
               /\ UNCHANGED out
  /\ UNCHANGED <<built, dark, chan, pins, call, flags>>

ReadDiagnostics ==
  /\ pc = "diag"
  /\ \E d \in Reached("diag") : heard' = heard \cup {d}
  /\ End("ok")
  /\ UNCHANGED <<built, dark, chan, pins, call, flags>>

ReadControl ==
  /\ pc = "control"
  /\ \E d \in Reached("diag") : heard' = heard \cup {d}
  /\ pc' = "set"
  /\ UNCHANGED <<built, dark, chan, pins, call, flags, out>>

WriteControl ==
  /\ pc = "set"
  /\ \E d \in Reached("diag") : dark' = IF call.on THEN dark \ {d} ELSE dark \cup {d}
  /\ End("ok")
  /\ UNCHANGED <<built, chan, pins, call, flags, heard>>

ReadUid ==
  /\ pc = "uid"
  /\ \E d \in Reached(UidAddress) : heard' = heard \cup {d}
  /\ End("ok")
  /\ UNCHANGED <<built, dark, chan, pins, call, flags>>

(* The lookup is followed by reset(clock_config_file).                     *)
LookUpPll ==
  /\ pc = "lookup"
  /\ \E d \in Reached("pll") : heard' = heard \cup {d}
  /\ call' = [call EXCEPT !.op = "configure"]
  /\ pc' = First(call')
  /\ UNCHANGED <<built, dark, chan, pins, flags, out>>

AccessPll ==
  /\ pc = "pll"
  /\ \E d \in Reached("pll") : heard' = heard \cup {d}
  /\ Advance
  /\ UNCHANGED <<built, dark, chan, pins, call, flags>>

(* The reset of the clock manager, with other registers in firmware.       *)
ResetMmcm ==
  /\ pc = "mmcm"
  /\ Advance
  /\ UNCHANGED <<built, dark, chan, pins, call, flags, heard>>

(* read_outputs_config                                                     *)
ReadFlags ==
  /\ pc = "flags"
  /\ flags' = pins.off /\ pc' = "set_flags"
  /\ UNCHANGED <<built, dark, chan, pins, call, heard, out>>

(* set_io, set_outputs                                                     *)
WritePins ==
  /\ pc \in PinSteps
  /\ pins' = Written(pc)
  /\ Advance
  /\ UNCHANGED <<built, dark, chan, call, flags, heard>>

(* No answer, or an exception of the bus, at any other step; a failed      *)
(* write may have had its effect.                                          *)
Fail ==
  /\ pc \in Steps \ {"select"}
  /\ dark' \in IF pc # "set" THEN {dark}
               ELSE {dark} \cup {IF call.on THEN dark \ {d} ELSE dark \cup {d} :
                                    d \in Reached("diag")}
  /\ pins' \in IF pc \in PinSteps THEN {pins, Written(pc)} ELSE {pins}
  /\ End("failed")
  /\ UNCHANGED <<built, chan, call, flags, heard>>

Restore ==
  /\ pc = "restore"
  /\ chan' = Board.main /\ pc' = "idle"
  /\ UNCHANGED <<built, dark, pins, call, flags, heard, out>>

RestoreFails ==
  /\ pc = "restore"
  /\ chan' \in {chan, Board.main} /\ pc' = "idle" /\ out' = "unrestored"
  /\ UNCHANGED <<built, dark, pins, call, flags, heard>>

Next ==
  \/ \E c \in Requests[board] : Begin(c) \/ RefuseId(c)
  \/ HoldSwitch \/ ReleaseSwitch \/ SelectChannel \/ SelectFails
  \/ Identify \/ CheckCapability \/ ReadDiagnostics \/ ReadControl \/ WriteControl
  \/ ReadUid \/ LookUpPll \/ AccessPll \/ ResetMmcm \/ ReadFlags \/ WritePins
  \/ Fail \/ Restore \/ RestoreFails

Spec == Init /\ [][Next]_vars

---------------------------------------------------------------------------
(* The switch has eight channels.                                          *)
TypeOK ==
  /\ board \in Boards
  /\ kind \in [Devices -> Kinds]
  /\ dark \subseteq Sfps
  /\ chan \in 0 .. 7 \cup {NoChannel, Held}
  /\ pins \in [off : SUBSET Sfps, driven : BOOLEAN, held : BOOLEAN]
  /\ pc \in Steps \cup {"idle", "restore"}
  /\ call \in Call
  /\ flags \subseteq Sfps
  /\ heard \subseteq Devices
  /\ out \in {"none", "ok", "invalid", "unselected", "unsupported", "failed", "unrestored"}

(* switch_sfp_soft_tx_control_bit switches the laser of the SFP it is      *)
(* given and no other, whatever calls went before and however they ended.  *)
OnlyTheAskedLaser ==
  [][\A s \in Sfps : (s \in dark) # (s \in dark') => call.op = "tx" /\ call.sfp = s]_vars

(* The boards where the call that switches a laser chooses the channel of  *)
(* the SFP, or the SFP has a bus of its own: not the GIB.                  *)
SelectsLaser == board # "GIB"

(* On these boards that is so.                                             *)
AskedLaserWhereSelected ==
  [][SelectsLaser => \A s \in Sfps :
       (s \in dark) # (s \in dark') => call.op = "tx" /\ call.sfp = s]_vars

(* What get_sfp_status, get_hardware_info and the calls on the PLL report  *)
(* comes from the device they are about, although others have its address. *)
AnswersOfTarget ==
  /\ call.op = "status" => heard \subseteq {call.sfp}
  /\ call.op = "uid" => heard \subseteq {Uid}
  /\ call.op \in {"pll", "reset", "configure"} => heard \subseteq {Pll}

(* When the call that switches a laser returns on these boards, the laser  *)
(* is as asked.  On the MIB, whose reset by clock source reads the PLL     *)
(* without selecting its channel, it leaves the switch at the PLL, and so  *)
(* does a status call, also one that fails for want of an SFP.             *)
CallsLeaveAsAsked ==
  pc = "idle" =>
    /\ SelectsLaser /\ call.op = "tx" /\ out = "ok" => (call.sfp \in dark) = ~call.on
    /\ board = "MIB" /\ call.op = "status" /\ out \in {"ok", "failed"} => chan = 3
    /\ board = "MIB" /\ call.op = "tx" /\ out = "ok" => chan = 3

(* switch_sfp_tx of the FIB, which rewrites the pins of all eight SFPs,    *)
(* changes that of the SFP it is given, in the way it is asked; besides it *)
(* only resets change them.                                                *)
OnlyTheAskedPin ==
  [][\A s \in Sfps :
       (s \in pins.off) # (s \in pins'.off) =>
         \/ call.op \in {"reset", "configure"}
         \/ call.op = "pin" /\ call.sfp = s /\ (s \in pins.off) = call.on]_vars

(* However the calls before it failed, a reset that returns leaves the PLL *)
(* running and, on the boards whose lasers pins enable, all of them        *)
(* enabled.                                                                *)
ResetLeavesRunning ==
  pc = "idle" /\ call.op = "configure" /\ out = "ok" =>
    /\ ~pins.held
    /\ board \in {"GIB", "PC059", "FIB", "FMC"} => pins.off = {}
    /\ board \in {"GIB", "PC059", "FIB"} => pins.driven

(* The GIB, whose reset may fail with its switch and its PLL in reset, can *)
(* always be reset again by clock source: the lookup reaches the PLL.      *)
LookUpReachesPll ==
  board = "GIB" /\ pc = "lookup" => Reached("pll") = {Pll}
=============================================================================
