--------------------------- MODULE IONode_proofs ---------------------------
(***************************************************************************)
(* IONode for any cages fitted and any requests.  What the calls read      *)
(* comes from the device they are about, on all boards; on all but the GIB *)
(* a laser is switched only by a call that names it, and is as asked when  *)
(* that returns; the types; the pins that enable the lasers; and what a    *)
(* reset leaves behind.                                                    *)
(***************************************************************************)
EXTENDS IONode, TLAPS

SfpSteps == {"ident", "ddm", "swap", "soft", "control", "set", "diag"}

(* The steps of a reset by clock file.                                     *)
ResetSteps == {"pll", "mmcm", "drive", "light", "pll_out", "pll_low", "pll_high"}

(* Does the call at hand write the channel of the SFP it is about?         *)
Chooses == call.op = "status" \/ SelectsLaser

(* The board is one of the six, and requests are calls.                    *)
Known ==
  /\ board \in {"MIB", "GIB", "PC059", "FIB", "MIBV2", "FMC"}
  /\ Requests[board] \subseteq Call

(* While the SFP of a call is accessed, the switch is at its channel; the  *)
(* same for the UID PROM, where an SFP could answer in its place.          *)
PathInv ==
  /\ Known
  /\ call \in Call
  /\ dark \subseteq Sfps
  /\ pc \in SfpSteps => call.op \in SfpOps /\ call.sfp \in Sfps
  /\ pc \in SfpSteps /\ OnMain(call) /\ Chooses => chan = Wired(call.sfp)
  /\ pc \in {"soft", "control", "set"} => call.op = "tx"
  /\ pc \in {"hold", "release", "select"} /\ call.op \in SfpOps =>
       call.sfp \in Sfps /\ Selects(call)
  /\ pc \in {"hold", "release"} => PulsesReset(call)
  /\ pc = "select" => Selects(call)
  /\ pc = "uid" => call.op = "uid" /\ (board = "GIB" => chan = 0)
  /\ pc \in {"lookup", "pll"} => call.op \in {"pll", "reset", "configure"}
  /\ pc \in ResetSteps \ {"pll"} => call.op = "configure"
  /\ pc \in ResetSteps /\ call.op = "configure" => pc \in DOMAIN Board.after
  /\ pc \in {"flags", "set_flags"} => call.op = "pin"
  /\ pc \in Steps \cup {"idle", "restore"}

---------------------------------------------------------------------------
(* The board stays what it is.                                             *)
LEMMA BoardStays ==
  ASSUME [Next]_vars
  PROVE  board' = board
BY DEF Next, vars, built, Begin, RefuseId, HoldSwitch, ReleaseSwitch, SelectChannel, SelectFails,
       Identify, CheckCapability, ReadDiagnostics, ReadControl, WriteControl, ReadUid, LookUpPll,
       AccessPll, ResetMmcm, ReadFlags, WritePins, Fail, Restore, RestoreFails

(* What the class of each board says.                                      *)
LEMMA ClassOf ==
  ASSUME Known
  PROVE  /\ board = "MIB" => Board = MIB
         /\ board = "GIB" => Board = GIB
         /\ board = "PC059" => Board = PC059
         /\ board = "FIB" => Board = FIB
         /\ board = "MIBV2" => Board = MIBV2
         /\ board = "FMC" => Board = FMC
BY DEF Known, Board, Class

LEMMA ClassMIB ==
  ASSUME Known, board = "MIB"
  PROVE  /\ Sfps = 0 .. 2 /\ Board.own = {} /\ Board.pulses = {}
         /\ Board.selects = {"status", "tx", "pll", "configure"}
         /\ \A s \in 0 .. 2 : Board.channel[s] = s
         /\ Board.main = 3 /\ Board.first = "pll" /\ Board.after = PlainTail
<1>1. Board = MIB
  BY ClassOf
<1> QED
  BY <1>1 DEF MIB, Sfps

LEMMA ClassGIB ==
  ASSUME Known, board = "GIB"
  PROVE  /\ Sfps = 0 .. 5 /\ Board.own = {} /\ Board.pulses = {"reset", "configure"}
         /\ Board.selects = {"status", "pll", "uid", "reset", "configure"}
         /\ \A s \in 0 .. 5 : Board.channel[s] = s + 1
         /\ Board.main = 0 /\ Board.first = "pll" /\ Board.after = ExpanderTail
<1>1. Board = GIB
  BY ClassOf
<1> QED
  BY <1>1 DEF GIB, Sfps

LEMMA ClassPC059 ==
  ASSUME Known, board = "PC059"
  PROVE  /\ Sfps = 0 .. 8 /\ Board.own = {0} /\ Board.pulses = {"status", "tx", "configure"}
         /\ Board.selects = {"status", "tx"}
         /\ \A s \in 1 .. 8 : Board.channel[s] = s - 1
         /\ Board.first = "pll" /\ Board.after = ExpanderTail
<1>1. Board = PC059
  BY ClassOf
<1> QED
  BY <1>1 DEF PC059, Sfps

LEMMA ClassFIB ==
  ASSUME Known, board = "FIB"
  PROVE  /\ Board.own = Sfps /\ Board.pulses = {} /\ Board.selects = {}
         /\ Board.first = "drive"
         /\ Board.after =
              [drive |-> "light", light |-> "pll_out", pll_out |-> "pll_low",
               pll_low |-> "pll_high", pll_high |-> "pll", pll |-> "done"]
<1>1. Board = FIB
  BY ClassOf
<1> QED
  BY <1>1 DEF FIB, Sfps

LEMMA ClassMIBV2 ==
  ASSUME Known, board = "MIBV2"
  PROVE  /\ Board.own = Sfps /\ Board.pulses = {} /\ Board.selects = {}
         /\ Board.first = "pll" /\ Board.after = PlainTail
<1>1. Board = MIBV2
  BY ClassOf
<1> QED
  BY <1>1 DEF MIBV2, Sfps

LEMMA ClassFMC ==
  ASSUME Known, board = "FMC"
  PROVE  /\ Board.own = Sfps /\ Board.pulses = {} /\ Board.selects = {}
         /\ Board.first = "pll"
         /\ Board.after = [pll |-> "mmcm", mmcm |-> "light", light |-> "done"]
<1>1. Board = FMC
  BY ClassOf
<1> QED
  BY <1>1 DEF FMC, Sfps

(* The steps of a reset lead to one another, or to its end.                *)
LEMMA ResetCourse ==
  ASSUME Known
  PROVE  /\ Board.first \in ResetSteps \cap DOMAIN Board.after
         /\ \A s \in DOMAIN Board.after :
              Board.after[s] # "done" => Board.after[s] \in ResetSteps \cap DOMAIN Board.after
<1>1. CASE board \in {"MIB", "MIBV2"}
  BY <1>1, ClassMIB, ClassMIBV2 DEF PlainTail, ResetSteps
<1>2. CASE board \in {"GIB", "PC059"}
  BY <1>2, ClassGIB, ClassPC059 DEF ExpanderTail, ResetSteps
<1>3. CASE board = "FIB"
  BY <1>3, ClassFIB DEF ResetSteps
<1>4. CASE board = "FMC"
  BY <1>4, ClassFMC DEF ResetSteps
<1> QED
  BY <1>1, <1>2, <1>3, <1>4 DEF Known

(* No two devices that listen at one address share a channel.              *)
LEMMA SfpAlone ==
  ASSUME Known, call.sfp \in Sfps, call.op \in SfpOps,
         NEW a \in {"eeprom", "diag"},
         OnMain(call) => chan = Wired(call.sfp)
  PROVE  Reached(a) \subseteq {call.sfp}
<1>1. CASE ~OnMain(call)
  BY <1>1 DEF Reached
<1>2. CASE OnMain(call) /\ board = "MIB"
  BY <1>2, ClassMIB DEF Reached, OnMain, Wired, Listens, UidAddress, Devices, Pll, Uid, NoChannel
<1>3. CASE OnMain(call) /\ board = "GIB"
  BY <1>3, ClassGIB DEF Reached, OnMain, Wired, Listens, UidAddress, Devices, Pll, Uid, NoChannel
<1>4. CASE OnMain(call) /\ board = "PC059"
  BY <1>4, ClassPC059 DEF Reached, OnMain, Wired, Listens, UidAddress, Devices, Pll, Uid, NoChannel
<1>5. CASE OnMain(call) /\ board \in {"FIB", "MIBV2", "FMC"}
  BY <1>5, ClassFIB, ClassMIBV2, ClassFMC DEF OnMain
<1> QED BY <1>1, <1>2, <1>3, <1>4, <1>5 DEF Known

LEMMA UidAlone ==
  ASSUME Known, call.op = "uid", board = "GIB" => chan = 0
  PROVE  Reached(UidAddress) \subseteq {Uid}
<1>1. CASE board = "GIB"
  BY <1>1, ClassGIB DEF Reached, OnMain, SfpOps, Wired, Listens, UidAddress, Devices, Pll, Uid,
         NoChannel
<1>2. CASE board # "GIB"
  BY <1>2 DEF Reached, Listens, UidAddress, Devices
<1> QED BY <1>1, <1>2

LEMMA PllAlone == Reached("pll") \subseteq {Pll}
BY DEF Reached, Listens, UidAddress, Devices

(* Devices with diagnostics are SFPs.                                      *)
LEMMA DiagAreSfps == Reached("diag") \subseteq Sfps
BY DEF Reached, Listens, UidAddress, Devices

(* The channel that is written is the one the device is on.                *)
LEMMA ChannelIsWired ==
  ASSUME Known, NEW c \in Call, Selects(c)
  PROVE  /\ c.op \in SfpOps /\ c.sfp \in Sfps => Channel(c) = Wired(c.sfp)
         /\ c.op = "uid" => board = "GIB" /\ Channel(c) = 0
<1> USE DEF Selects, Channel, Wired, SfpOps, OnMain
<1>1. CASE board = "MIB"
  BY <1>1, ClassMIB
<1>2. CASE board = "GIB"
  BY <1>2, ClassGIB
<1>3. CASE board = "PC059"
  BY <1>3, ClassPC059
<1>4. CASE board \in {"FIB", "MIBV2", "FMC"}
  BY <1>4, ClassFIB, ClassMIBV2, ClassFMC
<1> QED
  BY <1>1, <1>2, <1>3, <1>4 DEF Known

(* Every call on an SFP of the common bus selects its channel, but for the *)
(* laser of the GIB; and so does the UID of the GIB.                       *)
LEMMA WhoSelects ==
  ASSUME Known, NEW c \in Call, ~Selects(c)
  PROVE  /\ c.op \in SfpOps /\ c.sfp \in Sfps /\ OnMain(c) => board = "GIB" /\ c.op = "tx"
         /\ c.op = "uid" => board # "GIB"
         /\ c.op = "configure" => board # "GIB"
<1> USE DEF Selects, SfpOps, OnMain
<1>1. CASE board = "MIB"
  BY <1>1, ClassMIB
<1>2. CASE board = "GIB"
  BY <1>2, ClassGIB
<1>3. CASE board = "PC059"
  BY <1>3, ClassPC059
<1>4. CASE board \in {"FIB", "MIBV2", "FMC"}
  BY <1>4, ClassFIB, ClassMIBV2, ClassFMC
<1> QED
  BY <1>1, <1>2, <1>3, <1>4 DEF Known

(* A call that pulses the reset of the switch selects a channel next, but  *)
(* for the reset of the PC059.                                             *)
LEMMA WhoPulses ==
  ASSUME Known, NEW c \in Call, PulsesReset(c)
  PROVE  Selects(c) \/ c.op = "configure"
<1> USE DEF Selects, PulsesReset
<1>1. CASE board = "MIB"
  BY <1>1, ClassMIB
<1>2. CASE board = "GIB"
  BY <1>2, ClassGIB
<1>3. CASE board = "PC059"
  BY <1>3, ClassPC059
<1>4. CASE board \in {"FIB", "MIBV2", "FMC"}
  BY <1>4, ClassFIB, ClassMIBV2, ClassFMC
<1> QED
  BY <1>1, <1>2, <1>3, <1>4 DEF Known

(* Access leads to a step that is right for the call.                      *)
LEMMA AccessSteps ==
  ASSUME Known, NEW c \in Call
  PROVE  /\ Access(c) \in Steps \ {"hold", "release", "select", "soft", "control", "set", "set_flags"}
         /\ Access(c) \in SfpSteps => c.op \in SfpOps
         /\ Access(c) = "uid" => c.op = "uid"
         /\ Access(c) \in {"lookup", "pll"} => c.op \in {"pll", "reset", "configure"}
         /\ Access(c) = "flags" => c.op = "pin"
         /\ Access(c) \in ResetSteps \ {"pll"} => c.op = "configure"
         /\ Access(c) \in ResetSteps /\ c.op = "configure" => Access(c) \in DOMAIN Board.after
<1>1. Board.first \in ResetSteps \cap DOMAIN Board.after
  BY ResetCourse
<1>2. c.op \in Ops
  BY DEF Call
<1> QED
  BY <1>1, <1>2 DEF Access, Ops, SfpOps, Steps, PinSteps, SfpSteps, ResetSteps

---------------------------------------------------------------------------
(* From the call on, step by step, PathInv leads to the device.            *)

LEMMA SameBoard ==
  ASSUME Known, board' = board
  PROVE  /\ Known' /\ Board' = Board /\ Sfps' = Sfps
         /\ SelectsLaser' = SelectsLaser
BY DEF Known, Board, Sfps, SelectsLaser

LEMMA BeginKeepsPath ==
  ASSUME PathInv, board' = board, NEW c \in Requests[board], Begin(c)
  PROVE  PathInv'
<1>1. c \in Call /\ Known
  BY DEF PathInv, Known
<1>2. /\ call' = c /\ pc' = First(c) /\ chan' = chan /\ dark' = dark
      /\ c.op \in SfpOps => c.sfp \in Sfps
  BY DEF Begin
<1>3. CASE pc' = "hold"
  <2>1. PulsesReset(c) /\ (c.op \in SfpOps => Selects(c))
    BY <1>1, <1>2, <1>3, WhoPulses, AccessSteps DEF First, AfterReset, Steps, SfpOps
  <2> QED
    BY <2>1, <1>1, <1>2, <1>3, SameBoard
       DEF PathInv, PulsesReset, Selects, SfpSteps, ResetSteps, Steps, OnMain
<1>4. CASE pc' = "select"
  <2>1. Selects(c)
    BY <1>1, <1>2, <1>4, AccessSteps DEF First, AfterReset, Steps
  <2> QED
    BY <2>1, <1>1, <1>2, <1>4, SameBoard
       DEF PathInv, Selects, OnMain, SfpSteps, ResetSteps, Steps
<1>5. CASE pc' \notin {"hold", "select"}
  <2>1. pc' = Access(c) /\ ~Selects(c)
    BY <1>2, <1>5 DEF First, AfterReset
  <2>2. /\ c.op \in SfpOps /\ OnMain(c) => board = "GIB" /\ c.op = "tx"
        /\ c.op = "uid" => board # "GIB"
    BY <1>1, <1>2, <2>1, WhoSelects
  <2> QED
    BY <2>1, <2>2, <1>1, <1>2, AccessSteps, SameBoard
       DEF PathInv, OnMain, SfpSteps, SfpOps, Chooses, SelectsLaser, Steps, PinSteps, ResetSteps
<1> QED
  BY <1>3, <1>4, <1>5

LEMMA SwitchKeepsPath ==
  ASSUME PathInv, board' = board, HoldSwitch \/ ReleaseSwitch \/ SelectChannel
  PROVE  PathInv'
<1>1. call \in Call /\ call' = call /\ dark' = dark /\ Known
  BY DEF PathInv, HoldSwitch, ReleaseSwitch, SelectChannel
<1>2. CASE HoldSwitch /\ pc' = "release"
  BY <1>1, <1>2, SameBoard
     DEF PathInv, HoldSwitch, Selects, PulsesReset, OnMain, SfpSteps, ResetSteps, Steps
<1>3. CASE (HoldSwitch /\ pc' # "release") \/ ReleaseSwitch
  <2>1. pc' = AfterReset(call) /\ PulsesReset(call)
    BY <1>3 DEF HoldSwitch, ReleaseSwitch, PathInv
  <2>2. CASE Selects(call)
    <3>1. pc' = "select" /\ (call.op \in SfpOps => call.sfp \in Sfps)
      BY <1>3, <2>1, <2>2 DEF AfterReset, PathInv, HoldSwitch, ReleaseSwitch
    <3> QED
      BY <1>1, <2>2, <3>1, SameBoard
         DEF PathInv, Selects, OnMain, SfpSteps, ResetSteps, Steps
  <2>3. CASE ~Selects(call)
    <3>1. pc' = Access(call) /\ call.op = "configure"
      BY <1>1, <2>1, <2>3, WhoPulses DEF AfterReset
    <3> QED
      BY <1>1, <3>1, AccessSteps, SameBoard
         DEF PathInv, SfpSteps, SfpOps, ResetSteps, Steps, PinSteps
  <2> QED
    BY <2>2, <2>3
<1>4. CASE SelectChannel
  <2>1. pc = "select" /\ chan' = Channel(call) /\ pc' = Access(call) /\ Selects(call)
    BY <1>4 DEF SelectChannel, PathInv
  <2>2. /\ call.op \in SfpOps => call.sfp \in Sfps /\ chan' = Wired(call.sfp)
        /\ call.op = "uid" => chan' = 0
    BY <1>1, <2>1, ChannelIsWired DEF PathInv
  <2>3. Wired(call.sfp)' = Wired(call.sfp)
    BY <1>1, SameBoard DEF Wired
  <2> QED
    BY <1>1, <2>1, <2>2, <2>3, AccessSteps, SameBoard
       DEF PathInv, OnMain, SfpSteps, SfpOps, Steps, PinSteps, ResetSteps
<1> QED
  BY <1>2, <1>3, <1>4

LEMMA TransferKeepsPath ==
  ASSUME PathInv, board' = board,
         Identify \/ CheckCapability \/ ReadDiagnostics \/ ReadControl \/ WriteControl \/ ReadUid
         \/ ReadFlags \/ Fail
  PROVE  PathInv'
<1>1. call' = call /\ chan' = chan /\ call \in Call /\ Known
  BY DEF PathInv, Identify, CheckCapability, ReadDiagnostics, ReadControl, WriteControl, ReadUid,
         ReadFlags, Fail, End
<1>2. dark' \subseteq Sfps
  <2>1. CASE WriteControl \/ Fail
    BY <2>1, DiagAreSfps DEF PathInv, WriteControl, Fail
  <2>2. CASE ~(WriteControl \/ Fail)
    BY <2>2 DEF PathInv, Identify, CheckCapability, ReadDiagnostics, ReadControl, ReadUid, ReadFlags
  <2> QED
    BY <2>1, <2>2
<1>3. \/ pc' \in {"idle", "restore"}
      \/ pc \in SfpSteps /\ pc' \in {"ddm", "swap", "diag"}
      \/ pc \in SfpSteps /\ pc' \in {"soft", "control", "set"} /\ call.op = "tx"
      \/ pc' = "set_flags" /\ call.op = "pin"
  <2>1. CASE CheckCapability
    BY <2>1 DEF CheckCapability, End, PathInv, SfpSteps, SfpOps
  <2>2. CASE ~CheckCapability
    BY <2>2 DEF PathInv, Identify, ReadDiagnostics, ReadControl, WriteControl, ReadUid,
                ReadFlags, Fail, End, SfpSteps
  <2> QED
    BY <2>1, <2>2
<1>4. Wired(call.sfp)' = Wired(call.sfp)
  BY <1>1, SameBoard DEF Wired
<1> QED
  BY <1>1, <1>2, <1>3, <1>4, SameBoard
     DEF PathInv, SfpSteps, Steps, PinSteps, ResetSteps, OnMain, Chooses

(* A reset goes on to its next step.                                       *)
LEMMA ResetKeepsPath ==
  ASSUME PathInv, board' = board, AccessPll \/ ResetMmcm \/ WritePins
  PROVE  PathInv'
<1>1. /\ call' = call /\ chan' = chan /\ dark' = dark /\ call \in Call /\ Known /\ Advance
      /\ pc \in ResetSteps \cup {"set_flags"}
  BY DEF PathInv, AccessPll, ResetMmcm, WritePins, PinSteps, ResetSteps
<1>2. \/ pc' \in {"idle", "restore"}
      \/ /\ pc' \in ResetSteps /\ pc' \in DOMAIN Board.after
         /\ call.op = "configure"
  <2>1. CASE call.op = "configure" /\ Board.after[pc] # "done"
    <3>1. pc \in DOMAIN Board.after
      BY <1>1, <2>1 DEF PathInv
    <3> QED
      BY <1>1, <2>1, <3>1, ResetCourse DEF Advance
  <2>2. CASE ~(call.op = "configure" /\ Board.after[pc] # "done")
    BY <1>1, <2>2 DEF Advance, End
  <2> QED
    BY <2>1, <2>2
<1> QED
  BY <1>1, <1>2, SameBoard DEF PathInv, SfpSteps, Steps, PinSteps, ResetSteps

LEMMA LookUpKeepsPath ==
  ASSUME PathInv, board' = board, LookUpPll
  PROVE  PathInv'
<1>1. /\ call' = [call EXCEPT !.op = "configure"] /\ call' \in Call /\ call'.op = "configure"
      /\ pc' = First(call') /\ dark' = dark /\ Known
  BY DEF LookUpPll, PathInv, Call, Ops
<1>2. Access(call') \in ResetSteps \cap DOMAIN Board.after
  BY <1>1, ResetCourse DEF Access
<1>3. pc' = "hold" => PulsesReset(call')
  BY <1>1, <1>2 DEF First, AfterReset, ResetSteps
<1>4. pc' = "select" => Selects(call')
  BY <1>1, <1>2 DEF First, AfterReset, ResetSteps
<1>5. pc' \in {"hold", "select"} \cup (ResetSteps \cap DOMAIN Board.after)
  BY <1>1, <1>2 DEF First, AfterReset
<1>6. (pc = "hold" => PulsesReset(call))' /\ (pc = "select" => Selects(call))'
  BY <1>1, <1>3, <1>4, SameBoard DEF PulsesReset, Selects, OnMain
<1> QED
  BY <1>1, <1>5, <1>6, SameBoard DEF PathInv, SfpSteps, SfpOps, Steps, PinSteps, ResetSteps

LEMMA StepKeepsPath ==
  ASSUME PathInv, [Next]_vars
  PROVE  PathInv'
<1>0. Known /\ board' = board
  BY BoardStays DEF PathInv
<1>1. CASE UNCHANGED vars
  BY <1>0, <1>1, SameBoard
     DEF vars, PathInv, OnMain, Chooses, Wired, Selects, PulsesReset
<1>2. ASSUME NEW c \in Requests[board], RefuseId(c) PROVE PathInv'
  <2>1. call' \in Call /\ pc' = "idle" /\ dark' = dark
    BY <1>2, <1>0 DEF RefuseId, Known
  <2> QED
    BY <2>1, <1>0, SameBoard DEF PathInv, SfpSteps, ResetSteps, Steps
<1>3. CASE SelectFails \/ Restore \/ RestoreFails
  <2>1. call' = call /\ pc' = "idle" /\ dark' = dark
    BY <1>3 DEF SelectFails, Restore, RestoreFails
  <2> QED
    BY <2>1, <1>0, SameBoard DEF PathInv, SfpSteps, ResetSteps, Steps
<1> QED
  BY <1>0, <1>1, <1>2, <1>3, BeginKeepsPath, SwitchKeepsPath, TransferKeepsPath,
     ResetKeepsPath, LookUpKeepsPath DEF Next

(* The inductive invariant: the switch is where the call needs it.         *)
THEOREM SwitchIsAtTarget == Spec => []PathInv
<1>1. Init => PathInv
  BY BoardAssumption DEF Init, PathInv, Known, Class, Call, Ops, SfpSteps, ResetSteps, Steps
<1>2. PathInv /\ [Next]_vars => PathInv'
  BY StepKeepsPath
<1> QED
  BY <1>1, <1>2, PTL DEF Spec

---------------------------------------------------------------------------
(* Only WriteControl, or its failure, changes a laser, and it reaches the  *)
(* SFP that the call names.                                                *)
LEMMA LaserStep ==
  ASSUME SelectsLaser, PathInv, [Next]_vars, NEW s \in Sfps,
         (s \in dark) # (s \in dark')
  PROVE  call.op = "tx" /\ call.sfp = s
<1>1. pc = "set" /\ s \in Reached("diag")
  <2>1. WriteControl \/ Fail
    BY DEF Next, vars, Begin, RefuseId, HoldSwitch, ReleaseSwitch, SelectChannel, SelectFails,
           Identify, CheckCapability, ReadDiagnostics, ReadControl, ReadUid, LookUpPll, AccessPll,
           ResetMmcm, ReadFlags, WritePins, Restore, RestoreFails
  <2> QED
    BY <2>1 DEF WriteControl, Fail
<1>2. /\ call.op = "tx" /\ call.sfp \in Sfps
      /\ OnMain(call) => chan = Wired(call.sfp)
  BY <1>1 DEF PathInv, SfpSteps, Chooses
<1>3. Reached("diag") \subseteq {call.sfp}
  BY <1>2, SfpAlone DEF SfpOps, PathInv
<1> QED
  BY <1>1, <1>2, <1>3

(* On all boards but the GIB a laser changes only by a call that names it, *)
(* whatever calls went before and however they failed.                     *)
THEOREM LasersSwitchAsNamed == Spec => AskedLaserWhereSelected
<1>1. PathInv /\ [Next]_vars =>
        [SelectsLaser => \A s \in Sfps :
           (s \in dark) # (s \in dark') => call.op = "tx" /\ call.sfp = s]_vars
  BY LaserStep
<1> QED
  BY <1>1, SwitchIsAtTarget, PTL DEF Spec, AskedLaserWhereSelected

---------------------------------------------------------------------------
(* A step reads from the target only.                                      *)
LEMMA AnswerStep ==
  ASSUME PathInv, AnswersOfTarget, [Next]_vars
  PROVE  AnswersOfTarget'
<1> USE DEF AnswersOfTarget
<1>1. ASSUME NEW c \in Requests[board], Begin(c) \/ RefuseId(c) PROVE AnswersOfTarget'
  BY <1>1 DEF Begin, RefuseId
<1>2. CASE UNCHANGED <<call, heard>>
  BY <1>2
<1>3. CASE Identify \/ CheckCapability \/ ReadDiagnostics \/ ReadControl
  <2>1. PICK a \in {"eeprom", "diag"} : \E d \in Reached(a) : heard' = heard \cup {d}
    BY <1>3 DEF Identify, CheckCapability, ReadDiagnostics, ReadControl
  <2>2. call' = call /\ pc \in SfpSteps
    BY <1>3 DEF Identify, CheckCapability, ReadDiagnostics, ReadControl, SfpSteps
  <2>3. call.op = "status" => Reached(a) \subseteq {call.sfp}
    BY <2>2, SfpAlone DEF PathInv, Chooses
  <2>4. call.op \in SfpOps
    BY <2>2 DEF PathInv
  <2> QED
    BY <2>1, <2>2, <2>3, <2>4 DEF SfpOps
<1>4. CASE ReadUid
  <2>1. call' = call /\ call.op = "uid" /\ Reached(UidAddress) \subseteq {Uid}
    BY <1>4, UidAlone DEF ReadUid, PathInv
  <2> QED
    BY <1>4, <2>1 DEF ReadUid
<1>5. CASE LookUpPll \/ AccessPll
  <2>1. /\ call.op \in {"pll", "reset", "configure"} /\ call'.op \in {"pll", "reset", "configure"}
        /\ \E d \in {Pll} : heard' = heard \cup {d}
    BY <1>5, PllAlone DEF LookUpPll, AccessPll, PathInv, Call
  <2> QED
    BY <2>1
<1> QED
  BY <1>1, <1>2, <1>3, <1>4, <1>5
     DEF Next, vars, HoldSwitch, ReleaseSwitch, SelectChannel, SelectFails, WriteControl,
         ResetMmcm, ReadFlags, WritePins, Fail, Restore, RestoreFails

(* On every board, what the calls report comes from the device they are    *)
(* about.                                                                  *)
THEOREM ReportsAreOfTarget == Spec => []AnswersOfTarget
<1>1. Init => AnswersOfTarget
  BY DEF Init, AnswersOfTarget
<1>2. PathInv /\ AnswersOfTarget /\ [Next]_vars => AnswersOfTarget'
  BY AnswerStep
<1> QED
  BY <1>1, <1>2, SwitchIsAtTarget, PTL DEF Spec

---------------------------------------------------------------------------
(* What a call that switches a pin names is an SFP, and the flags it has   *)
(* read are the pins.                                                      *)
FlagsRead ==
  /\ call.op = "pin" /\ pc # "idle" => call.sfp \in Sfps
  /\ pc = "set_flags" => flags = pins.off
  /\ pc = "restore" => board = "MIB" /\ call.op \in SfpOps

IInv == PathInv /\ TypeOK /\ FlagsRead

---------------------------------------------------------------------------
(* The channels that are written are channels of the switch.               *)
LEMMA ChannelInRange ==
  ASSUME PathInv, pc = "select"
  PROVE  Channel(call) \in 0 .. 7
<1>1. Known /\ call \in Call /\ Selects(call) /\ (call.op \in SfpOps => call.sfp \in Sfps)
  BY DEF PathInv
<1> USE DEF Channel, Selects, SfpOps, OnMain
<1>2. CASE board = "MIB"
  BY <1>1, <1>2, ClassMIB
<1>3. CASE board = "GIB"
  BY <1>1, <1>3, ClassGIB
<1>4. CASE board = "PC059"
  BY <1>1, <1>4, ClassPC059
<1>5. CASE board \in {"FIB", "MIBV2", "FMC"}
  BY <1>1, <1>5, ClassFIB, ClassMIBV2, ClassFMC
<1> QED
  BY <1>1, <1>2, <1>3, <1>4, <1>5 DEF Known

(* The outputs of the expanders stay outputs of expanders.                 *)
LEMMA PinsWritten ==
  ASSUME TypeOK, FlagsRead, PathInv, pc \in PinSteps
  PROVE  Written(pc) \in [off : SUBSET Sfps, driven : BOOLEAN, held : BOOLEAN]
<1>1. pc = "set_flags" => NewFlags \subseteq Sfps
  BY DEF TypeOK, FlagsRead, PathInv, NewFlags
<1> QED
  BY <1>1 DEF TypeOK, Written, PinSteps

LEMMA UndrivenPins == Undriven \in [off : SUBSET Sfps, driven : BOOLEAN, held : BOOLEAN]
BY DEF Undriven

LEMMA PinsTyped ==
  ASSUME IInv, [Next]_vars
  PROVE  pins' \in [off : SUBSET Sfps, driven : BOOLEAN, held : BOOLEAN]
<1>1. CASE pins' = pins
  BY <1>1 DEF IInv, TypeOK
<1>2. CASE HoldSwitch
  <2>1. CASE board = "GIB"
    BY <1>2, <2>1, UndrivenPins DEF HoldSwitch
  <2> QED
    BY <2>1, <1>1, <1>2 DEF HoldSwitch
<1>3. CASE ReleaseSwitch
  BY <1>3 DEF ReleaseSwitch, IInv, TypeOK
<1>4. CASE WritePins \/ Fail
  BY <1>1, <1>4, PinsWritten DEF WritePins, Fail, IInv
<1> QED
  BY <1>1, <1>2, <1>3, <1>4
     DEF Next, vars, Begin, RefuseId, SelectChannel, SelectFails, Identify, CheckCapability,
         ReadDiagnostics, ReadControl, WriteControl, ReadUid, LookUpPll, AccessPll, ResetMmcm,
         ReadFlags, Restore, RestoreFails

LEMMA ChanTyped ==
  ASSUME IInv, [Next]_vars
  PROVE  chan' \in 0 .. 7 \cup {NoChannel, Held}
<1>1. CASE chan' = chan
  BY <1>1 DEF IInv, TypeOK
<1>2. CASE HoldSwitch \/ ReleaseSwitch
  BY <1>2 DEF HoldSwitch, ReleaseSwitch
<1>3. CASE SelectChannel \/ SelectFails
  BY <1>1, <1>3, ChannelInRange DEF SelectChannel, SelectFails, IInv
<1>4. CASE Restore \/ RestoreFails
  <2>1. Board.main = 3
    BY <1>4, ClassMIB DEF Restore, RestoreFails, IInv, PathInv, FlagsRead
  <2> QED
    BY <1>1, <1>4, <2>1 DEF Restore, RestoreFails
<1> QED
  BY <1>1, <1>2, <1>3, <1>4
     DEF Next, vars, Begin, RefuseId, Identify, CheckCapability, ReadDiagnostics, ReadControl,
         WriteControl, ReadUid, LookUpPll, AccessPll, ResetMmcm, ReadFlags, WritePins, Fail

(* What is read is read from devices.                                      *)
LEMMA HeardTyped ==
  ASSUME IInv, [Next]_vars
  PROVE  heard' \subseteq Devices
<1>1. \A a : Reached(a) \subseteq Devices
  BY DEF Reached
<1>2. CASE heard' \in {heard, {}}
  BY <1>2 DEF IInv, TypeOK
<1>3. CASE \E a : \E d \in Reached(a) : heard' = heard \cup {d}
  BY <1>1, <1>3 DEF IInv, TypeOK
<1> QED
  BY <1>2, <1>3
     DEF Next, vars, Begin, RefuseId, HoldSwitch, ReleaseSwitch, SelectChannel, SelectFails,
         Identify, CheckCapability, ReadDiagnostics, ReadControl, WriteControl, ReadUid, LookUpPll,
         AccessPll, ResetMmcm, ReadFlags, WritePins, Fail, Restore, RestoreFails

LEMMA FlagsTyped ==
  ASSUME IInv, [Next]_vars
  PROVE  flags' \subseteq Sfps
<1>1. flags' \in {flags, {}, pins.off}
  BY DEF Next, vars, Begin, RefuseId, HoldSwitch, ReleaseSwitch, SelectChannel, SelectFails,
         Identify, CheckCapability, ReadDiagnostics, ReadControl, WriteControl, ReadUid, LookUpPll,
         AccessPll, ResetMmcm, ReadFlags, WritePins, Fail, Restore, RestoreFails
<1> QED
  BY <1>1 DEF IInv, TypeOK

LEMMA OutTyped ==
  ASSUME IInv, [Next]_vars
  PROVE  out' \in {"none", "ok", "invalid", "unselected", "unsupported", "failed", "unrestored"}
BY DEF IInv, TypeOK, End, Advance, Next, vars, Begin, RefuseId, HoldSwitch, ReleaseSwitch,
       SelectChannel, SelectFails, Identify, CheckCapability, ReadDiagnostics, ReadControl,
       WriteControl, ReadUid, LookUpPll, AccessPll, ResetMmcm, ReadFlags, WritePins, Fail,
       Restore, RestoreFails

LEMMA TypesStay ==
  ASSUME IInv, [Next]_vars, PathInv'
  PROVE  TypeOK'
<1>1. board' = board /\ kind' = kind
  BY DEF Next, vars, built, Begin, RefuseId, HoldSwitch, ReleaseSwitch, SelectChannel, SelectFails,
         Identify, CheckCapability, ReadDiagnostics, ReadControl, WriteControl, ReadUid, LookUpPll,
         AccessPll, ResetMmcm, ReadFlags, WritePins, Fail, Restore, RestoreFails
<1>2. Sfps' = Sfps /\ Devices' = Devices
  BY <1>1, SameBoard DEF Devices, IInv, PathInv, Pll, Uid
<1>3. board' \in Boards /\ kind' \in [Devices -> Kinds]
  BY <1>1 DEF IInv, TypeOK
<1> QED
  BY <1>2, <1>3, PinsTyped, ChanTyped, HeardTyped, FlagsTyped, OutTyped
     DEF TypeOK, PathInv

LEMMA FlagsStayRead ==
  ASSUME IInv, [Next]_vars
  PROVE  FlagsRead'
<1>1. board' = board /\ Sfps' = Sfps
  BY BoardStays, SameBoard DEF IInv, PathInv
<1>2. CASE UNCHANGED vars
  BY <1>1, <1>2 DEF vars, IInv, FlagsRead
<1>3. ASSUME NEW c \in Requests[board], Begin(c) PROVE FlagsRead'
  <2>1. pc' \notin {"set_flags", "restore"} /\ c \in Call
    BY <1>3, AccessSteps DEF Begin, First, AfterReset, IInv, PathInv, Known, Steps, PinSteps
  <2> QED
    BY <1>1, <1>3, <2>1 DEF Begin, FlagsRead
<1>4. ASSUME NEW c \in Requests[board], RefuseId(c) PROVE FlagsRead'
  BY <1>1, <1>4 DEF RefuseId, FlagsRead
<1>5. CASE HoldSwitch \/ ReleaseSwitch \/ SelectChannel
  <2>1. pc' \notin {"set_flags", "restore"} /\ call' = call /\ pc # "idle"
    BY <1>5, AccessSteps
       DEF HoldSwitch, ReleaseSwitch, SelectChannel, AfterReset, IInv, PathInv, Steps, PinSteps
  <2> QED
    BY <1>1, <2>1 DEF IInv, FlagsRead
<1>6. CASE LookUpPll
  <2>1. call'.op = "configure" /\ pc' \notin {"set_flags", "restore"}
    BY <1>6, ResetCourse
       DEF LookUpPll, First, AfterReset, Access, IInv, PathInv, Call, ResetSteps
  <2> QED
    BY <2>1 DEF FlagsRead
<1>7. CASE ReadFlags
  BY <1>1, <1>7 DEF ReadFlags, IInv, FlagsRead
<1>8. CASE AccessPll \/ ResetMmcm \/ WritePins
  <2>1. call' = call /\ pc # "idle" /\ Advance
    BY <1>8 DEF AccessPll, ResetMmcm, WritePins, PinSteps
  <2>2. pc' # "set_flags"
    BY <2>1, <1>8, ResetCourse
       DEF Advance, End, IInv, PathInv, ResetSteps, AccessPll, ResetMmcm, WritePins, PinSteps
  <2>3. pc' = "restore" => Restores("ok")
    BY <2>1, <2>2, <1>8, ResetCourse
       DEF Advance, End, IInv, PathInv, ResetSteps, AccessPll, ResetMmcm, WritePins, PinSteps
  <2> QED
    BY <1>1, <2>1, <2>2, <2>3 DEF IInv, FlagsRead, Restores, SfpOps
<1>9. CASE \/ Identify \/ CheckCapability \/ ReadDiagnostics \/ ReadControl \/ WriteControl
           \/ ReadUid \/ Fail \/ SelectFails \/ Restore \/ RestoreFails
  <2>1. call' = call /\ pc # "idle" /\ pc' # "set_flags"
    BY <1>9 DEF Identify, CheckCapability, ReadDiagnostics, ReadControl, WriteControl, ReadUid,
                Fail, SelectFails, Restore, RestoreFails, End, Steps, PinSteps
  <2>2. pc' = "restore" => \E r \in {"ok", "unsupported", "failed"} : Restores(r)
    BY <1>9 DEF Identify, CheckCapability, ReadDiagnostics, ReadControl, WriteControl, ReadUid,
                Fail, SelectFails, Restore, RestoreFails, End
  <2> QED
    BY <1>1, <2>1, <2>2 DEF IInv, FlagsRead, Restores, SfpOps
<1> QED
  BY <1>2, <1>3, <1>4, <1>5, <1>6, <1>7, <1>8, <1>9 DEF Next

(* The types, the path to the device and the flags read, together.         *)
THEOREM Inductive == Spec => []IInv
<1>1. Init => TypeOK /\ FlagsRead
  BY BoardAssumption, UndrivenPins
     DEF Init, TypeOK, FlagsRead, Kinds, Devices, Steps, Call, Ops, SfpOps
<1>2. PathInv /\ TypeOK /\ FlagsRead /\ [Next]_vars /\ PathInv' => (TypeOK /\ FlagsRead)'
  BY TypesStay, FlagsStayRead DEF IInv
<1>3. PathInv /\ TypeOK /\ FlagsRead => IInv
  BY DEF IInv
<1> QED
  BY <1>1, <1>2, <1>3, SwitchIsAtTarget, PTL DEF Spec

(* Whatever cages are fitted and whatever is asked, the types hold: every  *)
(* channel written is one of the eight, every pin an SFP's.                *)
THEOREM TypeCorrect == Spec => []TypeOK
<1>1. IInv => TypeOK
  BY DEF IInv
<1> QED
  BY <1>1, Inductive, PTL

---------------------------------------------------------------------------
(* A step that changes a pin is a reset, or writes back the flags it read  *)
(* but for the SFP that was asked for.                                     *)
LEMMA PinStep ==
  ASSUME IInv, [Next]_vars, NEW s \in Sfps,
         (s \in pins.off) # (s \in pins'.off)
  PROVE  \/ call.op \in {"reset", "configure"}
         \/ call.op = "pin" /\ call.sfp = s /\ (s \in pins.off) = call.on
<1>1. CASE pins' = pins
  BY <1>1
<1>2. CASE HoldSwitch
  <2>1. board = "GIB" /\ PulsesReset(call)
    BY <1>2 DEF HoldSwitch, IInv, PathInv
  <2> QED
    BY <2>1, ClassGIB DEF PulsesReset, IInv, PathInv
<1>3. CASE ReleaseSwitch
  BY <1>3 DEF ReleaseSwitch, IInv, TypeOK
<1>4. CASE (WritePins \/ Fail) /\ pins' = Written(pc) /\ pc \in PinSteps
  <2>1. CASE pc = "set_flags"
    <3>1. call.op = "pin" /\ flags = pins.off /\ pins'.off = NewFlags
      BY <1>4, <2>1 DEF IInv, PathInv, FlagsRead, Written, TypeOK
    <3> QED
      BY <3>1 DEF NewFlags, IInv, PathInv, Call
  <2>2. CASE pc # "set_flags"
    BY <1>4, <2>2 DEF IInv, PathInv, PinSteps, ResetSteps
  <2> QED
    BY <2>1, <2>2
<1> QED
  BY <1>1, <1>2, <1>3, <1>4
     DEF Next, vars, Begin, RefuseId, SelectChannel, SelectFails, Identify, CheckCapability,
         ReadDiagnostics, ReadControl, WriteControl, ReadUid, LookUpPll, AccessPll, ResetMmcm,
         ReadFlags, WritePins, Fail, Restore, RestoreFails

(* Besides resets, a pin changes only by the call that names its SFP, and  *)
(* as that asks, however calls before it failed between read and write.    *)
THEOREM PinsSwitchAsNamed == Spec => OnlyTheAskedPin
<1>1. IInv /\ [Next]_vars =>
        [\A s \in Sfps :
           (s \in pins.off) # (s \in pins'.off) =>
             \/ call.op \in {"reset", "configure"}
             \/ call.op = "pin" /\ call.sfp = s /\ (s \in pins.off) = call.on]_vars
  BY PinStep
<1> QED
  BY <1>1, Inductive, PTL DEF Spec, OnlyTheAskedPin

---------------------------------------------------------------------------
(* How far a reset has come.  Only the GIB and the FIB can hold their PLL  *)
(* in reset, and the GIB no longer once its switch is released; the FIB    *)
(* drives its pins before it lights the lasers, and those before its PLL.  *)
Progress ==
  /\ pins.held => board \in {"GIB", "FIB"}
  /\ board = "GIB" /\ call.op \in {"reset", "configure"} /\ pc \notin {"hold", "release", "idle"} =>
       ~pins.held
  /\ board = "GIB" /\ pc = "lookup" => chan = 0 /\ call.op = "reset"
  /\ pc = "light" /\ board # "FMC" => pins.driven
  /\ board = "FIB" =>
       /\ pc \in {"pll_out", "pll_low", "pll_high"} => pins.driven /\ pins.off = {}
       /\ pc = "pll" /\ call.op = "configure" => pins.driven /\ pins.off = {} /\ ~pins.held
  /\ kind[Pll] = "full"
  /\ ResetLeavesRunning

RInv == IInv /\ Progress

(* The calls of the GIB begin with the pulse of the reset, or leave the    *)
(* PLL's reset alone.                                                      *)
LEMMA FirstOfReset ==
  ASSUME Known, NEW c \in Call
  PROVE  /\ board = "GIB" /\ c.op \in {"reset", "configure"} => First(c) = "hold"
         /\ First(c) \notin {"light", "pll_out", "pll_low", "pll_high", "idle"}
         /\ board = "FIB" /\ First(c) = "pll" => c.op # "configure"
         /\ board = "GIB" => First(c) # "lookup"
<1>1. CASE board = "GIB"
  BY <1>1, ClassGIB DEF First, AfterReset, Access, PulsesReset, OnMain, SfpOps
<1>2. CASE board \in {"MIB", "PC059", "FIB", "MIBV2", "FMC"}
  BY <1>2, ClassMIB, ClassPC059, ClassFIB, ClassMIBV2, ClassFMC DEF First, AfterReset, Access
<1> QED
  BY <1>1, <1>2 DEF Known

(* A write of pins brings a reset one step on.                             *)
LEMMA WriteProgress ==
  ASSUME RInv, WritePins, board' = board, kind' = kind
  PROVE  Progress'
<1>1. /\ Known /\ call' = call /\ pins' = Written(pc) /\ Advance /\ pc \in PinSteps
      /\ pc = "set_flags" => call.op = "pin"
      /\ pc # "set_flags" => call.op = "configure" /\ pc \in DOMAIN Board.after
      /\ Board' = Board
  BY SameBoard DEF WritePins, RInv, IInv, PathInv, PinSteps, ResetSteps
<1>2. pins \in [off : SUBSET Sfps, driven : BOOLEAN, held : BOOLEAN]
  BY DEF RInv, IInv, TypeOK
<1>3. /\ pins'.driven = (IF pc = "drive" THEN TRUE ELSE pins.driven)
      /\ pc = "light" => pins'.off = {}
      /\ pc \in {"drive", "pll_out", "pll_low", "pll_high"} => pins'.off = pins.off
      /\ pins'.held = (IF pc = "pll_low" THEN TRUE
                       ELSE IF pc \in {"pll_out", "pll_high"} THEN FALSE ELSE pins.held)
  BY <1>1, <1>2 DEF Written, PinSteps
<1> USE DEF Progress, ResetLeavesRunning
<1>4. CASE pc = "set_flags"
  <2>1. pc' \in {"idle", "restore"} /\ call.op = "pin"
    BY <1>1, <1>4 DEF Advance, End
  <2> QED
    BY <1>1, <1>3, <1>4, <2>1 DEF RInv
<1>5. CASE board = "FIB" /\ pc # "set_flags"
  <2>1. /\ pc = "drive" => pc' = "light"
        /\ pc = "light" => pc' = "pll_out"
        /\ pc = "pll_out" => pc' = "pll_low"
        /\ pc = "pll_low" => pc' = "pll_high"
        /\ pc = "pll_high" => pc' = "pll"
    BY <1>1, <1>5, ClassFIB DEF Advance
  <2> QED
    BY <1>1, <1>3, <1>5, <2>1 DEF RInv, PinSteps
<1>6. CASE board \in {"GIB", "PC059"} /\ pc # "set_flags"
  <2>1. /\ Board.after = ExpanderTail
        /\ pc = "drive" => pc' = "light"
        /\ pc = "light" => pc' = "idle"
        /\ pc \in {"drive", "light"}
    BY <1>1, <1>6, ClassGIB, ClassPC059
       DEF Advance, ExpanderTail, End, Restores, SfpOps, PinSteps
  <2> QED
    BY <1>1, <1>3, <1>6, <2>1 DEF RInv, ExpanderTail
<1>7. CASE board = "FMC" /\ pc # "set_flags"
  <2>1. Board.after = [pll |-> "mmcm", mmcm |-> "light", light |-> "done"]
    BY <1>1, <1>7, ClassFMC
  <2>2. pc = "light" /\ pc' = "idle"
    BY <1>1, <1>7, <2>1 DEF Advance, End, Restores, PinSteps
  <2> QED
    BY <1>1, <1>3, <1>7, <2>1, <2>2 DEF RInv
<1>8. CASE board \in {"MIB", "MIBV2"} /\ pc # "set_flags"
  <2>1. Board.after = PlainTail
    BY <1>1, <1>8, ClassMIB, ClassMIBV2
  <2> QED
    BY <1>1, <1>8, <2>1 DEF PlainTail, PinSteps
<1> QED
  BY <1>1, <1>4, <1>5, <1>6, <1>7, <1>8 DEF Known

(* So does the PLL, and the clock manager.                                 *)
LEMMA ClockProgress ==
  ASSUME RInv, AccessPll \/ ResetMmcm, board' = board, kind' = kind
  PROVE  Progress'
<1>1. /\ Known /\ call' = call /\ pins' = pins /\ Advance /\ pc \in {"pll", "mmcm"}
      /\ call.op = "configure" => pc \in DOMAIN Board.after
      /\ Board' = Board
  BY SameBoard DEF AccessPll, ResetMmcm, RInv, IInv, PathInv, ResetSteps
<1> USE DEF Progress, ResetLeavesRunning
<1>2. CASE call.op # "configure"
  <2>1. pc' \in {"idle", "restore"}
    BY <1>1, <1>2 DEF Advance, End
  <2> QED
    BY <1>1, <1>2, <2>1 DEF RInv
<1>3. CASE call.op = "configure" /\ board = "FIB"
  <2>1. pc = "pll" /\ pc' = "idle"
    BY <1>1, <1>3, ClassFIB DEF Advance, End, Restores
  <2> QED
    BY <1>1, <1>3, <2>1 DEF RInv
<1>4. CASE call.op = "configure" /\ board \in {"GIB", "PC059"}
  <2>1. pc' \in {"mmcm", "drive"}
    BY <1>1, <1>4, ClassGIB, ClassPC059 DEF Advance, ExpanderTail
  <2> QED
    BY <1>1, <1>4, <2>1 DEF RInv
<1>5. CASE call.op = "configure" /\ board = "FMC"
  <2>1. pc' \in {"mmcm", "light"}
    BY <1>1, <1>5, ClassFMC DEF Advance
  <2> QED
    BY <1>1, <1>5, <2>1 DEF RInv
<1>6. CASE call.op = "configure" /\ board \in {"MIB", "MIBV2"}
  <2>1. Board.after = PlainTail /\ pc' \in {"mmcm", "idle"}
    BY <1>1, <1>6, ClassMIB, ClassMIBV2 DEF Advance, PlainTail, End, Restores, SfpOps
  <2> QED
    BY <1>1, <1>6, <2>1 DEF RInv, PlainTail
<1> QED
  BY <1>1, <1>2, <1>3, <1>4, <1>5, <1>6 DEF Known

LEMMA StepKeepsProgress ==
  ASSUME RInv, [Next]_vars
  PROVE  Progress'
<1>1. Known /\ board' = board /\ kind' = kind /\ Board' = Board /\ call \in Call
  BY SameBoard DEF RInv, IInv, PathInv, Next, vars, built, Begin, RefuseId, HoldSwitch, ReleaseSwitch,
         SelectChannel, SelectFails, Identify, CheckCapability, ReadDiagnostics, ReadControl,
         WriteControl, ReadUid, LookUpPll, AccessPll, ResetMmcm, ReadFlags, WritePins, Fail,
         Restore, RestoreFails
<1> USE DEF Progress, ResetLeavesRunning
<1>2. CASE UNCHANGED vars
  BY <1>1, <1>2 DEF vars, RInv
<1>3. ASSUME NEW c \in Requests[board], Begin(c) PROVE Progress'
  <2>1. c \in Call /\ call' = c /\ pc' = First(c) /\ pins' = pins
    BY <1>1, <1>3 DEF Begin, Known
  <2>2. First(c) # "pll_out" /\ First(c) # "pll_low" /\ First(c) # "pll_high"
    BY <1>1, <2>1, FirstOfReset
  <2> QED
    BY <1>1, <2>1, <2>2, FirstOfReset DEF RInv
<1>4. ASSUME NEW c \in Requests[board], RefuseId(c) PROVE Progress'
  BY <1>1, <1>4 DEF RefuseId, RInv
<1>5. CASE HoldSwitch \/ ReleaseSwitch \/ SelectChannel
  <2>1. CASE board = "GIB"
    <3>1. CASE HoldSwitch
      BY <1>1, <2>1, <3>1 DEF HoldSwitch, RInv
    <3>2. CASE ReleaseSwitch
      <4>1. pc' = "select" /\ call' = call
        BY <1>1, <2>1, <3>2, ClassGIB
           DEF ReleaseSwitch, AfterReset, RInv, IInv, PathInv, PulsesReset, Selects
      <4>2. pins'.held = FALSE
        BY <3>2 DEF ReleaseSwitch, RInv, IInv, TypeOK
      <4> QED
        BY <1>1, <2>1, <4>1, <4>2 DEF RInv
    <3>3. CASE SelectChannel
      <4>1. pc = "select" /\ pc' = Access(call) /\ chan' = Channel(call) /\ pins' = pins /\ call' = call
        BY <3>3 DEF SelectChannel
      <4>2. Board.first = "pll" /\ Board.main = 0
        BY <1>1, <2>1, ClassGIB
      <4>3. pc' \notin {"light", "idle"} /\ (pc' = "lookup" => call.op = "reset" /\ chan' = 0)
        BY <4>1, <4>2 DEF Access, Channel, SfpOps
      <4> QED
        BY <1>1, <2>1, <4>1, <4>3 DEF RInv
    <3> QED
      BY <1>5, <3>1, <3>2, <3>3
  <2>2. CASE board # "GIB"
    <3>1. board # "FIB"
      BY <1>1, <1>5, ClassFIB
         DEF HoldSwitch, ReleaseSwitch, SelectChannel, RInv, IInv, PathInv, PulsesReset, Selects
    <3>2. call' = call /\ pc' \in {"release", AfterReset(call), Access(call)}
      BY <1>5 DEF HoldSwitch, ReleaseSwitch, SelectChannel
    <3>3. Board.first = "pll"
      BY <1>1, <2>2, <3>1, ClassMIB, ClassPC059, ClassMIBV2, ClassFMC DEF Known
    <3>4. pc' \notin {"light", "idle"}
      BY <3>2, <3>3 DEF AfterReset, Access
    <3>5. ~pins'.held
      BY <1>5, <2>2, <3>1
         DEF HoldSwitch, ReleaseSwitch, SelectChannel, RInv, IInv, TypeOK
    <3> QED
      BY <1>1, <2>2, <3>1, <3>2, <3>4, <3>5 DEF RInv
  <2> QED
    BY <2>1, <2>2
<1>6. CASE LookUpPll
  <2>1. /\ call' = [call EXCEPT !.op = "configure"] /\ call'.op = "configure"
        /\ call' \in Call /\ pc' = First(call') /\ pins' = pins
    BY <1>1, <1>6 DEF LookUpPll, Call, Ops
  <2>2. First(call') # "pll_out" /\ First(call') # "pll_low" /\ First(call') # "pll_high"
    BY <1>1, <2>1, FirstOfReset
  <2> QED
    BY <1>1, <2>1, <2>2, FirstOfReset DEF RInv
<1>7. CASE Fail
  <2>1. call' = call /\ pc' \in {"idle", "restore"} /\ out' = "failed"
    BY <1>7 DEF Fail, End
  <2>2. pc' = "restore" => board = "MIB"
    BY <1>7 DEF Fail, End, Restores
  <2>3. pins'.held => board \in {"GIB", "FIB"}
    <3>1. CASE pins' = pins
      BY <3>1 DEF RInv
    <3>2. CASE pc \in PinSteps /\ pins' = Written(pc)
      <4>1. pc = "pll_low" => board = "FIB"
        BY <1>1, ClassMIB, ClassGIB, ClassPC059, ClassMIBV2, ClassFMC
           DEF RInv, IInv, PathInv, ResetSteps, PlainTail, ExpanderTail, Known
      <4>2. pins'.held => pins.held \/ pc = "pll_low"
        BY <3>2 DEF Written, PinSteps, RInv, IInv, TypeOK
      <4> QED
        BY <4>1, <4>2 DEF RInv
    <3> QED
      BY <1>7, <3>1, <3>2 DEF Fail
  <2> QED
    BY <1>1, <2>1, <2>2, <2>3 DEF RInv
<1>8. CASE SelectFails \/ Restore \/ RestoreFails
  <2>1. /\ call' = call /\ pc' = "idle" /\ pins' = pins
        /\ out' = "unselected" \/ call.op \in SfpOps
    BY <1>8 DEF SelectFails, Restore, RestoreFails, RInv, IInv, FlagsRead
  <2> QED
    BY <1>1, <2>1 DEF RInv, SfpOps
<1>9. CASE \/ Identify \/ CheckCapability \/ ReadDiagnostics \/ ReadControl \/ WriteControl
           \/ ReadUid \/ ReadFlags
  <2>1. /\ call' = call /\ pins' = pins /\ call.op \in SfpOps \cup {"uid", "pin"}
        /\ pc' \in {"ddm", "swap", "soft", "control", "set", "diag", "set_flags", "idle", "restore"}
    BY <1>9 DEF Identify, CheckCapability, ReadDiagnostics, ReadControl, WriteControl, ReadUid,
                ReadFlags, End, RInv, IInv, PathInv, SfpSteps
  <2> QED
    BY <1>1, <2>1 DEF RInv, SfpOps
<1> QED
  BY <1>1, <1>2, <1>3, <1>4, <1>5, <1>6, <1>7, <1>8, <1>9, WriteProgress, ClockProgress DEF Next

(* How far each reset has come, in every state.                            *)
THEOREM ProgressKept == Spec => []RInv
<1>1. Init => Progress
  BY DEF Init, Progress, ResetLeavesRunning, Undriven, Devices
<1>2. IInv /\ Progress /\ [Next]_vars => Progress'
  BY StepKeepsProgress DEF RInv
<1>3. IInv /\ Progress => RInv
  BY DEF RInv
<1> QED
  BY <1>1, <1>2, <1>3, Inductive, PTL DEF Spec

(* After any history of failed resets and other calls, a reset that        *)
(* returns leaves the PLL running and the lasers enabled by their pins.    *)
THEOREM ResetsRecover == Spec => []ResetLeavesRunning
<1>1. RInv => ResetLeavesRunning
  BY DEF RInv, Progress
<1> QED
  BY <1>1, ProgressKept, PTL

(* The GIB's lookup of its PLL reaches it, wherever resets before it have  *)
(* stopped.                                                                *)
THEOREM LookUpRecovers == Spec => []LookUpReachesPll
<1>1. RInv => LookUpReachesPll
  <2>1. SUFFICES ASSUME RInv, board = "GIB", pc = "lookup"
                 PROVE  Reached("pll") = {Pll}
    BY DEF LookUpReachesPll
  <2>2. /\ Known /\ call.op = "reset" /\ chan = 0 /\ ~pins.held /\ kind[Pll] = "full"
        /\ Sfps = 0 .. 5 /\ Board.own = {}
    BY <2>1, ClassGIB DEF RInv, Progress, IInv, PathInv
  <2>3. Pll \in Devices /\ Listens(Pll) = {"pll"} /\ Wired(Pll) = 0 /\ Pll \notin Board.own
    BY <2>1, <2>2 DEF Devices, Listens, Wired, Pll
  <2>4. Pll \in Reached("pll")
    BY <2>2, <2>3 DEF Reached, OnMain, SfpOps
  <2> QED
    BY <2>4, PllAlone
<1> QED
  BY <1>1, ProgressKept, PTL

---------------------------------------------------------------------------
(* Only the call that switches a laser and has written its control         *)
(* register, the last step before the switch is given back, returns        *)
(* success; on the MIB, whatever a status came to, the switch is at the    *)
(* PLL again, or the attempt has failed.                                   *)
LeftAsAsked ==
  /\ pc = "diag" => call.op = "status"
  /\ pc \in {"idle", "restore"} /\ SelectsLaser /\ call.op = "tx" /\ out = "ok" =>
       (call.sfp \in dark) = ~call.on
  /\ CallsLeaveAsAsked

LEMMA WriteLeaves ==
  ASSUME IInv, LeftAsAsked, WriteControl, board' = board
  PROVE  LeftAsAsked'
<1>1. /\ call' = call /\ call \in Call /\ call.op = "tx" /\ call.sfp \in Sfps /\ Known /\ End("ok")
      /\ SelectsLaser /\ OnMain(call) => chan = Wired(call.sfp)
  BY DEF WriteControl, IInv, PathInv, SfpSteps, Chooses
<1>2. PICK d \in Reached("diag") : dark' = IF call.on THEN dark \ {d} ELSE dark \cup {d}
  BY DEF WriteControl
<1>3. SelectsLaser => d = call.sfp
  BY <1>1, <1>2, SfpAlone DEF SfpOps
<1>4. call.on \in BOOLEAN
  BY <1>1 DEF Call
<1>5. SelectsLaser => (call.sfp \in dark') = ~call.on
  BY <1>2, <1>3, <1>4
<1>6. pc' \in {"idle", "restore"} /\ (board = "MIB" => pc' = "restore")
  BY <1>1 DEF End, Restores
<1> QED
  BY <1>1, <1>5, <1>6 DEF LeftAsAsked, CallsLeaveAsAsked, SelectsLaser

LEMMA StepLeaves ==
  ASSUME IInv, LeftAsAsked, [Next]_vars
  PROVE  LeftAsAsked'
<1>1. board' = board /\ Known /\ call \in Call /\ SelectsLaser' = SelectsLaser
  BY BoardStays, SameBoard DEF IInv, PathInv
<1> USE DEF LeftAsAsked, CallsLeaveAsAsked
<1>2. CASE UNCHANGED vars
  BY <1>1, <1>2 DEF vars
<1>3. ASSUME NEW c \in Requests[board], Begin(c) PROVE LeftAsAsked'
  <2>1. c \in Call /\ pc' = First(c)
    BY <1>1, <1>3 DEF Begin, Known
  <2>2. First(c) \notin {"idle", "restore", "diag"}
    <3>1. Access(c) \notin {"idle", "restore", "diag"}
      BY <1>1, <2>1, AccessSteps, ResetCourse DEF Access, ResetSteps, Steps, PinSteps
    <3> QED
      BY <3>1 DEF First, AfterReset
  <2> QED
    BY <2>1, <2>2
<1>4. ASSUME NEW c \in Requests[board], RefuseId(c) PROVE LeftAsAsked'
  BY <1>4 DEF RefuseId
<1>5. CASE HoldSwitch \/ ReleaseSwitch \/ SelectChannel
  <2>1. Access(call) \notin {"idle", "restore", "diag"}
    BY <1>1, AccessSteps, ResetCourse DEF Access, ResetSteps, Steps, PinSteps
  <2>2. pc' \notin {"idle", "restore", "diag"}
    BY <1>5, <2>1 DEF HoldSwitch, ReleaseSwitch, SelectChannel, AfterReset
  <2> QED
    BY <2>2
<1>6. CASE SelectFails \/ RestoreFails
  BY <1>6 DEF SelectFails, RestoreFails
<1>7. CASE Identify \/ ReadControl \/ ReadFlags
  BY <1>7 DEF Identify, ReadControl, ReadFlags
<1>8. CASE CheckCapability
  <2>1. call' = call /\ call.op \in SfpOps
    BY <1>8 DEF CheckCapability, IInv, PathInv, SfpSteps
  <2>2. \/ pc' \in {"swap", "soft", "control"}
        \/ pc' = "diag" /\ call.op = "status"
        \/ End("ok") /\ call.op = "status"
        \/ End("unsupported") /\ call.op = "tx"
    BY <1>8, <2>1 DEF CheckCapability, SfpOps
  <2> QED
    BY <1>1, <2>1, <2>2 DEF End, Restores
<1>9. CASE ReadDiagnostics
  BY <1>1, <1>9 DEF ReadDiagnostics, End, Restores
<1>10. CASE ReadUid \/ AccessPll \/ ResetMmcm \/ WritePins
  <2>1. call' = call /\ call.op \notin SfpOps
    BY <1>10 DEF ReadUid, AccessPll, ResetMmcm, WritePins, IInv, PathInv, SfpOps, ResetSteps, PinSteps
  <2>2. pc' # "diag"
    BY <1>10, <2>1, ResetCourse
       DEF ReadUid, AccessPll, ResetMmcm, WritePins, Advance, End, IInv, PathInv, ResetSteps, PinSteps
  <2> QED
    BY <1>1, <2>1, <2>2 DEF SfpOps
<1>11. CASE LookUpPll
  <2>1. call'.op = "configure"
    BY <1>1, <1>11 DEF LookUpPll, Call
  <2>2. pc' # "diag"
    BY <1>1, <1>11, <2>1, ResetCourse DEF LookUpPll, First, AfterReset, Access, ResetSteps
  <2> QED
    BY <2>1, <2>2
<1>12. CASE Fail
  <2>1. call' = call /\ End("failed")
    BY <1>12 DEF Fail
  <2> QED
    BY <1>1, <2>1 DEF End, Restores
<1>13. CASE Restore
  <2>1. board = "MIB" /\ Board.main = 3
    BY <1>13, ClassMIB DEF Restore, IInv, PathInv, FlagsRead
  <2> QED
    BY <1>1, <1>13, <2>1 DEF Restore
<1> QED
  BY <1>1, <1>2, <1>3, <1>4, <1>5, <1>6, <1>7, <1>8, <1>9, <1>10, <1>11, <1>12, <1>13, WriteLeaves
     DEF Next

(* A call that switches a laser and returns has switched it as asked, and  *)
(* on the MIB it leaves the switch at the PLL, as a status does however it *)
(* ended.                                                                  *)
THEOREM LasersAreAsAsked == Spec => []CallsLeaveAsAsked
<1>1. Init => LeftAsAsked
  BY DEF Init, LeftAsAsked, CallsLeaveAsAsked
<1>2. IInv /\ LeftAsAsked /\ [Next]_vars => LeftAsAsked'
  BY StepLeaves
<1>3. LeftAsAsked => CallsLeaveAsAsked
  BY DEF LeftAsAsked
<1> QED
  BY <1>1, <1>2, <1>3, Inductive, PTL DEF Spec
=============================================================================
