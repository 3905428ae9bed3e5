---------------------------- MODULE DesignSetup ----------------------------
(***************************************************************************)
(* Setting up a device: configure of the designs, which resets the board,  *)
(* with the clock chip configured from the tables of the library, and for  *)
(* a design with a master sets and broadcasts the timestamp; and the calls *)
(* that say what the device is.  The reset of the boards is in IONode, the *)
(* upload to the chip in ClockChip and the setting of the timestamp in     *)
(* TimestampSync: each is a step here.                                     *)
(***************************************************************************)
EXTENDS NodeCalls, HardwareTables

CONSTANT Devices  \* the devices: class, io, board, carrier, design, pll, uid, share

VARIABLES
  hw,       \* the device
  clock,    \* the file its clock chip runs with
  pll_in,   \* csr.ctrl.pll_in_sel: the input of the clock, on a MIB V2
  stamp,    \* the source of the timestamp that is broadcast
  told      \* per caller: what its call has found out

setupVars == <<hw, clock, pll_in, stamp, told>>

NothingTold == [rows |-> {}, complaints |-> {}]

SetupInit ==
  /\ IF node = "design" THEN hw \in Devices ELSE hw = CHOOSE d \in Devices : TRUE
  /\ clock = "none"
  /\ pll_in = 0
  /\ stamp = "none"
  /\ told = [c \in Callers |-> NothingTold]

SetupCall(c, r) ==
  /\ node = "design"
  /\ Begin(c, r, "setup_" \o r.op)
  /\ told' = [told EXCEPT ![c] = NothingTold]
  /\ UNCHANGED <<hw, clock, pll_in, stamp>>

(* Designs with a master; the mux designs inherit configure.               *)
MasterClasses == {"MasterDesign", "MasterMuxDesign", "BoreasDesign", "OuroborosDesign",
                  "OuroborosMuxDesign", "GaiaDesign", "KerberosDesign"}

(* Mutant of NormalSource: the fanout is taken for a stand-alone design.   *)
NormalSourceFree(class) ==
  CASE class \in {"GaiaDesign", "KerberosDesign"} -> 0
    [] class \in {"ChronosDesign", "EndpointDesign", "CRTDesign"} -> 1
    [] OTHER -> kFreeRun

(* The clock source that configure of each class asks for.                 *)
NormalSource(class) ==
  CASE class \in {"GaiaDesign", "KerberosDesign"} -> 0
    [] class \in {"ChronosDesign", "EndpointDesign", "FanoutDesign", "CRTDesign"} -> 1
    [] OTHER -> kFreeRun

Source == NormalSource(hw.class)

(* IONode::reset(ClockSource) first finds the file ...                     *)
FindClockConfig(c) ==
  /\ at[c] = "setup_configure"
  /\ LET refusal == ClockRefusal(hw, Source)
     IN  IF refusal = "ok" THEN GoOn(c, "setup_reset") ELSE Fail(c, refusal)
  /\ UNCHANGED setupVars

(* ... and resets the board with it.                                       *)
ResetBoard(c) ==
  /\ at[c] = "setup_reset"
  /\ clock' = ClockConfig(hw, Source)
  /\ GoOn(c, IF hw.io = "MIBV2IONode" THEN "setup_input"
             ELSE IF hw.class \in MasterClasses THEN "setup_sync" ELSE "idle")
  /\ UNCHANGED <<hw, pll_in, stamp, told>>

(* MIBV2IONode::reset goes on to select the input, unless the clock runs   *)
(* free.                                                                   *)
SwitchClockSource(c) ==
  /\ at[c] = "setup_input"
  /\ pll_in' = IF Source = kFreeRun THEN pll_in ELSE Source
  /\ GoOn(c, IF hw.class \in MasterClasses THEN "setup_sync" ELSE "idle")
  /\ UNCHANGED <<hw, clock, stamp, told>>

(* The timestamp comes from where the clock comes from.                    *)
SyncTimestamp(c) ==
  /\ at[c] = "setup_sync"
  /\ stamp' = IF Source = kFreeRun THEN "software" ELSE "upstream"
  /\ GoOn(c, "idle")
  /\ UNCHANGED <<hw, clock, pll_in, told>>

(* Any of these steps may throw: the lock of the chip, a file that cannot  *)
(* be read, the timestamp that is not ready.  What was done before stays.  *)
SetupThrows(c) ==
  /\ at[c] \in {"setup_reset", "setup_sync"}
  /\ Fail(c, IF at[c] = "setup_sync" THEN "TimestampNotReady" ELSE "SI534xConfigError")
  /\ UNCHANGED setupVars

ReadHardwareInfo(c) ==
  /\ at[c] = "setup_get_hardware_info"
  /\ LET info == HardwareInfo(hw)
     IN  IF info.fate = "ok"
         THEN GoOn(c, "idle") /\ told' = [told EXCEPT ![c].rows = info.rows]
         ELSE Fail(c, info.fate) /\ UNCHANGED told
  /\ UNCHANGED <<hw, clock, pll_in, stamp>>

(* The version the library was written for, 7.2.0, and the three bytes of  *)
(* the register that are compared with it.  The comparison only complains, *)
(* of the major version with an error, of the others with a warning.       *)
Required == [major |-> 7, minor |-> 2, patch |-> 0]

Versions(word) == [major |-> (word \div 2 ^ 16) % 256, minor |-> (word \div 2 ^ 8) % 256,
                   patch |-> word % 256]

ValidateFirmwareVersion(c) ==
  /\ at[c] = "setup_validate_firmware_version"
  /\ told' = [told EXCEPT ![c].complaints =
                {p \in DOMAIN Required : Versions(asks[c].version)[p] # Required[p]}]
  /\ GoOn(c, "idle")
  /\ UNCHANGED <<hw, clock, pll_in, stamp>>

SetupStep(c) ==
  \/ FindClockConfig(c) \/ ResetBoard(c) \/ SwitchClockSource(c) \/ SyncTimestamp(c)
  \/ SetupThrows(c) \/ ReadHardwareInfo(c) \/ ValidateFirmwareVersion(c)

SetupFails(c) == node = "design" /\ DispatchFails(c) /\ UNCHANGED setupVars

SetupNext ==
  \E c \in Callers : (\E r \in Asks[node][c] : SetupCall(c, r)) \/ SetupStep(c) \/ SetupFails(c)

-----------------------------------------------------------------------------
(* configure of a device that is one of those the library has firmware     *)
(* address tables for finds a file for its clock chip, in the map of files *)
(* and from the source that its class has built in: it never ends with one *)
(* of the entries missing, except on a simulated board, where it always    *)
(* fails.  When it returns, the clock runs with that file, and a timestamp *)
(* is broadcast by masters only, from software if and only if the clock    *)
(* runs free.  get_hardware_info of such a device leaves nothing out.      *)
ConfiguresShipped ==
  \A c \in Callers :
    at[c] = "idle" /\ node = "design" =>
      /\ fate[c] \in {"none", "ok", "bus_error", "SI534xConfigError", "TimestampNotReady"}
           \cup (IF hw.io = "SIMIONode" THEN {"uhal"} ELSE {})
           \cup (IF hw.share THEN {} ELSE {"EnvironmentVariableNotSet"})
      /\ fate[c] = "ok" /\ asks[c].op = "configure" =>
           /\ <<board_type_map[hw.board], hw.pll, design_type_map[hw.design],
                clock_source_map[Source], clock>>
                \in {<<k[1], k[2], k[3], k[4], clock_config_map[k]>> : k \in DOMAIN clock_config_map}
           /\ hw.class \in MasterClasses <=> stamp # "none"
           /\ stamp = "software" <=> hw.class \in MasterClasses /\ Source = kFreeRun
           /\ hw.io = "MIBV2IONode" /\ stamp = "upstream" => pll_in = Source
      /\ fate[c] = "ok" /\ asks[c].op = "get_hardware_info" =>
           Cardinality(told[c].rows) = 4
=============================================================================
