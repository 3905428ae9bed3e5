--------------------------- MODULE HardwareTables ---------------------------
(***************************************************************************)
(* What the library knows of boards, carriers, designs and clock sources,  *)
(* the static maps of IONode, and how it finds the configuration of a      *)
(* clock chip with them.  A type is the number the firmware reports, from  *)
(* the enumerations of definitions.hpp.                                    *)
(***************************************************************************)
EXTENDS Naturals, Sequences, FiniteSetsExt, TLC

(* The enumerations count from 0; 256 is the unknown type of each.         *)
UnknownType == 256

(* A map from the first numbers to their names, and from 256 to "unknown". *)
Enumerated(names) ==
  [v \in 0 .. Len(names) - 1 |-> names[v + 1]] @@ (UnknownType :> "unknown")

board_type_map ==
  Enumerated(<<"fmc", "sim", "pc059", "microzed", "tlu", "fib", "mib", "pc069", "gib">>)

carrier_type_map ==
  Enumerated(<<"enclustra-a35", "kc705", "microzed", "atfc", "afc", "nexus-video",
               "trenz-te0712">>)

design_type_map ==
  Enumerated(<<"master", "ouroboros-sim", "ouroboros", "test-design", "endpoint",
               "fanout", "overlord", "endpoint-bi-crt", "chronos", "boreas",
               "kerberos", "gaia">>)

board_revision_map ==
  Enumerated(<<"kFMCRev1", "kFMCRev2", "kFMCRev3", "kFMCRev4", "kPC059Rev1",
               "kTLURev1", "kSIMRev1", "kFIBRev1", "kMIBRev1", "pc069a",
               "kMIBRev2", "kGIBRev1", "pc069b">>)

(* Boards by the id in their PROM.  The ids of one revision are not told   *)
(* apart: the id uN stands for all boards of revision N.                   *)
board_uid_revision_map ==
  [u \in {"u0", "u1", "u2", "u3", "u4", "u5", "u7", "u8", "u9", "u10", "u11", "u12"} |->
     CHOOSE n \in 0 .. 12 : u = "u" \o ToString(n)]

clock_source_map ==
  [k \in 0 .. 3 |-> "input_" \o ToString(k)] @@ (255 :> "free_run")

kFreeRun == 255

(* All configurations of one file.                                         *)
UseFile(file, boards, chips, designs, sources) ==
  [k \in boards \X chips \X designs \X sources |-> file]

Free == {"free_run"}
In1 == {"input_1"}

(* The configuration file of a board, chip, design and clock source; the   *)
(* keys are joined to one word in the code.                                *)
clock_config_map ==
  UseFile("SI5344/PDTS0003.txt", {"fmc"}, {5344, 5394},
       {"ouroboros", "master", "overlord", "boreas"}, Free)
  @@ UseFile("devel/ENDPOINT-Si5344-50MHzRef.txt", {"fmc"}, {5344, 5394},
       {"endpoint", "chronos"}, In1)
  @@ UseFile("nocdr/DUNE_TLU-4_45_M-Registers.txt", {"tlu"}, {5345}, {"boreas"}, Free)
  @@ UseFile("devel/PDTS_PC059_FANOUT.txt", {"pc059"}, {5345}, {"master"}, Free)
  @@ UseFile("devel/PDTS_PC059_FANOUT_SFP_IN.txt", {"pc059"}, {5345}, {"fanout"}, In1)
  @@ UseFile("nocdr/Si5395-RevA-069a_mst-Registers.txt", {"pc069"}, {5395},
       {"master", "boreas"}, Free)
  @@ UseFile("nocdr/Si5395-RevA-069a_ep-Registers.txt", {"pc069"}, {5395},
       {"endpoint", "chronos"}, In1)
  @@ UseFile("nocdr/Si5345-RevD-pc69bmst-Registers.txt", {"pc069"}, {5345},
       {"master", "boreas"}, Free)
  @@ UseFile("nocdr/Si5345-RevD-pc69bept-Registers.txt", {"pc069"}, {5345},
       {"chronos", "charon"}, In1)
  @@ UseFile("nocdr/GIB_Debug_01.txt", {"gib"}, {5395}, {"gaia"}, Free)
  @@ UseFile("nocdr/Si5395-RevA-GIB10MHZ-Registers.txt", {"gib"}, {5395}, {"gaia"},
       {"input_0"})
  @@ UseFile("nocdr/Si5395-RevA-MIB_FREE-Registers.txt", {"mib"}, {5395}, {"kerberos"}, Free)
  @@ UseFile("nocdr/Si5395-RevA-MIB_INSW-Registers.txt", {"mib"}, {5395}, {"kerberos"},
       {"input_0", "input_1", "input_2"})
  @@ UseFile("nocdr/Si5395-RevA-FIB_FAN_AFCv4-FIBBP250-Registers.txt", {"fib"}, {5395},
       {"fanout"}, In1)

-----------------------------------------------------------------------------
(* The convert_value functions of the toolbox refuse 256 and more, and     *)
(* nothing else.                                                           *)
Converts(value) == value < UnknownType

(* get_board_revision: a board that is not known is not an error.          *)
BoardRevision(hw) ==
  CASE hw.io = "SIMIONode" -> 6
    [] hw.io # "SIMIONode" /\ hw.uid \in DOMAIN board_uid_revision_map -> board_uid_revision_map[hw.uid]
    [] OTHER -> UnknownType

(* The first of some checks that is not passed, or "ok".                   *)
FirstRefusal(checks) ==
  LET failed == {i \in DOMAIN checks : ~checks[i][1]}
  IN  IF failed = {} THEN "ok" ELSE checks[Min(failed)][2]

Conversions(hw) ==
  << <<Converts(hw.board), "UnknownBoardType">>,
     <<Converts(hw.carrier), "UnknownCarrierType">>,
     <<Converts(hw.design), "UnknownDesignType">> >>

(* get_full_clock_config_file_path looks at the type of the board, at the  *)
(* chip, for which the board must have one, at the design, the source and  *)
(* the map, and at last at the environment.                                *)
ClockKey(hw, source) ==
  << board_type_map[hw.board], hw.pll, design_type_map[hw.design],
     clock_source_map[source] >>

ClockRefusal(hw, source) ==
  FirstRefusal(Conversions(hw) \o
  << <<hw.board \in DOMAIN board_type_map, "MissingBoardTypeMapEntry">>,
     <<hw.io # "SIMIONode", "uhal">>,
     <<hw.design \in DOMAIN design_type_map, "MissingDesignTypeMapEntry">>,
     <<source \in DOMAIN clock_source_map, "MissingClockSourceMapEntry">>,
     <<hw.board \in DOMAIN board_type_map /\ hw.design \in DOMAIN design_type_map
         /\ source \in DOMAIN clock_source_map
         /\ ClockKey(hw, source) \in DOMAIN clock_config_map, "ClockConfigNotFound">>,
     <<hw.share, "EnvironmentVariableNotSet">> >>)

ClockConfig(hw, source) == clock_config_map[ClockKey(hw, source)]

(* get_hardware_info lists what it has names for.  An entry without a name *)
(* is an error that is only logged, except on a simulated board.           *)
HardwareInfo(hw) ==
  LET named == << <<hw.board \in DOMAIN board_type_map, "Board type">>,
                  <<BoardRevision(hw) \in DOMAIN board_revision_map, "Board revision">>,
                  <<hw.carrier \in DOMAIN carrier_type_map, "Carrier type">>,
                  <<hw.design \in DOMAIN design_type_map, "Design type">> >>
      refused == FirstRefusal(IF hw.io = "SIMIONode" THEN Conversions(hw) \o named ELSE Conversions(hw))
  IN  [fate |-> refused,
       rows |-> {named[i][2] : i \in {j \in DOMAIN named : refused = "ok" /\ named[j][1]}}]
=============================================================================
