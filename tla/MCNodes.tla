------------------------------ MODULE MCNodes ------------------------------
(***************************************************************************)
(* Instances for TLC of the modules of the smaller nodes, and of the       *)
(* generator of fixed length commands.  The nodes of a device share        *)
(* nothing but the bus, so each is looked at alone: the variable node says *)
(* which one, and the others stay in their initial states.                 *)
(***************************************************************************)
EXTENDS FLCmdGenerator, VLCmdGenerator, FrequencyCounter, EndpointControl, TLUIONode,
        DesignSetup, AsyncPackets, SFPDiagnostics, Monitoring, Toolbox

CONSTANTS c1, c2

OneClient == {c1}
TwoCallers == {c1, c2}

-----------------------------------------------------------------------------
(* The generator of fixed length commands: all operations on two channels, *)
(* single and repeated sends, two rates; channel 5, command 256 and a      *)
(* period of zero are refused.                                             *)
TwoChannels == {0, 1}

Send(k, m, n) == [op |-> "send", chan |-> k, cmd |-> m, rep |-> n,
                  period |-> 0, poisson |-> FALSE]
Start(k, m, x, b) == [op |-> "enable", chan |-> k, cmd |-> m, rep |-> 1,
                      period |-> x, poisson |-> b]
Stop(k) == [op |-> "disable", chan |-> k, cmd |-> 0, rep |-> 1,
            period |-> 0, poisson |-> FALSE]

MixedRequests ==
  {Send(k, 2, n) : k \in TwoChannels, n \in {1, 2}} \cup {Send(1, 3, 1)}
    \cup {Start(k, 8, 1, FALSE) : k \in TwoChannels}
    \cup {Start(k, 9, 700, TRUE) : k \in TwoChannels}
    \cup {Stop(k) : k \in {0, 1, 5}}
    \cup {Send(5, 2, 1), Send(0, 256, 1), Start(0, 256, 1, FALSE), Start(0, 8, 0, FALSE)}

(* Periods around the points where divisor or prescale change: 512 * 2^d   *)
(* for every divisor, the halves between two prescales, and both ends.     *)
EdgePeriods ==
  (0 .. 40)
    \cup {512 * 2 ^ d + i : d \in 0 .. 15, i \in 0 .. 3}
    \cup {512 * 2 ^ d - i : d \in 0 .. 15, i \in 2 .. 4}
    \cup {256 * 2 ^ d + 2 ^ d * j + i : d \in 1 .. 12, j \in 1 .. 2, i \in -1 .. 1}
    \cup {2 ^ 24 + 2 ^ 15 + i : i \in -1 .. 1}

EdgeRequests == {Start(0, 8, x, FALSE) : x \in EdgePeriods}

AllRequests == MixedRequests \cup EdgeRequests

(* For the rates, a call of each kind repeated shows all there is.         *)
FLInit ==
  /\ Init
  /\ CASE node = "flcmd_mixed" -> \A c \in Clients : req[c] = Stop(0)
       [] node = "flcmd_rates" -> \A c \in Clients : req[c] \in EdgeRequests
       [] OTHER -> sel = 0 /\ \A c \in Clients : req[c] = Stop(0)

FLNext ==
  /\ node \in {"flcmd_mixed", "flcmd_rates"}
  /\ \E c \in Clients :
       \/ \E r \in IF node = "flcmd_mixed" THEN MixedRequests ELSE {req[c]} : Call(c, r)
       \/ Step(c)
       \/ BusError(c)

-----------------------------------------------------------------------------
(* The calls into the other nodes.                                         *)
VLAsks ==
  {[op |-> "switch_endpoint_sfp", addr |-> a, enable |-> b] :
     a \in {1, 2}, b \in BOOLEAN}
  \cup {[op |-> "apply_endpoint_delay", addr |-> a, cdel |-> 3,
         fdel |-> x, pdel |-> 1] : a \in {1, 2}, x \in {0, 5}}

FreqAsks == {[op |-> "get_clock_frequencies_table", board |-> b] :
               b \in {"sim", "fmc", "pc059"}}

(* Address 65536 has no room in the register.                              *)
EndpointAsks ==
  {[op |-> "reset", addr |-> a] : a \in {1, 65536}}
  \cup {[op |-> "enable", addr |-> 1]}
  \cup {[op |-> o] : o \in {"disable", "get_info"}}

CRTAsks ==
  {[op |-> o, partition |-> 1, command |-> k] : o \in {"enable", "reset"}, k \in {-1, 5}}
  \cup {[op |-> o] : o \in {"disable", "read_last_pulse_timestamp"}}

(* There is no DAC 2, and no room for 65536.                               *)
TluAsks ==
  {[op |-> "reset", board |-> b] : b \in {"tlu", "sim"}}
  \cup {[op |-> "configure_dac", id |-> i[1], code |-> i[2], internal |-> 1] :
          i \in {<<1, 7>>, <<1, 65536>>, <<2, 7>>}}

DesignAsks ==
  {[op |-> o] : o \in {"configure", "get_hardware_info"}}
  \cup {[op |-> "validate_firmware_version", version |-> v] :
          v \in {7 * 65536 + 2 * 256, 7 * 65536 + 256 + 1, 6 * 65536 + 2 * 256}}

AsyncAsks ==
  {[op |-> "switch_endpoint_sfp", addr |-> 513, on |-> TRUE],
   [op |-> "apply_endpoint_delay", addr |-> 513, coarse |-> 5, fine |-> 2730],
   [op |-> "write_endpoint_data", addr |-> 513, reg |-> 112, data |-> <<255, 8>>, mode |-> 0],
   [op |-> "write_endpoint_data", addr |-> 513, reg |-> 99, data |-> [i \in 1 .. 28 |-> 7], mode |-> 1],
   [op |-> "read_endpoint_data", addr |-> 513, reg |-> 99, len |-> 29, mode |-> 1],
   [op |-> "configure_endpoint_command_decoder", addr |-> 513, slot |-> 1, command |-> 17]}

SFPAsks == {[op |-> "get_status"],
            [op |-> "switch_soft_tx_control_bit", turn_on |-> FALSE]}

IRIGAsks == {[op |-> "irig_status"], [op |-> "set_irig_epoch", epoch |-> 1]}
HSIAsks == {[op |-> "hsi_status"], [op |-> "read_buffer_state"]}

(* Widths of titles on both sides of that of their columns, odd and even,  *)
(* counters whose hexadecimal form is longer than the decimal one, and     *)
(* fewer titles or counters than there should be; lists with and without   *)
(* runs and repetitions; numbers of all exponents and both signs; tables   *)
(* that rise and fall.                                                     *)
Lists == UNION {[1 .. n -> 0 .. 3] : n \in 0 .. 4}

ToolAsks ==
  {[op |-> "format_reg_table", rows |-> x, title |-> t, headers |-> h] :
     x \in {<<>>, << <<3, 1>> >>, << <<8, 2>>, <<4, 9>> >>}, t \in {0, 30},
     h \in {<<0, 0>>, <<8, 5>>, <<2, 12>>}}
  \cup {[op |-> "format_counters_table", counters |-> k, titles |-> t,
         labels |-> l, header |-> h] :
          k \in {<< <<0, 65536>> >>, << <<7, 1048576>> >>, << <<4096, 1>>, <<65535, 999999999>> >>},
          t \in {<<>>, <<15>>} \cup {<<i>> : i \in 16 .. 19} \cup {<<i, 31 - i>> : i \in 12 .. 16},
          l \in {<<>>, <<3>>, <<3, 9>>, <<3, 9, 4>>}, h \in {4, 7}}
  \cup {[op |-> "lists", vec |-> v] : v \in Lists}
  \cup {[op |-> "dec_rng", word |-> w, ibit |-> i, nbits |-> n] :
          w \in {0, 90, 165, 255}, i \in 0 .. 7, n \in {1, 4}}
  \cup {[op |-> "convert_bits_to_float", bits |-> b] :
          b \in 0 .. 2 ^ (Mantissa + Exponent + 1) - 1}
  \cup {[op |-> "locate", xx |-> t, x |-> v] :
          t \in {<<4>>, <<2, 5>>, <<1, 3, 6, 8>>, <<9, 7, 4>>, <<8, 6, 5, 2, 1>>}, v \in 0 .. 10}

Each(calls) == [c \in TwoCallers |-> calls]
Divided(calls, others) == (c1 :> calls) @@ (c2 :> others)
Ops(calls, ops) == {r \in calls : r.op \in ops}

(* The first caller makes all calls but those of the boards that measure   *)
(* two clocks; the other makes all calls or those that can come between    *)
(* the dispatches of the first.                                            *)
AllAsks ==
  ("flcmd_mixed" :> Each({})) @@ ("flcmd_rates" :> Each({}))
  @@ ("vl" :> Divided(VLAsks, {r \in VLAsks : r.addr = 2}))
  @@ ("ep" :> Divided(EndpointAsks, {r \in EndpointAsks : r = [op |-> "reset", addr |-> 1]}))
  @@ ("freq" :> Divided({r \in FreqAsks : r.board # "pc059"}, {r \in FreqAsks : r.board = "pc059"}))
  @@ ("crt" :> Divided(CRTAsks, Ops(CRTAsks, {"reset", "disable"})))
  @@ ("global" :> Each({[op |-> "reset_command_counters"]}))
  @@ ("tlu" :> Divided(TluAsks, {})) @@ ("design" :> Divided(DesignAsks, Ops(DesignAsks, {"configure"})))
  @@ ("acmd" :> Divided(AsyncAsks, Ops(AsyncAsks, {"switch_endpoint_sfp"})))
  @@ ("sfp" :> Divided(Ops(SFPAsks, {"get_status"}), Ops(SFPAsks, {"switch_soft_tx_control_bit"})))
  @@ ("master" :> Each({[op |-> "get_status_tables"]}))
  @@ ("irig" :> Each(IRIGAsks)) @@ ("hsi" :> Each(HSIAsks)) @@ ("tool" :> Divided(ToolAsks, {}))

(* The devices the library has address tables for.                         *)
Device(class, io, board, design, pll) ==
  [class |-> class, io |-> io, board |-> board, carrier |-> 4, design |-> design,
   pll |-> pll, uid |-> "u" \o ToString(2), share |-> TRUE]

Shipped ==
  { Device("MasterDesign", "FMCIONode", 0, 0, 5344),
    Device("MasterMuxDesign", "PC059IONode", 2, 0, 5345),
    Device("BoreasDesign", "FMCIONode", 0, 9, 5394),
    Device("BoreasDesign", "TLUIONode", 4, 9, 5345),
    Device("ChronosDesign", "FMCIONode", 0, 8, 5344),
    Device("EndpointDesign", "FMCIONode", 0, 4, 5394),
    Device("FanoutDesign", "FIBIONode", 5, 5, 5395),
    Device("FanoutDesign", "PC059IONode", 2, 5, 5345),
    Device("GaiaDesign", "GIBIONode", 8, 11, 5395),
    Device("KerberosDesign", "MIBV2IONode", 6, 10, 5395),
    Device("OuroborosDesign", "FMCIONode", 0, 2, 5344),
    Device("OuroborosDesign", "SIMIONode", 1, 1, 0) }

(* The same, and one where the environment does not say where the files    *)
(* are.                                                                    *)
SomeDevices ==
  Shipped \cup {[Device("MasterDesign", "FMCIONode", 0, 0, 5344) EXCEPT !.share = FALSE]}

(* Two SFPs that measure the same, one of them without soft control and    *)
(* with an offset of its temperature, and one that does not measure, and   *)
(* would change its address if it did.                                     *)
SFP(name, ddm, swap, soft, off) ==
  [name |-> name, ddm |-> ddm, swap |-> swap, soft |-> soft, pin |-> 0,
   raw |-> [Temperature |-> <<1, 1>>, Voltage |-> <<1, 2>>, Current |-> <<0, 3>>,
            TxPower |-> <<2, 0>>, RxPower |-> <<0, 2>>],
   cal |-> [Temperature |-> <<1, 0, 0, off>>, Voltage |-> <<1, 1, 0, 2>>,
            Current |-> <<2, 0, 0, 1>>, TxPower |-> <<0, 3, 1, 0>>],
   rx |-> [i \in 0 .. 4 |-> i + 1]]

SomeSFPs == {SFP("ddm", TRUE, FALSE, TRUE, 0), SFP("ddm", TRUE, FALSE, FALSE, 1),
             SFP("plain", FALSE, TRUE, FALSE, 0)}

Registers == 0 .. 127
OneEndpoint == {513}

-----------------------------------------------------------------------------
(* Where each node finds its variables when another is looked at.          *)
nodeVars == <<callerVars, vars, vlVars, freqVars, epVars, tluVars, setupVars, asyncBufVars,
              sfpVars, monitorVars, result>>

NodesInit ==
  /\ CallsInit(DOMAIN Asks)
  /\ FLInit
  /\ VLInit
  /\ FreqInit
  /\ EndpointInit
  /\ TluInit
  /\ SetupInit
  /\ AsyncInit
  /\ SFPInit
  /\ MonitorInit
  /\ ToolInit

NotFL ==
  <<callerVars, vlVars, freqVars, epVars, tluVars, setupVars, asyncBufVars, sfpVars, monitorVars, result>>

NotVL ==
  <<vars, freqVars, epVars, tluVars, setupVars, asyncBufVars, sfpVars, monitorVars, result>>

NotFreq ==
  <<vars, vlVars, epVars, tluVars, setupVars, asyncBufVars, sfpVars, monitorVars, result>>

NotEndpoint ==
  <<vars, vlVars, freqVars, tluVars, setupVars, asyncBufVars, sfpVars, monitorVars, result>>

NotTlu ==
  <<vars, vlVars, freqVars, epVars, setupVars, asyncBufVars, sfpVars, monitorVars, result>>

NotSetup ==
  <<vars, vlVars, freqVars, epVars, tluVars, asyncBufVars, sfpVars, monitorVars, result>>

NotAsync ==
  <<vars, vlVars, freqVars, epVars, tluVars, setupVars, sfpVars, monitorVars, result>>

NotSFP ==
  <<vars, vlVars, freqVars, epVars, tluVars, setupVars, asyncBufVars, monitorVars, result>>

NotMonitor ==
  <<vars, vlVars, freqVars, epVars, tluVars, setupVars, asyncBufVars, sfpVars, result>>

NotTool ==
  <<vars, vlVars, freqVars, epVars, tluVars, setupVars, asyncBufVars, sfpVars, monitorVars>>

(* One more step of what happens in the node.                              *)
NodesNext ==
  \/ FLNext /\ UNCHANGED NotFL
  \/ VLNext /\ UNCHANGED NotVL
  \/ FreqNext /\ UNCHANGED NotFreq
  \/ EndpointNext /\ UNCHANGED NotEndpoint
  \/ TluNext /\ UNCHANGED NotTlu
  \/ SetupNext /\ UNCHANGED NotSetup
  \/ AsyncNext /\ UNCHANGED NotAsync
  \/ SFPNext /\ UNCHANGED NotSFP
  \/ MonitorNext /\ UNCHANGED NotMonitor
  \/ ToolNext /\ UNCHANGED NotTool

(* The next step of the call of a caller, but not its failure.             *)
CallerStep(c) ==
  \/ VLStep(c) /\ UNCHANGED NotVL
  \/ FreqStep(c) /\ UNCHANGED NotFreq
  \/ EndpointStep(c) /\ UNCHANGED NotEndpoint
  \/ TluStep(c) /\ UNCHANGED NotTlu
  \/ SetupStep(c) /\ UNCHANGED NotSetup
  \/ AsyncStep(c) /\ UNCHANGED NotAsync
  \/ SFPStep(c) /\ UNCHANGED NotSFP
  \/ ReadPart(c) /\ UNCHANGED NotMonitor
  \/ ToolReturns(c) /\ UNCHANGED NotTool
  \/ Step(c) /\ UNCHANGED NotFL

(* The first caller goes on when it can, the other may stop; the polls have*)
(* timeouts; the firmware of the frequency counter counts on.              *)
NodesSpec ==
  /\ NodesInit /\ [][NodesNext]_nodeVars
  /\ WF_nodeVars(CallerStep(c1))
  /\ WF_nodeVars(node = "freq" /\ Count /\ UNCHANGED NotFreq)

(* The TLU alone.                                                          *)
TluAlone == NodesInit /\ node = "tlu" /\ [][NodesNext]_nodeVars

-----------------------------------------------------------------------------
(* Every call of every node ends, whatever the hardware does, and whatever *)
(* another caller does, or leaves half done: the loops that poll for       *)
(* counters, replies and the like all give up, no loop over clocks, rows   *)
(* or writes is unbounded, and a repeated send counts down.                *)
CallsEnd ==
  (at[c1] # "idle" \/ pc[c1] # "idle") ~> (at[c1] = "idle" /\ pc[c1] = "idle")
=============================================================================
