# A verification project for the DUNE timing library

The repository is the `timing` package of DUNE DAQ: a C++ library (with Python
bindings and a command line tool) that controls and monitors the firmware of
the experiment's timing system over IPBus.  This directory holds TLA+ models of
the library's control logic, the TLC configurations that check them on small
instances, and theorems about them checked by TLAPS.

## 1. The system

### 1.1 How the parts interact

Every C++ class mirrors a firmware block and derives from `uhal::Node`.  The
library keeps hardly any state of its own: what persists between two calls is
in firmware registers, in chips behind I2C buses and in the endpoints at the
other end of the fibres.  A *dispatch* (`getClient().dispatch()`) sends the
queued register reads and writes as one IPBus packet; the ControlHub lets
several clients (the `pdtbutler` command line tool, DAQ processes) use one
device and serialises their dispatches, nothing more.  There is no lock in the
library.  So the unit of atomicity of all the models is **one dispatch** (or one
I2C transaction where a module is about what is above the I2C master), and the
hard behaviours are

* interleavings of several clients, and of a client with the hardware, between
  two dispatches of one operation;
* exceptions (a uhal failure of a dispatch, a timeout of a polling loop, a
  missing I2C acknowledge) between two dispatches, which leave the registers as
  the dispatches so far have written them;
* polling loops, their timeouts, and late answers;
* read-modify-write sequences, index registers and address pointers in hardware
  that are set in one dispatch and used in another;
* arithmetic on registers of 8, 16, 32 and 64 bits.

### 1.2 Inventory

| part | source (under `src/`) | state | operations |
|---|---|---|---|
| Master, return path | `src/MasterNode.cpp`, `src/MasterGlobalNode.cpp`, `src/EchoMonitorNode.cpp`, `src/MasterMuxDesign.cpp` | resync bits, receiver and CDR status, echo monitor, async command buffer; SFP laser and state of each endpoint; SFP mux | `measure_endpoint_rtt`, `apply_endpoint_delay`, `scan_endpoint`, `scan_sfp_mux`, `switch_endpoint_sfp`, `transmit_async_packet` |
| Master, timestamp | `src/TimestampGeneratorNode.cpp`, `src/MasterNode.cpp`, `src/MasterDesign.cpp` | timestamp counter, software initial value, source, `ts_en` | `set_timestamp`, `sync_timestamp`, `enable/disable_timestamp_broadcast`, `read_timestamp` |
| Fixed length commands | `src/FLCmdGeneratorNode.cpp`, `src/MasterDesign.cpp` | channel selector, per channel type, rate, mode | `send_fl_cmd`, `enable_fake_trigger`, `disable_fake_trigger` |
| Hardware signal interface | `src/HSINode.cpp` | enable, source, edge masks, event buffer | `configure_hsi`, `start_hsi`, `stop_hsi`, `reset_hsi`, `read_data_buffer` |
| Endpoints | `src/EndpointNode.cpp`, `src/EndpointNodeInterface.cpp`, `src/CRTNode.cpp` | enable, address, state machine | `enable`, `disable`, `reset`, `get_status` |
| I2C master | `src/I2CMasterNode.cpp`, `src/I2CSlave.cpp` | command, data and prescale registers of the I2C core; address pointer of each chip | `read_i2c`, `write_i2c`, block and primitive variants, `ping`, `scan`, `reset` |
| Clock chips | `src/SIChipSlave.cpp`, `src/SI534xNode.cpp` | page register, registers | `read_clock_register`, `write_clock_register`, `configure` (file parser, upload with retries, check) |
| Other I2C chips | `src/I2CExpanderNode.cpp`, `src/I2C9546SwitchNode.cpp`, `src/DACNode.cpp`, `src/I2CSFPNode.cpp` | chip registers | expander bits, switch channels, DAC values, SFP soft transmit control and diagnostics |
| Boards | `src/IONode.cpp`, `src/FMCIONode.cpp`, `src/FIBIONode.cpp`, `src/GIBIONode.cpp`, `src/MIBIONode.cpp`, `src/MIBV2IONode.cpp`, `src/PC059IONode.cpp`, `src/TLUIONode.cpp`, `src/SIMIONode.cpp`, `src/SFPMuxIONode.cpp` | resets, I2C switches, SFP mux, PLL | `reset`, `soft_reset`, `configure_pll`, `switch_sfp_*`, `get_info` |
| Variable length commands | `src/VLCmdGeneratorNode.cpp` | one command: address, laser, delays | `switch_endpoint_sfp`, `apply_endpoint_delay` |
| Measurement | `src/FrequencyCounterNode.cpp`, `src/UpstreamCDRNode.cpp`, `src/IRIGTimestampNode.cpp`, `src/SwitchyardNode.cpp` | channel selector, counters, epoch | `measure_frequencies`, status |
| Base and toolbox | `src/TimingNode.cpp`, `src/toolbox.cpp`, `include/timing/detail/toolbox.hxx` | none | `read_sub_nodes`, `reset_sub_nodes`; tables, lists, conversions |
| Designs | `src/*Design.cpp`, `include/timing/*Design*.hpp` | none of their own | compose the nodes: `configure`, `sync_timestamp`, forwarding |
| Front ends | `pybindsrc/`, `python/timing/cli/`, `scripts/`, `test/` | none | call the library |

### 1.3 What makes it hard, and what must hold

| part | hard behaviours | what makes it correct |
|---|---|---|
| return path | an exception between "laser on" and "laser off"; two clients on one receiver; replies told apart by a constant; a state that is read, then acted on | lasers are accounted for; round trip times, states and delays belong to the endpoint asked for; every call ends |
| timestamp | flags left by an earlier call; the generator loads later, or never; two halves written by several clients | what is broadcast was loaded, by this call; never half of one and half of another |
| commands | one set of registers for all channels, chosen by an index register in an earlier dispatch; writes that stay queued after a refused one; rounding of rates | each channel runs and sends what was asked of it, at the nearest rate |
| HSI | fill count and words in two dispatches while the firmware writes; buffer limit; refused configurations | readers get whole events, in order, none twice |
| I2C master | failures between two bytes; polling; a core that is reset on the way | chips behave as files of registers; a failed write is a beginning of it |
| clock chips | hand-written parser with a fallback; page register; retries | a setting is lost only with a report (a failed reset has none), nothing lands on another page |
| packets | words put together from bits and bytes of addresses, registers, delays; a mark on the last word | the endpoint does what was asked, and no other does |
| endpoints, CRT | counters that count while they are reset; a two-word timestamp that advances while it is read | a report is of one moment; a reset count starts from its reset |
| status tables | one address register for all readers of the counters; warning and occupancy | what stands side by side belongs together |
| SFP diagnostics | sixty transactions, constants at addresses of their own, an SFP that is exchanged | a reading is the quantity it is named, with its own constants |
| frequency counter, variable length commands | a selector two seconds before the count; registers cleared in one dispatch and filled in the next | frequencies and commands are those asked for, after any failure |
| designs, TLU | six tables behind one file name; twenty writes to eight chips | every device that exists finds a clock file; a reset repairs what a failed one has left |
| toolbox | alternating widths, ranges of a list, bits of a float | columns line up, what is shown can be read back |
| boards | several SFPs (and a PROM) at one address behind a switch; failures before the switch is put back | calls talk to the device they are about |

## 2. Modules

```
PeriodicRate <--EXTENDS-- FLCmdGenerator <- FLCmdGenerator_proofs, MCNodes
             <--EXTENDS-- HSIReadout     <- HSIReadout_proofs,     MCHSIReadout
                             | INSTANCE EventStream
EndpointLink <- EndpointLink_proofs, MCEndpointLink
   | INSTANCE LaserLease
TimestampSync <- TimestampSync_proofs, MCTimestampSync
I2CBus <- I2CBus_proofs, MCI2CBus
   | INSTANCE RegisterFile
ClockFile <--EXTENDS-- ClockChip <- ClockChip_proofs, MCClockChip
IONode <- IONode_proofs, MCIONode
NodeCalls <--EXTENDS-- VLCmdGenerator, FrequencyCounter, EndpointControl, TLUIONode,
                       DesignSetup, AsyncPackets, SFPDiagnostics, Monitoring, Toolbox   <- MCNodes
VLCmdGenerator, FrequencyCounter, EndpointControl, Monitoring, TLUIONode,
                       SFPDiagnostics, AsyncPackets   <- Nodes_proofs
HardwareTables <--EXTENDS-- DesignSetup
```

Common to all of them:

* a client is a program counter; an action is one dispatch (in `I2CBus` one
  dispatch to the I2C core, in `ClockChip` one register access, in `IONode` one
  I2C transfer or dispatch) with every register write queued for it, and
  everything the code does until the next dispatch;
* the firmware, the chips and the endpoints are actions and helper operators
  of their own, marked `external` in PROJECT.json: they are modelled from how
  the library uses them;
* a failed dispatch is an action that ends the call as the code's handlers do.
  A uhal exception is taken to leave the registers as they were; a failed I2C
  write may have had its effect;
* operators whose comment begins with "Mutant of" play no part in the
  specification: each is a plausible mistake in the operator after it, and the
  property named for it in PROJECT.json finds it.

**EndpointLink** (core).  The lasers of endpoints on shared fibres, the receiver
that locks to exactly one of them, the echo monitor, the buffer of asynchronous
packets, the SFP mux.  Calls: `measure_endpoint_rtt`, `apply_endpoint_delay`,
`scan_endpoint` of `MasterNode` and `MasterMuxDesign`, and `scan_sfp_mux`.  `pc`
names the next dispatch (`sfp_on`, `resync_set`, `resync_clear`, `wait_ready`,
`echo_go`, ...); `out` follows the catch blocks: `ReceiverNotReady` is handled, an
echo, reply or bus failure is not, and leaves the laser in `abandoned`, a history
variable.  `LaserLease` states abstractly who may light and who must put out.

**FLCmdGenerator** with **PeriodicRate**.  `send_fl_cmd`,
`enable_periodic_fl_cmd`, `disable_periodic_fl_cmd`; `sel` is the index register,
`ctrl` the settings of each channel.  A write uhal refuses (a prescale of 256 in
an 8 bit field) leaves the writes before it queued; they go out with the
client's next dispatch, whatever that is (`queue`).  Rates are periods in units
of 128 clock cycles, half the smallest one, so that rounding is visible;
`Divisor` and `Prescale` do what the logarithm, the rounding and the clamping
do, and are compared with the best pair in the property.

**HSIReadout**.  `read_data_buffer`, `configure_hsi`, `start_hsi`, `stop_hsi`,
`reset_hsi`.  Words carry their number, so the FIFO is the interval between
`taken` and `written`.  `EventStream` is the stream of events a reader is
promised.

**TimestampSync**.  `set_timestamp`, `sync_timestamp` and the broadcast switch;
the generator in firmware (`reset`, `armed`, `loaded`) loads what is in the
registers when it gets to it.

**I2CBus**.  All of `I2CMasterNode`: addresses, bytes, acknowledge, stop, polling,
`reset` with its shortcut when the prescale is right, `ping`, `scan`, arrays and
primitives.  `RegisterFile` is what callers rely on.

**ClockFile**, **ClockChip**.  What the parser of clock files makes of the lines,
section by section: a section ends at the first line that is none of its own, and
its settings are those of the lines before.  With it the one thing about text
that matters: whether the last line ends with a newline, because only then does
the stream see its end too late.  `ClockChip` is the upload: page register,
reset, two attempts per setting, check of the design id.  `configure` swallows an
`I2CException` of the reset without a report (`SI534xNode.cpp:229`); `swallowed`, a
history variable, remembers it for `UnreportedIsConfigured`.

**IONode**.  `IONode` and its subclasses for the MIB, GIB, PC059, FIB, MIBV2 and
FMC in one module.  A record per board says what its class does: the ids it
accepts, the SFPs that have a bus of their own, the calls that pulse the reset of
the I2C switch or choose its channel, and the order of the steps of `reset`.  The
course of an SFP status or a laser switch (`I2CSFPNode.cpp`) is the same for all,
and so are the actions.  The registers that outlive a call are the switch's
channel (`chan`), the soft transmit control of each SFP (`dark`) and the outputs
of the I2C expanders (`pins`: which lasers are disabled by their pin, whether the
pins are driven, whether the PLL is held in reset).  `switch_sfp_tx` of the FIB is
a read of all laser pins (`flags`) and a write of all of them.  A reset by clock
source looks the PLL up, then goes on as a reset by file (`call.op` becomes
"configure").  `board` is chosen at the start and never changes; `Fitted` and
`Requests` are given per board.

**The smaller nodes.**  They share nothing but the bus, so each has a module of its
own over `NodeCalls`: callers (`at`, `asks`, `fate`) that make one dispatch at a
time, may fail at each (`DispatchFails`), and know whether another call overlapped
theirs (`alone`).  `MCNodes` puts them side by side; `node` says which one a
behaviour is about.

* **VLCmdGenerator**: the registers of a command, cleared by `reset_sub_nodes` in a
  dispatch before the one that fills and sends them.
* **FrequencyCounter**: the selector, the sleep, the count and its valid bit, for the
  boards' clock names; the firmware counts the selected clock when it gets to it.
* **EndpointControl**: `enable` with its poll for the counters, `disable` and
  `reset` of `EndpointNode`, both forms of `CRTNode`'s calls,
  `reset_command_counters` of the master, and what `get_status`, `get_info` and
  `read_timestamp` read.  The state of the endpoint, its timestamp and its counters
  move by themselves.
* **TLUIONode**: `reset` and `configure_dac` as lists of writes to expanders, DACs,
  Enclustra switch and clock chip (its page register included); a failure ends the
  list where it is.
* **HardwareTables**, **DesignSetup**: the maps of `IONode` and the choice of the clock
  file by board, chip, design and source; `configure`, `get_hardware_info` and
  `validate_firmware_version` of every design, on every device there are address
  tables for.  The reset of a board, the upload and the timestamp are one step
  each here, those of `IONode`, `ClockChip` and `TimestampSync`.
* **AsyncPackets**: the words of each packet, the buffer, the poll for the reply and
  what is cut from it; the endpoint is an operator that reads packets.  Lengths are
  those the code does not call invalid, 1 to 63; the buffers have 32 words
  (`BufferWords`): uhal refuses a longer packet (`PacketRefused`), and a read that takes
  more than the reply has finds anything there (`Leftovers`).  When packets
  are sent, and what is done about lasers and late replies, is in `EndpointLink`.
* **SFPDiagnostics**: `get_status` of an SFP with the order of its transactions, the
  table of calibration addresses, big-endian pairs and the polynomial of the received
  power; the SFP may be pulled or replaced at any time (`Replug`).
* **Monitoring**: the tables of `MasterNode::get_status_tables`, one read after the
  other, with the counters of sent commands that are read as a block through one
  address register; HSI and IRIG status.
* **Toolbox**: functions without state.  A text is its width, a list its ranges, a
  float its bits.

### 2.1 What the models take for granted

* Return path: the receiver locks when exactly one endpoint on the selected
  port transmits; a new asynchronous packet drops the transaction before it; a
  packet arrives at once or never.
* Commands: whatever is written to `force` as 1 sends a command.
* HSI: the firmware stops writing when the FIFO is full or it is told to, and
  completes an event it has begun unless it is flushed.
* I2C: one client has the bus; a byte that is not finished after 20 polls never
  finishes; a disabled core ignores commands; an open bus reads 255.
* Clock chips: a reset gives defaults and page 0; the eight design id registers
  are one; files do not write the reset register.
* Timestamp: a reset clears the flags; upstream and the machine's clock show
  any of `Times`; a second load pulse on a loaded generator may do either.
* Boards: the wiring in `Wired`, which the code's comments and the address tables
  give; the UID PROM of a GIB has unknown contents in the bytes that SFPs keep
  their capabilities in; expanders and the Enclustra switch (whose failure is
  swallowed) are not behind the switch and have no effect on it.  An expander
  that is reset has its outputs high and its pins as inputs; the GIB resets
  its expanders, the `rstb_i2c` of the FIB leaves them as they are.  A PLL held in
  reset does not answer.
* Smaller nodes: a dispatch is atomic in the firmware, so that registers read in one
  are of one moment; a block read through an address register moves it by its words;
  the counter of frequencies has finished a window when two seconds have passed; an
  endpoint whose address is in a packet carries out its transactions in order, up to
  the mark on the last word, with registers counted up in address mode 1; an SFP
  answers as SFF-8472 lays its registers out, and keeps its measurements while it
  is read.

## 3. Model checking

| run | instance | shows |
|---|---|---|
| `link_single` | one client; two endpoints on one fibre behind a mux of two channels; every laser-controlling call and `scan_sfp_mux`; an endpoint that changes state by itself; packets that get lost; failures at every dispatch | `MeasuresTarget` (round trips, states and the mux are those of the endpoint asked for), `ScanSparesAligned` |
| `link_pair` | two clients contending for one laser, failures anywhere, fairness | `LaserAccounted`, refinement of `LaserLease`, `CallsEnd` |
| `hsi_events` | a reader and an operator who starts, stops and configures | `CompleteEventsOnly`, `NoShortRead`, `RateIsWhole`, refinement of `EventStream` |
| `i2c_bus` | two chips, blocks of 0 to 2 bytes, absent chips, failures of any dispatch but the one that enables the core, fairness | refinement of `RegisterFile`, `BusInv` (the bus is released, a scan makes up no chip, no byte goes through a disabled core), `CallsEnd` |
| `clock_chip` | 22 files: complete, without any one of their 13 lines, cut off at six places, without sections, for another design; two pages; two failed transactions, the reset among them | `UnreportedIsConfigured` (registers the file gives a value; the others unless the reset was swallowed), `NoStrayWrite`, `NothingDropped` |
| `ts` | one client, all sources, hand switching, fairness; or two clients that set the timestamp | `LoadedAsAsked`, `BroadcastAfterLoad`, `CallsEnd`; `NeverTorn` |
| `boards` | all six boards (each behaviour is of one), up to two cages with any SFPs or none, ids the board does not have, any step may fail | `CallsLeaveAsAsked` (switch and lasers after a call), `AnswersOfTarget`, `AskedLaserWhereSelected`, `OnlyTheAskedPin`, `ResetLeavesRunning`, `LookUpReachesPll` |
| `nodes` | each behaviour is of one node: the generator of fixed length commands on two channels, or at the periods around every change of divisor and rounding; each of the smaller nodes, with failures at every dispatch, its firmware, and a second caller where calls may interleave; fairness | `EnabledRunsAsAsked`, `ForcedAsAsked`, `OnlyTheAskedChannel`, `NearestRate`; `CommandAsAsked`, `FrequenciesAsNamed`, `ReportsOneMoment`, `CountersStartOver`, `ResetConverges`, `ConfiguresShipped`, `PacketsSayWhatWasAsked`, `ReadingsAsMeasured`, `ShownTogether`, `ShownAsMeant`; `CallsEnd` |
| `i2c_reset` | `i2c_bus` with that failure | finding: `ResetEnablesCore` is violated |
| `board_gib_tx` | the GIB alone | finding: `OnlyTheAskedLaser` is violated |
| `scan_mux` | the instance of `link_single` | finding: `ScanFindsLocked` is violated |
| `tlu_swing` | the TLU alone | finding: `OnlySwingTweaked` is violated |

**Bounds.**  Two of what interferes are enough for the interferences there are:
one endpoint outshines another, one client disturbs another, one channel, chip
or page is taken for another.  `LastWord` = 21 gives four events and the start
of a fifth; `BufferLimit` = 9 is, like 1024, no multiple of the 5 words of an
event; `Depth` is larger, so that the limit is met, and not a multiple either.
`RegCount` = 2 makes a two-byte block wrap around; one call reads register 257,
of which only the low byte goes out.  `MaxFailures` = 2 lets one
setting fail for good, or two be retried.  `Base` = 4 stands for 2^32; the
chosen `Times` differ in both halves.  `EdgePeriods` has the values just below,
at and above 512 * 2^d for all 16 divisors, where the code's formulas change.  The
cages fitted on a board are those with the lowest and the highest id (on the
PC059 the SFP on a bus of its own and one of the common bus).

In `nodes`, `Word` = 2 stands for 2^32, so that a timestamp carries from one word
to the other within `LastTime` = 2; `Byte` = 4 stands for 256 in calibration
constants; `LastCount` and `MostSent` = 1 let a command arrive, or be sent, between
any two dispatches; `LastCommand` = 2 is enough to show counters under the wrong
command; `WarnAt` and `FullAt` are the thresholds of the HSI buffer.  `Mantissa` = 3
and `Exponent` = 2 with a `Width` of 4 let `ShownAsMeant` try every number of that
format, all lists up to four elements, and titles on both sides of every width
where a table changes its layout.  `Shipped` lists the pairs of design and board
the repository has address tables for.  Where two callers interleave (`Divided`), the
first makes every call and the second those that write between the first one's
dispatches; an SFP is pulled at most once per call.

**One client at a time.**  The library has no locks, so where a second client
can break a property by design, the property says "when one client uses ..."
and its run has one client; runs with two clients check what holds regardless
(`LaserAccounted`, the lease, `NeverTorn`, the event stream with an operator
beside the reader).

**Fairness** is weak fairness of the steps of a running call, per client: a
thread that runs goes on, and every polling loop in the code has a timeout, by
time or by count, which is modelled as an alternative to success at any poll.
In `nodes` only the first caller is assumed to go on: its calls end even if the
other stops half-way.
Nothing is assumed about the hardware, except in `I2CBus`, where the core, unless
hung, finishes a byte (`WF_vars(Bus)`), since its status word is polled by count, and
in `FrequencyCounter`, where the firmware counts on while the code sleeps.
No call is assumed ever to be made.

**Findings.**  Four runs end with a violation, of what a comment in the
repository says:

* `i2c_reset`: `I2CMasterNode::reset` does not enable a core that is disabled when
  its prescale is right, the state that a failure between two of its own
  dispatches leaves;
* `board_gib_tx`: on the GIB a laser is switched on whichever SFP was selected
  last;
* `scan_mux`: `scan_sfp_mux` returns every channel, locked or not: its catch-all only
  logs, and the line after it adds the channel to the result
  (`MasterMuxDesign.cpp:109`);
* `tlu_swing`: the write that is to tweak the swing of the TLU's clock chip goes to
  another page than the register's (`TLUIONode.cpp:81`).

**Other peculiarities.**  The models do the following as the code does, and
the properties are stated around it; no run is spent on it:

* a prescale of 256 passes the check of the rate (`FLCmdGeneratorNode.cpp:256`),
  but the field has 8 bits (`pdts_scmd_gen.xml:11`): uhal refuses the write, and
  the writes queued before it go out with the client's next dispatch.
  `EnabledRunsAsAsked`, `ForcedAsAsked` and `OnlyTheAskedChannel` therefore
  suppose prescales that fit;
* reading all words of the HSI buffer (`HSINode.cpp:125`) may take part of an
  event, after which every read of events is misaligned.  `CompleteEventsOnly`
  supposes a reader who reads events only;
* a clock file cut off after a whole line of a section is accepted
  (`SI534xNode.cpp:127`): the error for an incomplete file is thrown only if the
  last line has no newline.  `NothingDropped` is about the lines that the file
  has;
* on the FIB a reset that fails between the two writes of `reset_pll`
  (`FIBIONode.cpp:198`) leaves the PLL in reset.  From then on every reset by clock
  source fails, since it looks up the PLL before anything else
  (`IONode.cpp:362`); only a reset by file recovers.  `LookUpReachesPll` therefore
  is about the GIB, whose reset by clock source pulses the resets first;
* the reset by clock source of the MIB looks up the PLL on whatever channel the
  switch is at: it fails after a call that left it at an SFP
  (`MIBIONode.cpp:187`, an exception while a laser is switched);
* the comment at `PC059IONode.cpp:97` ("Bank 0 input, bank 1 output") is the
  opposite of the two writes after it, which `ResetLeavesRunning` needs as they
  are;
* after a reset of the MIB `amc_in` is 0, of which
  `read_active_downstream_mux_channel` takes the logarithm (`MIBIONode.cpp:119`);
* with two callers, the frequency of a clock may be that of another one
  (`FrequencyCounterNode.cpp:52`), and the delays of one may go out with the laser
  command of another (`VLCmdGeneratorNode.cpp:50`): `FrequenciesAsNamed` and
  `CommandAsAsked` are about calls that no other overlaps;
* `apply_endpoint_delay` of `VLCmdGeneratorNode` passes `false` where
  `reset_sub_nodes` takes the value to write (`TimingNode.cpp:45`): the value is 0
  all the same, but it dispatches, as the call that passes nothing does;
* `read_endpoint_data` calls lengths up to 63 valid (`MasterNode.cpp:474`), but a reply
  has room for 29 words behind its header: for more it copies from behind the end of
  the vector (`MasterNode.cpp:493`), and returns whatever is there.  What
  `PacketsSayWhatWasAsked` says of results is therefore about reads of up to 29 words;
* `write_endpoint_data` likewise calls up to 63 bytes valid, but more than 27 do not
  fit into the buffer: uhal refuses the packet, and the call ends with its exception;
* `MasterNode::apply_endpoint_delay` ignores its `phase_delay`, and the sequence number
  of every packet is 0xab;
* negative offsets of a calibration, and temperatures below zero, come out wrong
  (`I2CSFPNode.cpp:69` and `:84`), and so do temperatures with an offset, which
  SFF-8472 gives in 1/256 degrees and the code adds as whole ones (`I2CSFPNode.cpp:95`):
  `ReadingsAsMeasured` leaves them out.  Scale factors and units of what is shown are
  not modelled;
* a reset of a clock chip that fails is swallowed (`SI534xNode.cpp:229`): when it has
  had no effect and all that follows succeeds, registers that only an earlier file
  gave keep its values, and nothing is reported;
* a block of no bytes sends its address without a stop (`I2CMasterNode.cpp:251`): the
  call returns with the bus busy, and the next one has to work from there (as
  `FileSpec` says it does).  `BusReleased` is about blocks that have a byte;
* the scan switches a dead endpoint off also when it has not switched it on
  (`MasterNode.cpp:544`): `LaserLease` permits that, as `ForceOff`, to a call that has
  found its endpoint dead and to no other;
* an error of the timestamp generator that comes up after the load has been seen
  is not looked at (`TimestampGeneratorNode.cpp:142`): `BroadcastAfterLoad` is about the
  load only;
* the counters of 0x100 commands are read as 0xff; `vec_fmt` of an empty list is "]";
* `configure` of a simulated board always fails, since it asks for a clock
  configuration there is none of;
* the timeout of `transmit_async_packet` is given in milliseconds and compared with
  microseconds: a reply is given up sooner than its caller asks.

## 4. Proofs

Checked by TLAPS, for every value of the constants that the assumptions allow.
Each module has one inductive invariant (or a few, where the theorems need
different hypotheses); the theorems follow from it.

* `EndpointLink_proofs`: `IInv` is inductive; hence types and `LaserAccounted`,
  for any number of clients, endpoints, ports and any calls.  `IInv` adds to
  `LaserAccounted` which call can be at which dispatch (`CallInv`): without it a
  call that does not control its laser could reach "laser on", and a step from
  that state would light a laser nobody holds.  Under `IInv` every step of the
  calls is a step of `LaserLease` or changes neither lasers nor holders
  (`CallsImplementLease`).  For a single client (`SoleClient`), `MeasuresTarget` and
  `ScanSparesAligned`: `SoleInv` says that the receiver is locked only to the one
  endpoint it hears, that the multiplexer stays at the channel of the call, that an
  echo or a reply that waits in the firmware is of the endpoint asked for (or of
  one that a failed call has left lit), and that an endpoint found waiting for
  delays still waits when they are sent.
* `FLCmdGenerator_proofs`: types; and for one client whose writes fit,
  `EnabledRunsAsAsked`, `ForcedAsAsked` and `OnlyTheAskedChannel`.  The invariant
  records that between the dispatch that selects a channel and the one that uses
  it, `sel` is still that channel, and that the forced registers are those
  written.  `RatesAreNearest` (one client, any rate) is about the arithmetic: the
  divisors are powers of two, each divides the larger ones, so that a rate with a
  divisor is one with the least that reaches it; and with that divisor the code's
  rounding takes the nearest prescale.  No pair of divisor and prescale is nearer.
* `HSIReadout_proofs`: with one reader of events, what is taken stays a multiple
  of an event until a reset, and the counted words stay available, hence
  `CompleteEventsOnly`, `NoShortRead` and the refinement of `EventStream`, for any
  limit, depth and number of words.  For any clients, types and `RateIsWhole`: a
  rate in the registers is one that was asked for, not made of the divisor of one
  and the prescale of another call.
* `TimestampSync_proofs`: `NeverTorn` for any clients and register width, from
  the invariant that registers are written and loaded whole, with the arithmetic
  that halves join back; types; and for one client `LoadedAsAsked` and
  `BroadcastAfterLoad`, from an invariant that says what source, registers and
  flags are at each dispatch.
* `I2CBus_proofs`: for any chips and calls, `BusInv`, `ResetEnablesCore` and the
  refinement of `RegisterFile`, all under `EnableSucceeds` (the hypothesis of the run
  `i2c_bus`; `i2c_reset` shows that `ResetEnablesCore` fails without it).  The invariant ties
  the registers of the core to the byte the call is at: that `tx` holds it from its
  dispatch on, that the addressed chip is the call's until the stop, that a chip's
  pointer is where the bytes before have moved it, that what is in the buffer is
  what the chip held, and that what a failed write has left is a beginning of it.
* `ClockChip_proofs`: for any files, `UnreportedIsConfigured`, `NoStrayWrite`,
  `NothingDropped` and types.
  Whatever the length of a file, its line numbers can be put in order in one way
  only (`OneOrder`), so the settings of two sections that adjoin are those of their
  lines together (`SettingsJoin`), and what remains is where a section stops
  (`SectionGives`).  `WellMade`, which `NothingDropped` supposes, holds of all 48 clock
  files in `config/etc/clock`, also of the five whose last line has no newline: it is
  a comment.
  The invariant says that, while nothing has been reported, the registers that the
  settings before the one at hand give are as those leave them, the last of those
  to a register counting, that the others have their reset values unless the reset
  has been `swallowed`, and that the page register is right whenever a register is accessed.
  `ChipAssumption` says that a file has at most one header line and that no line
  of its data writes the reset register, which holds of all the clock files in
  `config/etc/clock`; a file that broke it would reset the chip between two of
  its own settings.
* `IONode_proofs`: the switch is at the target's channel while the target is
  accessed, after any calls and failures; hence `AskedLaserWhereSelected`, that a
  laser changes only by a call that names it, on the boards that select its
  channel or have no switch (`SelectsLaser`: all but the GIB), `AnswersOfTarget`
  on all six, and `CallsLeaveAsAsked`, for which `LeftAsAsked` adds that
  only the call that has written the control register ends well, and with what.  Types; `OnlyTheAskedPin`,
  since the flags read are still the pins when they are written back;
  `ResetLeavesRunning` and `LookUpReachesPll`.  The invariant of these two
  (`Progress`) says how far each reset has come: that only the GIB and the FIB can
  hold their PLL in reset, the GIB no longer once its switch is released, and that
  the FIB drives its pins before it lights the lasers, and those before it turns
  to the PLL.  Without it a reset could be found at its last step with earlier
  ones not done.
* `Nodes_proofs`: `CommandAsAsked`, `FrequenciesAsNamed`, `CountersStartOver`,
  `ReportsOneMoment`, `ShownTogether`, `ResetConverges`, `ReadingsAsMeasured` and
  `PacketsSayWhatWasAsked`, for any callers, calls and failures.  Those about calls that no other has overlapped rest on
  `CallsInv`: such a call is the only one in progress.  `VLInv` adds what the
  registers hold between the dispatch that clears them and the one that sends;
  `FreqInv` which clock is selected and counted at each step of the loop; `EpInv`
  that a disabled endpoint stands by, through which dispatches a reset goes, and
  that from the one that clears the counters on they are at most what has arrived
  since the call; `MonitorInv` what each entry of a table stands for, and that
  those of a call that is alone follow each other in time.  `TluInv` says
  that a reset under way has the last writes of the list before it (`Underway`), and
  that those before have done their part whatever the board was like when it
  began (`Done`): a write changes no register but its own, and the one write that
  goes astray hits none of them, because the page left by `configure_pll` is
  another.  `SFPInv` gives each status that is being read a position in the list of
  transactions, written out in full through both of its endings (`StatusInFull`,
  `SoftEndInFull`), and says what has been shown by then (`HasShown`): how many rows,
  the raw value of which quantity is held, that the received power is the sum of so
  many terms, and that the SFP it is about is the one in the cage.  No value is
  assumed of the constants of the polynomial, which is kept as its five terms.
  `AsyncInv` is about what a packet was taken for: while its call lasts, that is what
  the endpoint makes of the words the call has put together, and while the call is
  alone the buffer holds its answer.  What remains is about words alone.  The
  endpoint stops at the last word of a packet, not before, and finds the words as
  they were before the mark was put (`MarkEnds`); from whatever word on, it goes
  through the rest transaction by transaction (`ParsedOnwards`, by induction over the
  number of words, with a set of numbers and its least element in place of the library's
  induction theorems); so a packet of one transaction is understood as that one
  (`WriteUnderstood`, `ReadUnderstood`), one of four as those four, in their order
  (`FourUnderstood`), and the nibbles of a delay make up the delay again
  (`DelayInWords`).

Hypotheses beyond the assumptions on constants ("one client", "prescales fit")
are named operators in the proof modules and part of the theorems' statements;
each holds in the run that checks the property.

Only model-checked:

* liveness (`CallsEnd`): out of the prover's reach;
* `ConfiguresShipped` and `ShownAsMeant`: finite tables and finite formats, which the
  run enumerates.

The invariants of the proofs are not checked by runs as well; the properties they
imply are.

## 5. Not modelled, and what comes next

Not modelled:

* wording of tables and logs, `get_info` where it only copies registers into a
  schema, the accessors that read one register (`UpstreamCDRNode`,
  `SwitchyardNode`, `MasterNodeInterface`): reads without effect or condition;
* paths, file names, dates and the wall clock (`toolbox.cpp`);
* the multiplexers of MIB and PC059 beyond setting them, the input registers of the
  expanders, `SFPMuxIONode` (forwards only);
* headers that declare what is modelled from its definition, `TimingIssues.hpp`
  (declares exceptions), the bindings in `pybindsrc/`, the command line in
  `python/`, `scripts/` and `test/`: they call the library, in an order that the
  models leave arbitrary;
* address tables, clock files and schemas: data, of which widths, layouts and names
  are taken; the afc crate software; the firmware's own logic beyond what the
  library relies on.

What would add most from here:

1. Two clients on `IONode`: the read-modify-write of the FIB's laser pins and of the
   SFP control bits, and the I2C switch, shared.
2. `DesignSetup` composed with `IONode`, `ClockChip` and `TimestampSync` step by step,
   in place of one step each.
