---------------------------- MODULE EndpointLink ----------------------------
(***************************************************************************)
(* The return path of a DUNE timing master: the operations of MasterNode   *)
(* and MasterMuxDesign that light the transmit laser of one endpoint, lock *)
(* the master's receiver to it, and then talk to it.                       *)
(*                                                                         *)
(*   measure   MasterMuxDesign / MasterNode::measure_endpoint_rtt          *)
(*   apply     MasterMuxDesign / MasterNode::apply_endpoint_delay          *)
(*   scan      MasterNode::scan_endpoint                                   *)
(*   scan_mux  MasterMuxDesign::scan_sfp_mux                               *)
(*                                                                         *)
(* The library keeps no state between calls; what persists is in the       *)
(* firmware registers and in the endpoints.  Several clients (the          *)
(* command-line tool, DAQ processes) may drive one master, and they        *)
(* interleave at every IPBus dispatch, so a step of a client is one        *)
(* dispatch.                                                               *)
(*                                                                         *)
(* The endpoints of one port share a fibre: the receiver locks only while  *)
(* exactly one of them is transmitting on the port the mux selects.        *)
(***************************************************************************)
EXTENDS Integers

CONSTANTS
  Clients,     \* callers of the library
  Endpoints,   \* endpoint addresses
  NumPorts,    \* channels of the downstream SFP mux, numbered from 0
  Port,        \* the mux channel each endpoint's fibre ends at
  Jobs,        \* the calls the clients may make
  Moving,      \* the endpoints that change state of their own accord
  PacketLoss,  \* whether an endpoint may miss a packet that awaits no reply
  None         \* "no endpoint"

Ports == 0 .. NumPorts - 1

(* A call and its arguments; mux = -1 means "no mux" (sfp_mux), rtt is     *)
(* measure_rtt.  scan and scan_mux ignore the fields they have no          *)
(* parameter for.                                                          *)
Job == [op : {"measure", "apply", "scan", "scan_mux"}, ept : Endpoints,
        sfp : BOOLEAN, rtt : BOOLEAN, mux : {-1} \cup Ports]

ASSUME LinkAssumption ==
  /\ NumPorts \in Nat \ {0}
  /\ Port \in [Endpoints -> Ports]
  /\ Jobs \subseteq Job
  /\ Moving \subseteq Endpoints
  /\ PacketLoss \in BOOLEAN
  /\ None \notin Endpoints

(* The endpoint states the code tells apart: 6 waits for delays, 7 and 8   *)
(* have them, 0 stands for every other state.                              *)
EptStates == {0, 6, 7, 8}

Labels == {"idle", "mux", "sfp_on", "resync_set", "resync_clear", "wait_ready",
           "echo_go", "echo_wait", "send_delay", "read_tx", "read_poll",
           "read_rx", "sfp_off"}

Outcomes == {"ok", "dead", "not_ready", "no_reply", "no_flag", "vl_timeout",
             "bus_error"}

VARIABLES
  pc,        \* per client: the next dispatch of its call
  job,       \* per client: its current or last call
  round,     \* per client: 1 before the delay packet of the call, 2 after it
  slot,      \* per client: loop index of scan_sfp_mux
  found,     \* per client: locked_channels of scan_sfp_mux
  out,       \* per client: how the call ended, or is about to end
  rtt,       \* per client: the endpoint whose echo delay the call took last
  seen,      \* per client: the endpoint state the call read last
  mux,       \* the selected mux channel
  laser,     \* per endpoint: is its SFP transmitting?
  resync,    \* csr.ctrl.resync and resync_cdr
  upstream,  \* the endpoint the receiver is locked to
  echo,      \* the echo monitor
  acmd,      \* the async command buffer: its flags and the addressee
  rxbuf,     \* the last reply in the async command buffer
  state,     \* per endpoint: its state register 0x71
  abandoned  \* lit lasers that no call in progress is going to switch off

callVars  == <<pc, job, round, slot, found, out, rtt, seen>>
asyncVars == <<acmd, rxbuf>>
vars == <<pc, job, round, slot, found, out, rtt, seen, mux, laser, resync,
          upstream, echo, acmd, rxbuf, state, abandoned>>

-----------------------------------------------------------------------------
(* The course of a call.                                                   *)

(* Does the call switch the laser of its endpoint on and off?              *)
ControlsLaser(j) ==
  \/ j.op \in {"measure", "scan"} /\ j.sfp
  \/ j.op = "apply" /\ j.rtt /\ j.sfp

(* Does the call select a channel of the downstream mux first?             *)
SetsMux(j) ==
  \/ j.op = "scan_mux"
  \/ j.op = "measure" /\ j.mux > -1 /\ j.sfp
  \/ j.op = "apply" /\ j.mux > -1 /\ j.sfp /\ j.rtt

AfterMux(j) ==
  CASE ControlsLaser(j)            -> "sfp_on"
    [] j.op = "measure" /\ ~j.sfp  -> "echo_go"
    [] j.op = "apply" /\ ~j.rtt    -> "send_delay"
    [] OTHER                       -> "resync_set"

FirstLabel(j) == IF SetsMux(j) THEN "mux" ELSE AfterMux(j)

(* Mutant of LastLabel: the laser is not switched off at the end.          *)
LastLabelLaserLeftOn(j) == "idle"

(* Where a call goes when its last stage has succeeded.                    *)
LastLabel(j) == IF ControlsLaser(j) THEN "sfp_off" ELSE "idle"

AfterEcho(j, r) ==
  CASE j.op = "apply" /\ r = 1 -> "send_delay"
    [] j.op = "scan"  /\ r = 1 -> "read_tx"
    [] OTHER                   -> LastLabel(j)

AfterDelay(j) ==
  CASE j.op = "scan" -> "read_tx"
    [] j.op = "apply" /\ j.rtt -> "resync_set"
    [] OTHER -> "idle"

(* Mutant of AfterRead: delays also go to endpoints that have them.        *)
AfterReadAnyState(j, r, s) ==
  CASE r = 2            -> "echo_go"
    [] r = 1 /\ s # 0   -> "send_delay"
    [] OTHER            -> LastLabel(j)

AfterRead(j, r, s) ==
  CASE r = 2            -> "echo_go"
    [] r = 1 /\ s = 6   -> "send_delay"
    [] OTHER            -> LastLabel(j)

Goto(c, l) == pc' = [pc EXCEPT ![c] = l]

(* Is the laser of e on behalf of the call of c?                           *)
Holds(c, e) ==
  /\ ControlsLaser(job[c])
  /\ job[c].ept = e
  /\ pc[c] \notin {"idle", "mux", "sfp_on"}

Held == {e \in Endpoints : \E c \in Clients : Holds(c, e)}

(* The endpoints whose light reaches the receiver.                         *)
Lit(l, m) == {e \in Endpoints : l[e] /\ Port[e] = m}

(* The lock survives a change of lasers or mux only if its endpoint stays  *)
(* the only one that is heard.                                             *)
Relock(l, m) == IF Lit(l, m) = {upstream} THEN upstream ELSE None

ReceiverIsReady == ~resync /\ upstream # None

(* Writing a packet into the transmit buffer starts a new transaction.     *)
Transmit(e) == acmd' = [flag |-> "busy", ept |-> e]

Heard == IF PacketLoss THEN BOOLEAN ELSE {TRUE}

-----------------------------------------------------------------------------
Init ==
  /\ pc = [c \in Clients |-> "idle"]
  /\ job \in [Clients -> Jobs]
  /\ round = [c \in Clients |-> 1]
  /\ slot = [c \in Clients |-> 0]
  /\ found = [c \in Clients |-> {}]
  /\ out = [c \in Clients |-> "ok"]
  /\ rtt = [c \in Clients |-> None]
  /\ seen = [c \in Clients |-> [ept |-> None, val |-> 0]]
  /\ mux = 0
  /\ laser \in [Endpoints -> BOOLEAN]
  /\ resync = FALSE
  /\ upstream = None
  /\ echo = [done |-> TRUE, ept |-> None]
  /\ acmd = [flag |-> "timeout", ept |-> None]
  /\ rxbuf = [ept |-> None, val |-> 0]
  /\ state \in [Endpoints -> EptStates]
  /\ \A e \in Endpoints \ Moving : state[e] = 0
  /\ abandoned = {e \in Endpoints : laser[e]}

(* A client makes a call.                                                  *)
Call(c) ==
  /\ pc[c] = "idle"
  /\ \E j \in Jobs :
       /\ job' = [job EXCEPT ![c] = j]
       /\ Goto(c, FirstLabel(j))
  /\ round' = [round EXCEPT ![c] = 1]
  /\ slot' = [slot EXCEPT ![c] = 0]
  /\ found' = [found EXCEPT ![c] = {}]
  /\ out' = [out EXCEPT ![c] = "ok"]
  /\ rtt' = [rtt EXCEPT ![c] = None]
  /\ seen' = [seen EXCEPT ![c] = [ept |-> None, val |-> 0]]
  /\ UNCHANGED <<mux, laser, resync, upstream, echo, asyncVars, state, abandoned>>

(* The call of c ends with an exception nobody inside it catches: the      *)
(* laser it holds stays on.                                                *)
Escape(c, outcome) ==
  /\ Goto(c, "idle")
  /\ out' = [out EXCEPT ![c] = outcome]
  /\ abandoned' = abandoned \cup {e \in Endpoints : laser[e] /\ Holds(c, e)}

(* Mutant of SelectMux: the channel is only selected by the mux scan.      *)
SelectMuxScanOnly(c) ==
  /\ pc[c] = "mux"
  /\ mux' = IF job[c].op = "scan_mux" THEN slot[c] ELSE mux
  /\ upstream' = Relock(laser, mux')
  /\ Goto(c, AfterMux(job[c]))
  /\ UNCHANGED <<job, round, slot, found, out, rtt, seen, laser, resync, echo,
                 asyncVars, state, abandoned>>

SelectMux(c) ==
  /\ pc[c] = "mux"
  /\ mux' = IF job[c].op = "scan_mux" THEN slot[c] ELSE job[c].mux
  /\ upstream' = Relock(laser, mux')
  /\ Goto(c, AfterMux(job[c]))
  /\ UNCHANGED <<job, round, slot, found, out, rtt, seen, laser, resync, echo,
                 asyncVars, state, abandoned>>

(* switch_endpoint_sfp(address, true): nobody waits for the reply.         *)
SwitchOn(c) ==
  /\ pc[c] = "sfp_on"
  /\ Transmit(job[c].ept)
  /\ \E heard \in Heard :
       laser' = [laser EXCEPT ![job[c].ept] = @ \/ heard]
  /\ upstream' = Relock(laser', mux)
  /\ Goto(c, "resync_set")
  /\ UNCHANGED <<job, round, slot, found, out, rtt, seen, mux, resync, echo,
                 rxbuf, state, abandoned>>

(* MasterGlobalNode::enable_upstream_endpoint: pulse the resync bits ...   *)
ResyncSet(c) ==
  /\ pc[c] = "resync_set"
  /\ resync' = TRUE
  /\ upstream' = None
  /\ Goto(c, "resync_clear")
  /\ UNCHANGED <<job, round, slot, found, out, rtt, seen, mux, laser, echo,
                 asyncVars, state, abandoned>>

ResyncClear(c) ==
  /\ pc[c] = "resync_clear"
  /\ resync' = FALSE
  /\ Goto(c, "wait_ready")
  /\ UNCHANGED <<job, round, slot, found, out, rtt, seen, mux, laser, upstream,
                 echo, asyncVars, state, abandoned>>

(* scan_sfp_mux enters the channel in its result and goes on to the next:  *)
(* its catch (...) block only logs, so a failed attempt comes here too.    *)
NextSlot(c) ==
  /\ found' = [found EXCEPT ![c] = @ \cup {slot[c]}]
  /\ slot' = [slot EXCEPT ![c] = @ + 1]
  /\ Goto(c, IF slot[c] + 1 < NumPorts THEN "mux" ELSE "idle")

(* ... and poll until receiver and CDR are ready,                          *)
ReceiverReady(c) ==
  /\ pc[c] = "wait_ready"
  /\ ReceiverIsReady
  /\ IF job[c].op = "scan_mux"
     THEN NextSlot(c)
     ELSE Goto(c, "echo_go") /\ UNCHANGED <<found, slot>>
  /\ UNCHANGED <<job, round, out, rtt, seen, mux, laser, resync, upstream, echo,
                 asyncVars, state, abandoned>>

(* Mutant of ReceiverTimeout: nobody catches ReceiverNotReady.             *)
ReceiverTimeoutUncaught(c) ==
  /\ pc[c] = "wait_ready"
  /\ ~ReceiverIsReady
  /\ out' = [out EXCEPT ![c] = "not_ready"]
  /\ Goto(c, "idle")
  /\ UNCHANGED <<job, round, slot, found, rtt, seen, mux, laser, resync, upstream,
                 echo, asyncVars, state, abandoned>>

(* or throw ReceiverNotReady.  measure and apply catch it, switch the      *)
(* laser off if they control it and throw again; scan catches it, switches *)
(* the laser off in any case and reports a dead endpoint.                  *)
ReceiverTimeout(c) ==
  /\ pc[c] = "wait_ready"
  /\ ~ReceiverIsReady
  /\ \/ /\ job[c].op = "scan_mux"
        /\ NextSlot(c)
        /\ UNCHANGED out
     \/ /\ job[c].op = "scan"
        /\ out' = [out EXCEPT ![c] = "dead"]
        /\ Goto(c, "sfp_off")
        /\ UNCHANGED <<found, slot>>
     \/ /\ job[c].op \in {"measure", "apply"}
        /\ out' = [out EXCEPT ![c] = "not_ready"]
        /\ Goto(c, LastLabel(job[c]))
        /\ UNCHANGED <<found, slot>>
  /\ UNCHANGED <<job, round, rtt, seen, mux, laser, resync, upstream, echo,
                 asyncVars, state, abandoned>>

(* EchoMonitorNode::send_echo_and_measure_delay: send the echo ...         *)
EchoGo(c) ==
  /\ pc[c] = "echo_go"
  /\ echo' = [done |-> FALSE, ept |-> None]
  /\ Goto(c, "echo_wait")
  /\ UNCHANGED <<job, round, slot, found, out, rtt, seen, mux, laser, resync,
                 upstream, asyncVars, state, abandoned>>

(* ... take its delay, which is that of the endpoint that answered,        *)
EchoTaken(c) ==
  /\ pc[c] = "echo_wait"
  /\ echo.done /\ echo.ept # None
  /\ rtt' = [rtt EXCEPT ![c] = echo.ept]
  /\ Goto(c, AfterEcho(job[c], round[c]))
  /\ UNCHANGED <<job, round, slot, found, out, seen, mux, laser, resync, upstream,
                 echo, asyncVars, state, abandoned>>

(* Mutant of EchoThrows: the poll loop never checks the elapsed time.      *)
EchoThrowsNoTimer(c) ==
  /\ pc[c] = "echo_wait"
  /\ echo.done /\ echo.ept = None /\ Escape(c, "no_reply")
  /\ UNCHANGED <<job, round, slot, found, rtt, seen, mux, laser, resync, upstream,
                 echo, asyncVars, state>>

(* or throw, EchoReplyTimeout if the monitor gave up (deltat is 0xffff),   *)
(* EchoFlagTimeout if it is still waiting.  No operation catches these.    *)
EchoThrows(c) ==
  /\ pc[c] = "echo_wait"
  /\ \/ echo.done /\ echo.ept = None /\ Escape(c, "no_reply")
     \/ ~echo.done /\ Escape(c, "no_flag")
  /\ UNCHANGED <<job, round, slot, found, rtt, seen, mux, laser, resync, upstream,
                 echo, asyncVars, state>>

(* apply_endpoint_delay: write the delays, "deskew done" and "resync".  An *)
(* endpoint waiting for delays takes them; one that has them starts over.  *)
SendDelay(c) ==
  /\ pc[c] = "send_delay"
  /\ Transmit(job[c].ept)
  /\ \E heard \in Heard :
       state' = [state EXCEPT ![job[c].ept] =
                   IF ~heard THEN @ ELSE IF @ = 6 THEN 7 ELSE 0]
  /\ round' = [round EXCEPT ![c] = 2]
  /\ Goto(c, AfterDelay(job[c]))
  /\ UNCHANGED <<job, slot, found, out, rtt, seen, mux, laser, resync, upstream,
                 echo, rxbuf, abandoned>>

(* read_endpoint_data(address, 0x71, 1): send the read packet,             *)
ReadTx(c) ==
  /\ pc[c] = "read_tx"
  /\ Transmit(job[c].ept)
  /\ Goto(c, "read_poll")
  /\ UNCHANGED <<job, round, slot, found, out, rtt, seen, mux, laser, resync,
                 upstream, echo, rxbuf, state, abandoned>>

(* poll the flags until the buffer is ready,                               *)
ReadReady(c) ==
  /\ pc[c] = "read_poll"
  /\ acmd.flag = "ready"
  /\ Goto(c, "read_rx")
  /\ UNCHANGED <<job, round, slot, found, out, rtt, seen, mux, laser, resync,
                 upstream, echo, asyncVars, state, abandoned>>

(* or throw: VLCommandReplyTimeout on the timeout flag,                    *)
(* VLCommandReplyBufferFlagTimeout when neither flag is set in time;       *)
ReadThrows(c) ==
  /\ pc[c] = "read_poll"
  /\ acmd.flag # "ready"
  /\ Escape(c, "vl_timeout")
  /\ UNCHANGED <<job, round, slot, found, rtt, seen, mux, laser, resync, upstream,
                 echo, asyncVars, state>>

(* and fetch the reply in a dispatch of its own.  A wrong header is only   *)
(* reported, and every reply has the same sequence number.                 *)
ReadRx(c) ==
  /\ pc[c] = "read_rx"
  /\ seen' = [seen EXCEPT ![c] = rxbuf]
  /\ Goto(c, AfterRead(job[c], round[c], rxbuf.val))
  /\ UNCHANGED <<job, round, slot, found, out, rtt, mux, laser, resync, upstream,
                 echo, asyncVars, state, abandoned>>

(* switch_endpoint_sfp(address, false).                                    *)
SwitchOff(c) ==
  /\ pc[c] = "sfp_off"
  /\ Transmit(job[c].ept)
  /\ Goto(c, "idle")
  /\ \/ /\ laser' = [laser EXCEPT ![job[c].ept] = FALSE]
        /\ abandoned' = abandoned \ {job[c].ept}
     \/ /\ FALSE \in Heard
        /\ abandoned' = abandoned \cup {e \in Endpoints : laser[e] /\ Holds(c, e)}
        /\ UNCHANGED laser
  /\ upstream' = Relock(laser', mux)
  /\ UNCHANGED <<job, round, slot, found, out, rtt, seen, mux, resync, echo, rxbuf,
                 state>>

(* Any dispatch may fail with a uhal exception; only scan_sfp_mux catches  *)
(* it.                                                                     *)
BusError(c) ==
  /\ pc[c] # "idle"
  /\ IF job[c].op = "scan_mux"
     THEN NextSlot(c) /\ UNCHANGED <<out, abandoned>>
     ELSE Escape(c, "bus_error") /\ UNCHANGED <<found, slot>>
  /\ UNCHANGED <<job, round, rtt, seen, mux, laser, resync, upstream, echo,
                 asyncVars, state>>

-----------------------------------------------------------------------------
(* The hardware.                                                           *)

ReceiverLocks ==
  /\ ~resync /\ upstream = None
  /\ \E e \in Endpoints : Lit(laser, mux) = {e} /\ upstream' = e
  /\ UNCHANGED <<callVars, mux, laser, resync, echo, asyncVars, state, abandoned>>

ReceiverLosesLock ==
  /\ upstream # None
  /\ upstream' = None
  /\ UNCHANGED <<callVars, mux, laser, resync, echo, asyncVars, state, abandoned>>

(* The endpoint the receiver is locked to returns the echo, or the monitor *)
(* gives up.                                                               *)
EchoEnds ==
  /\ ~echo.done
  /\ \E e \in {upstream, None} :
       echo' = [done |-> TRUE, ept |-> e]
  /\ UNCHANGED <<callVars, mux, laser, resync, upstream, asyncVars, state, abandoned>>

(* The addressee of the last packet replies, if the master can hear it, or *)
(* the buffer gives up.                                                    *)
PacketEnds ==
  /\ acmd.flag = "busy"
  /\ \/ /\ upstream = acmd.ept
        /\ acmd' = [flag |-> "ready", ept |-> None]
        /\ rxbuf' = [ept |-> acmd.ept, val |-> state[acmd.ept]]
     \/ /\ acmd' = [flag |-> "timeout", ept |-> None]
        /\ UNCHANGED rxbuf
  /\ UNCHANGED <<callVars, mux, laser, resync, upstream, echo, state, abandoned>>

(* An endpoint makes progress by itself (0 to 6, 7 to 8) or falls back.    *)
EndpointMoves(e) ==
  /\ \/ state[e] = 0 /\ state' = [state EXCEPT ![e] = 6]
     \/ state[e] = 7 /\ state' = [state EXCEPT ![e] = 8]
     \/ state[e] # 0 /\ state' = [state EXCEPT ![e] = 0]
  /\ UNCHANGED <<callVars, mux, laser, resync, upstream, echo, asyncVars, abandoned>>

-----------------------------------------------------------------------------
(* The dispatches of a call, timeouts included.                            *)
Step(c) ==
  \/ SelectMux(c) \/ SwitchOn(c) \/ ResyncSet(c) \/ ResyncClear(c)
  \/ ReceiverReady(c) \/ ReceiverTimeout(c)
  \/ EchoGo(c) \/ EchoTaken(c) \/ EchoThrows(c) \/ SendDelay(c)
  \/ ReadTx(c) \/ ReadReady(c) \/ ReadThrows(c) \/ ReadRx(c) \/ SwitchOff(c)

Hardware ==
  \/ ReceiverLocks \/ ReceiverLosesLock \/ EchoEnds \/ PacketEnds
  \/ \E e \in Moving : EndpointMoves(e)

Next ==
  \/ \E c \in Clients : Call(c) \/ Step(c) \/ BusError(c)
  \/ Hardware

Spec == Init /\ [][Next]_vars

(* A call that is running keeps running: every wait in it has a timeout.   *)
FairSpec == Spec /\ \A c \in Clients : WF_vars(Step(c))

-----------------------------------------------------------------------------
TypeOK ==
  /\ pc \in [Clients -> Labels]
  /\ job \in [Clients -> Jobs]
  /\ round \in [Clients -> {1, 2}]
  /\ slot \in [Clients -> 0 .. NumPorts]
  /\ found \in [Clients -> SUBSET Ports]
  /\ out \in [Clients -> Outcomes]
  /\ rtt \in [Clients -> Endpoints \cup {None}]
  /\ seen \in [Clients -> [ept : Endpoints \cup {None}, val : EptStates]]
  /\ mux \in Ports
  /\ laser \in [Endpoints -> BOOLEAN]
  /\ resync \in BOOLEAN
  /\ upstream \in Endpoints \cup {None}
  /\ echo \in [done : BOOLEAN, ept : Endpoints \cup {None}]
  /\ acmd \in [flag : {"busy", "ready", "timeout"},
               ept : Endpoints \cup {None}]
  /\ rxbuf \in [ept : Endpoints \cup {None}, val : EptStates]
  /\ state \in [Endpoints -> EptStates]
  /\ abandoned \subseteq Endpoints

(* Which call can be at which dispatch: a call that selects a channel was  *)
(* given one, only a call that controls the laser switches it on, only     *)
(* apply and scan send delays, only scan reads, only a dead scan switches  *)
(* off a laser it does not control, and scan_sfp_mux stays within its      *)
(* channels and never reaches a stage that could hold a laser.             *)
CallInv ==
  \A c \in Clients :
    /\ pc[c] = "mux" => SetsMux(job[c])
    /\ pc[c] = "sfp_on" => ControlsLaser(job[c])
    /\ pc[c] = "send_delay" => job[c].op \in {"apply", "scan"}
    /\ pc[c] \in {"read_tx", "read_poll", "read_rx"} => job[c].op = "scan"
    /\ pc[c] = "sfp_off" => ControlsLaser(job[c]) \/ out[c] = "dead"
    /\ pc[c] # "idle" => out[c] \in {"ok", "dead", "not_ready"}
    /\ job[c].op = "scan_mux" /\ pc[c] # "idle" =>
         /\ slot[c] < NumPorts
         /\ pc[c] \in {"mux", "resync_set", "resync_clear", "wait_ready"}

(* A lit laser is never forgotten by accident: whichever way the calls of  *)
(* all clients interleave and fail, a laser that is on belongs to a call   *)
(* in progress that controls it, or was left behind by one of the failures *)
(* no operation catches (an echo, reply or bus failure) or a lost packet.  *)
(* It is about the try/catch blocks of measure_endpoint_rtt,               *)
(* apply_endpoint_delay and scan_endpoint.                                 *)
LaserAccounted ==
  \A e \in Endpoints : laser[e] => e \in abandoned \cup Held

(* The inductive invariant; a transaction of the command buffer also has   *)
(* an addressee.                                                           *)
IInv ==
  /\ TypeOK
  /\ acmd.flag = "busy" => acmd.ept # None
  /\ CallInv
  /\ LaserAccounted

(* When one client uses the master at a time, a round trip time measured   *)
(* with laser control is that of the addressed endpoint, unless a laser    *)
(* somebody abandoned earlier outshines it (the echo carries no address);  *)
(* one measured through the mux comes from behind the channel asked for;   *)
(* and the state scan_endpoint acts on is that of the endpoint it scans,   *)
(* although replies are told apart by a constant sequence number only.     *)
MeasuresTarget ==
  \A c \in Clients :
    /\ rtt[c] # None /\ ControlsLaser(job[c]) => rtt[c] \in {job[c].ept} \cup abandoned
    /\ rtt[c] # None /\ SetsMux(job[c]) => Port[rtt[c]] = job[c].mux
    /\ seen[c].ept \in {None, job[c].ept}

(* When one client uses the master at a time, scan_endpoint never sends    *)
(* delays, and with them a resync, to an endpoint that has its delays      *)
(* already: the state it read is still good when it acts on it.            *)
ScanSparesAligned ==
  [][\A c \in Clients :
       job[c].op = "scan" /\ pc[c] = "send_delay" /\ round'[c] = 2
         => state[job[c].ept] \notin {7, 8}]_vars

(* "Scan SFP for alive timing transmitters", MasterMuxDesign.hpp:73: the   *)
(* channels that scan_sfp_mux returns are those on which the receiver has  *)
(* locked.                                                                 *)
ScanFindsLocked ==
  [][(\E c \in Clients : found'[c] \ found[c] # {}) => ReceiverIsReady]_vars

(* Every call ends: each of its polling loops ends in success, in failure  *)
(* or in a timeout, whatever the hardware and the other clients do.        *)
CallsEnd == \A c \in Clients : (pc[c] # "idle") ~> (pc[c] = "idle")

(* The calls implement the lease of lasers.                                *)
Lease == INSTANCE LaserLease
           WITH lit <- {e \in Endpoints : laser[e]},
                holders <- [e \in Endpoints |-> {c \in Clients : Holds(c, e)}]

(* Every step of the calls is a step of the lease of LaserLease or leaves  *)
(* the lasers and who holds them alone.                                    *)
LeaseSpec == Lease!Spec
=============================================================================
