--------------------------- MODULE FLCmdGenerator ---------------------------
(***************************************************************************)
(* The generator of fixed length commands of a timing master:              *)
(* FLCmdGeneratorNode, driven by MasterNode::send_fl_cmd,                  *)
(* enable_periodic_fl_cmd and disable_periodic_fl_cmd.                     *)
(*                                                                         *)
(* The firmware shows the settings of one channel at a time, the one in    *)
(* the register "sel".  A step of a client is one dispatch; the writes     *)
(* queued before a write that uhal refuses stay in the client's queue and  *)
(* go out with its next dispatch.                                          *)
(***************************************************************************)
EXTENDS PeriodicRate

CONSTANTS
  Clients,    \* callers of the library
  Channels,   \* the channels of the generator, 0 .. 4 in the code
  Requests    \* the calls the clients may make

(* Commands fit in 8 bits.                                                 *)
Commands == 0 .. 255

(* rep is number_of_commands of a send, period and poisson are those of a  *)
(* periodic command.                                                       *)
Request == [op : {"send", "enable", "disable"}, chan : Nat, cmd : Nat,
            rep : Nat \ {0}, period : Nat, poisson : BOOLEAN]

ASSUME GeneratorAssumption ==
  /\ Channels \subseteq Nat
  /\ Channels # {}
  /\ Requests \subseteq Request

VARIABLES
  pc,      \* per client: the next dispatch of its call
  req,     \* per client: its current or last call
  left,    \* per client: commands still to send
  out,     \* per client: how the call ended
  queue,   \* per client: the channel whose half-made settings are queued
  sel,     \* the selected channel
  ctrl,    \* per channel: its settings, chan_ctrl
  forced   \* the last command sent by ctrl.force, and its channel

vars == <<pc, req, left, out, queue, sel, ctrl, forced>>

Cleared == [en |-> FALSE, patt |-> FALSE, type |-> 0, d |-> 0, p |-> 0]

NoCommand == [chan |-> -1, cmd |-> 0]
NothingQueued == [chan |-> -1, type |-> 0, d |-> 0]

Settings == [en : BOOLEAN, patt : BOOLEAN, type : Commands,
             d : 0 .. DivisorMax, p : PrescaleField]

Valid(r) == r.chan \in Channels /\ (r.op # "disable" => r.cmd \in Commands)

Ratable(r) == r.op = "enable" => InRange(r.period)

(* The settings a request for a periodic command asks for.                 *)
Periodic(r) == [en |-> TRUE, patt |-> r.poisson, type |-> r.cmd,
                d |-> Divisor(r.period), p |-> Prescale(r.period, Divisor(r.period))]

(* Does uhal take all the writes of the request?                           *)
Fits(r) == r.op = "enable" => Periodic(r).p \in PrescaleField

Accepted(r) == Valid(r) /\ Ratable(r) /\ Fits(r)

(* The settings of all channels after the writes in the queue of c.        *)
Flushed(c) ==
  IF queue[c].chan \in Channels
  THEN [ctrl EXCEPT ![queue[c].chan].type = queue[c].type,
                    ![queue[c].chan].d = queue[c].d]
  ELSE ctrl

Goto(c, l) == pc' = [pc EXCEPT ![c] = l]
Ends(c, outcome) == out' = [out EXCEPT ![c] = outcome]

-----------------------------------------------------------------------------
Init ==
  /\ pc = [c \in Clients |-> "idle"]
  /\ req \in [Clients -> Requests]
  /\ left = [c \in Clients |-> 0]
  /\ out = [c \in Clients |-> "none"]
  /\ queue = [c \in Clients |-> NothingQueued]
  /\ sel \in Channels
  /\ ctrl = [k \in Channels |-> Cleared]
  /\ forced = NoCommand

(* A client makes a call; the first dispatch of each operation is a step   *)
(* of its own.                                                             *)
Call(c, r) ==
  /\ pc[c] = "idle"
  /\ req' = [req EXCEPT ![c] = r]
  /\ left' = [left EXCEPT ![c] = IF r.op = "send" THEN r.rep ELSE 0]
  /\ Ends(c, "ok")
  /\ Goto(c, r.op)
  /\ UNCHANGED <<queue, sel, ctrl, forced>>

(* A bad channel or command is refused before anything is queued, and so   *)
(* is a rate out of range.                                                 *)
Refuse(c) ==
  /\ \/ /\ pc[c] \in {"send", "enable", "disable"}
        /\ ~Valid(req[c])
        /\ Ends(c, "invalid")
     \/ /\ pc[c] = "enable"
        /\ ~Ratable(req[c])
        /\ Ends(c, "bad_rate")
  /\ Goto(c, "idle")
  /\ UNCHANGED <<req, left, queue, sel, ctrl, forced>>

(* Mutant of Select: the settings are cleared before the channel is        *)
(* selected.                                                               *)
SelectAfterClear(c) ==
  /\ pc[c] = "send" /\ Accepted(req[c])
  /\ sel' = req[c].chan
  /\ ctrl' = [Flushed(c) EXCEPT ![sel] = Cleared]
  /\ queue' = [queue EXCEPT ![c] = NothingQueued]
  /\ Goto(c, "force")
  /\ UNCHANGED <<req, left, out, forced>>

(* Mutant of Select: the selection is left for later.                      *)
SelectNothing(c) ==
  /\ pc[c] = "send" /\ Accepted(req[c])
  /\ ctrl' = [Flushed(c) EXCEPT ![req[c].chan] = Cleared]
  /\ queue' = [queue EXCEPT ![c] = NothingQueued]
  /\ Goto(c, "force")
  /\ UNCHANGED <<req, left, out, sel, forced>>

(* send_fl_cmd selects the channel and clears its settings                 *)
(* (reset_sub_nodes dispatches),                                           *)
Select(c) ==
  /\ pc[c] = "send" /\ Accepted(req[c])
  /\ sel' = req[c].chan
  /\ ctrl' = [Flushed(c) EXCEPT ![req[c].chan] = Cleared]
  /\ queue' = [queue EXCEPT ![c] = NothingQueued]
  /\ Goto(c, "force")
  /\ UNCHANGED <<req, left, out, forced>>

(* writes the command into the channel that is selected and forces it out, *)
ForceOut(c) ==
  /\ pc[c] = "force"
  /\ ctrl' = [ctrl EXCEPT ![sel].type = req[c].cmd]
  /\ forced' = [chan |-> sel, cmd |-> req[c].cmd]
  /\ Goto(c, "release")
  /\ UNCHANGED <<req, left, out, queue, sel>>

(* takes the force bit back,                                               *)
Release(c) ==
  /\ pc[c] = "release"
  /\ Goto(c, "log")
  /\ UNCHANGED <<req, left, out, queue, sel, ctrl, forced>>

(* reads the command log, whose contents it only reports, and starts over  *)
(* for the next of number_of_commands.                                     *)
ReadLog(c) ==
  /\ pc[c] = "log"
  /\ left' = [left EXCEPT ![c] = @ - 1]
  /\ Goto(c, IF left[c] > 1 THEN "send" ELSE "idle")
  /\ UNCHANGED <<req, out, queue, sel, ctrl, forced>>

(* Mutant of Enable: the settings go to the channel selected before.       *)
EnableWithoutSelect(c) ==
  /\ pc[c] = "enable" /\ Accepted(req[c])
  /\ ctrl' = [Flushed(c) EXCEPT ![sel] = Periodic(req[c])]
  /\ queue' = [queue EXCEPT ![c] = NothingQueued]
  /\ Goto(c, "idle")
  /\ UNCHANGED <<req, left, out, sel, forced>>

(* enable_periodic_fl_cmd selects the channel and writes all its settings  *)
(* in one dispatch ...                                                     *)
Enable(c) ==
  /\ pc[c] = "enable" /\ Accepted(req[c])
  /\ sel' = req[c].chan
  /\ ctrl' = [Flushed(c) EXCEPT ![req[c].chan] = Periodic(req[c])]
  /\ queue' = [queue EXCEPT ![c] = NothingQueued]
  /\ Goto(c, "idle")
  /\ UNCHANGED <<req, left, out, forced>>

(* ... unless uhal refuses the prescale: what was written before it,       *)
(* channel, type and divisor, stays queued.                                *)
EnableRefused(c) ==
  /\ pc[c] = "enable" /\ Valid(req[c]) /\ Ratable(req[c]) /\ ~Fits(req[c])
  /\ queue' = [queue EXCEPT ![c] = [chan |-> req[c].chan, type |-> req[c].cmd,
                                    d |-> Divisor(req[c].period)]]
  /\ Ends(c, "bus_mask")
  /\ Goto(c, "idle")
  /\ UNCHANGED <<req, left, sel, ctrl, forced>>

(* disable_fake_trigger selects the channel and clears its settings.       *)
Disable(c) ==
  /\ pc[c] = "disable" /\ Accepted(req[c])
  /\ sel' = req[c].chan
  /\ ctrl' = [Flushed(c) EXCEPT ![req[c].chan] = Cleared]
  /\ queue' = [queue EXCEPT ![c] = NothingQueued]
  /\ Goto(c, "idle")
  /\ UNCHANGED <<req, left, out, forced>>

(* A dispatch fails with a uhal exception, without effect.                 *)
BusError(c) ==
  /\ pc[c] # "idle" /\ Accepted(req[c])
  /\ Ends(c, "bus_error")
  /\ queue' = [queue EXCEPT ![c] = NothingQueued]
  /\ Goto(c, "idle")
  /\ UNCHANGED <<req, left, sel, ctrl, forced>>

Step(c) ==
  \/ Refuse(c)
  \/ Select(c) \/ ForceOut(c) \/ Release(c) \/ ReadLog(c)
  \/ Enable(c) \/ EnableRefused(c) \/ Disable(c)

Next == \E c \in Clients : (\E r \in Requests : Call(c, r)) \/ Step(c) \/ BusError(c)

Spec == Init /\ [][Next]_vars

-----------------------------------------------------------------------------
Labels == {"idle", "send", "force", "release", "log", "enable", "disable"}

Outcomes == {"none", "ok", "invalid", "bad_rate", "bus_mask", "bus_error"}

TypeOK ==
  /\ pc \in [Clients -> Labels]
  /\ req \in [Clients -> Requests]
  /\ left \in [Clients -> Nat]
  /\ out \in [Clients -> Outcomes]
  /\ queue \in [Clients -> [chan : Channels \cup {-1}, type : Commands,
                            d : 0 .. DivisorMax]]
  /\ sel \in Channels
  /\ ctrl \in [Channels -> Settings]
  /\ forced \in [chan : Channels \cup {-1}, cmd : Commands]

(* When one client uses the generator at a time and uhal takes all its     *)
(* writes, a channel that is enabled runs exactly as some                  *)
(* enable_periodic_fl_cmd asked: no send, no failure in the middle of one  *)
(* and no call for another channel leaves it running with other settings.  *)
EnabledRunsAsAsked ==
  \A k \in Channels :
    ctrl[k].en => \E r \in Requests :
                    r.op = "enable" /\ r.chan = k /\ ctrl[k] = Periodic(r)

(* Under the same conditions a call changes the settings of no channel but *)
(* its own, although the channels share one set of registers.              *)
OnlyTheAskedChannel ==
  [][\A k \in Channels : ctrl'[k] # ctrl[k] =>
       \E c \in Clients : pc[c] # "idle" /\ req[c].chan = k]_vars

(* When one client uses the generator at a time, the command that          *)
(* send_fl_cmd forces out is the one asked for, on the channel asked for,  *)
(* although the channel is selected in an earlier dispatch.                *)
ForcedAsAsked ==
  \A c \in Clients :
    pc[c] \in {"release", "log"} =>
      forced = [chan |-> req[c].chan, cmd |-> req[c].cmd]

(* A periodic command that was accepted runs at the rate, of all rates the *)
(* generator has, that is nearest to the one asked for.                    *)
Nearest ==
  \A c \in Clients :
    pc[c] = "idle" /\ out[c] = "ok" /\ req[c].op = "enable" =>
      LET s == ctrl[req[c].chan]
          off == Distance(Period(s.d, s.p), req[c].period)
      IN  \A d \in 0 .. DivisorMax, p \in 1 .. PrescaleMax :
            off <= Distance(Period(d, p), req[c].period)

(* A rate is called out of range only if it is: every period the generator *)
(* has is off by at least half a step of its coarsest prescale, or the     *)
(* period asked for is zero.                                               *)
RefusedOutOfReach ==
  \A c \in Clients :
    out[c] = "bad_rate" =>
      \/ req[c].period = 0
      \/ \A d \in 0 .. DivisorMax, p \in 1 .. PrescaleMax :
           Distance(Period(d, p), req[c].period) >= 2 ^ DivisorMax

(* enable_periodic_fl_cmd runs a command at the nearest rate or, if none   *)
(* is near, refuses it.                                                    *)
NearestRate == Nearest /\ RefusedOutOfReach
=============================================================================
