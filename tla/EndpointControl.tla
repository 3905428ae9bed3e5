-------------------------- MODULE EndpointControl --------------------------
(***************************************************************************)
(* The receiving end of the timing stream as software sees it: EndpointNode*)
(* and EndpointNodeInterface, CRTNode, and the command counters of the     *)
(* master, MasterGlobalNode.  A timestamp is two words that change while   *)
(* the registers are read; a counter counts commands while it is reset.    *)
(***************************************************************************)
EXTENDS NodeCalls

CONSTANTS
  Word,      \* one more than a word of a timestamp holds, 2^32 in the code
  LastTime,  \* bounds the timestamp
  LastCount  \* bounds the counters

VARIABLES
  ep_ctrl,   \* csr.ctrl of the endpoint: ep_en and addr
  ep_stat,   \* its state, from endpoint_state_map
  crt,       \* tgrp, cmd and en of the CRT
  tstamp,    \* the timestamp of the endpoint, or of the last pulse of the CRT
  cmd_ctrs,  \* commands counted by the endpoint or the master
  heard,     \* per caller: commands that arrived since its call, a reset
  since,     \* per caller: the timestamp at its call, one that reads
  shown      \* per caller: what its call has read

epVars == <<ep_ctrl, ep_stat, crt, tstamp, cmd_ctrs, heard, since, shown>>

(* States of the endpoint that behave differently: standing by, one that   *)
(* waits, ready and one of the errors.                                     *)
StandingBy == 0
Waiting == 4
Ready == 8
ProtocolError == 15
NothingShown == [state |-> -1]

Joined(l, h) == l + Word * h

EndpointInit ==
  /\ ep_ctrl = [en |-> 0, addr |-> 0]
  /\ ep_stat = StandingBy
  /\ crt = [tgrp |-> 0, cmd |-> 0, en |-> 0]
  /\ tstamp = 0
  /\ cmd_ctrs = 0
  /\ heard = [c \in Callers |-> 0]
  /\ since = [c \in Callers |-> 0]
  /\ shown = [c \in Callers |-> NothingShown]

Reads == {"get_info", "get_status", "read_timestamp", "endpoint_ready",
          "read_endpoint_state", "read_last_pulse_timestamp"}

Resets == {"reset", "reset_command_counters"}

(* The first dispatch of the other calls, by node and operation.           *)
FirstDispatch ==
  [ep     |-> [reset |-> "ep_reset", enable |-> "ep_enable", disable |-> "ep_disable"],
   crt    |-> [reset |-> "crt_enable", enable |-> "crt_enable", disable |-> "crt_disable"],
   global |-> [reset_command_counters |-> "clear_counters"]]

ASSUME EndpointAssumption ==
  /\ Word \in Nat \ {0} /\ LastTime \in Nat /\ LastCount \in Nat
  /\ \A n \in {"ep", "crt", "global"}, c \in Callers : \A r \in Asks[n][c] :
       r.op \in Reads \cup DOMAIN FirstDispatch[n]

EndpointCall(c, r) ==
  /\ node \in {"ep", "crt", "global"}
  /\ Begin(c, r, IF r.op \in Reads THEN "read" ELSE FirstDispatch[node][r.op])
  /\ heard' = [heard EXCEPT ![c] = IF r.op \in Resets THEN 0 ELSE LastCount]
  /\ since' = [since EXCEPT ![c] = IF r.op \in Reads THEN tstamp ELSE 0]
  /\ shown' = [shown EXCEPT ![c] = NothingShown]
  /\ UNCHANGED <<ep_ctrl, ep_stat, crt, tstamp, cmd_ctrs>>

(* Mutant of ResetEndpoint: the counters are left alone.                   *)
ResetEndpointNotCounters(c) ==
  /\ at[c] = "ep_reset"
  /\ ep_ctrl' = [ep_ctrl EXCEPT !.en = 0]
  /\ ep_stat' = StandingBy
  /\ GoOn(c, "ep_enable")
  /\ UNCHANGED <<crt, tstamp, cmd_ctrs, heard, since, shown>>

(* reset takes the endpoint down and clears its counters, in one dispatch, *)
(* and goes on like enable.                                                *)
ResetEndpoint(c) ==
  /\ at[c] = "ep_reset"
  /\ ep_ctrl' = [ep_ctrl EXCEPT !.en = 0]
  /\ ep_stat' = StandingBy
  /\ cmd_ctrs' = 0
  /\ GoOn(c, "ep_enable")
  /\ UNCHANGED <<crt, tstamp, heard, since, shown>>

(* enable writes the address and the enable bit in one dispatch.           *)
EnableEndpoint(c) ==
  /\ at[c] = "ep_enable" /\ asks[c].addr < 2 ^ 16
  /\ ep_ctrl' = [en |-> 1, addr |-> asks[c].addr]
  /\ GoOn(c, "counters_ready")
  /\ UNCHANGED <<ep_stat, crt, tstamp, cmd_ctrs, heard, since, shown>>

(* uhal refuses an address of more than 16 bits, after reset has taken the *)
(* endpoint down.                                                          *)
AddressRefused(c) ==
  /\ at[c] = "ep_enable" /\ asks[c].addr >= 2 ^ 16
  /\ Fail(c, "bus_mask")
  /\ UNCHANGED epVars

(* Mutant of CountersPolled: the poll has no timeout.                      *)
CountersPolledUntilReady(c) ==
  /\ at[c] = "counters_ready" /\ ep_stat = Ready
  /\ GoOn(c, "idle")
  /\ UNCHANGED epVars

(* The counters are polled until they are ready or the time is over, which *)
(* is only reported.                                                       *)
CountersPolled(c) ==
  /\ at[c] = "counters_ready"
  /\ GoOn(c, "idle")
  /\ UNCHANGED epVars

DisableEndpoint(c) ==
  /\ at[c] = "ep_disable"
  /\ ep_ctrl' = [ep_ctrl EXCEPT !.en = 0]
  /\ ep_stat' = StandingBy
  /\ GoOn(c, "idle")
  /\ UNCHANGED <<crt, tstamp, cmd_ctrs, heard, since, shown>>

(* reset_command_counters of the master.                                   *)
ClearCounters(c) ==
  /\ at[c] = "clear_counters"
  /\ cmd_ctrs' = 0
  /\ GoOn(c, "counters_ready")
  /\ UNCHANGED <<ep_ctrl, ep_stat, crt, tstamp, heard, since, shown>>

(* The CRT has no reset of its own: reset disables and enables it in one   *)
(* dispatch.  Without a command the one of an earlier call stays.          *)
EnableCRT(c) ==
  /\ at[c] = "crt_enable"
  /\ crt' = [tgrp |-> asks[c].partition, en |-> 1,
             cmd |-> IF asks[c].command = -1 THEN crt.cmd ELSE asks[c].command]
  /\ GoOn(c, "idle")
  /\ UNCHANGED <<ep_ctrl, ep_stat, tstamp, cmd_ctrs, heard, since, shown>>

DisableCRT(c) ==
  /\ at[c] = "crt_disable"
  /\ crt' = [crt EXCEPT !.en = 0]
  /\ GoOn(c, "idle")
  /\ UNCHANGED <<ep_ctrl, ep_stat, tstamp, cmd_ctrs, heard, since, shown>>

(* Mutant of Snapshot: control registers and the high word of the          *)
(* timestamp are read in a second dispatch.                                *)
SnapshotTwice(c) ==
  /\ \/ /\ at[c] = "read"
        /\ shown' = [shown EXCEPT ![c] = [state |-> ep_stat, ready |-> ep_stat = Ready,
                                          en |-> -1, addr |-> -1, ts |-> tstamp % Word]]
        /\ GoOn(c, "read_rest")
     \/ /\ at[c] = "read_rest"
        /\ shown' = [shown EXCEPT ![c].en = ep_ctrl.en, ![c].addr = ep_ctrl.addr,
                                  ![c].ts = Joined(@, tstamp \div Word)]
        /\ GoOn(c, "idle")
  /\ UNCHANGED <<ep_ctrl, ep_stat, crt, tstamp, cmd_ctrs, heard, since>>

(* Whatever a call reads it reads in one dispatch; calls differ in what    *)
(* they return of it.                                                      *)
Snapshot(c) ==
  /\ at[c] = "read"
  /\ shown' = [shown EXCEPT ![c] = [state |-> ep_stat, ready |-> ep_stat = Ready,
                                    en |-> ep_ctrl.en, addr |-> ep_ctrl.addr,
                                    ts |-> Joined(tstamp % Word, tstamp \div Word)]]
  /\ GoOn(c, "idle")
  /\ UNCHANGED <<ep_ctrl, ep_stat, crt, tstamp, cmd_ctrs, heard, since>>

EndpointFails(c) ==
  node \in {"ep", "crt", "global"} /\ DispatchFails(c) /\ UNCHANGED epVars

-----------------------------------------------------------------------------
(* An endpoint that is enabled makes its way to ready, and out of it.      *)
EndpointAdvances ==
  /\ ep_ctrl.en = 1
  /\ ep_stat' = CASE ep_stat = StandingBy -> Waiting
                  [] ep_stat = Waiting    -> Ready
                  [] OTHER                -> ProtocolError
  /\ UNCHANGED <<callerVars, ep_ctrl, crt, tstamp, cmd_ctrs, heard, since, shown>>

(* Time passes at the endpoint, or the CRT sends another pulse.            *)
Tick ==
  /\ tstamp < LastTime
  /\ node = "ep" \/ (node = "crt" /\ crt.en = 1)
  /\ tstamp' = tstamp + 1
  /\ UNCHANGED <<callerVars, ep_ctrl, ep_stat, crt, cmd_ctrs, heard, since, shown>>

(* The endpoint receives, or the master sends, a command.                  *)
CommandCounted ==
  /\ (node = "ep" /\ ep_stat = Ready) \/ node = "global"
  /\ cmd_ctrs < LastCount
  /\ cmd_ctrs' = cmd_ctrs + 1
  /\ heard' = [c \in Callers |-> IF heard[c] < LastCount THEN heard[c] + 1 ELSE LastCount]
  /\ UNCHANGED <<callerVars, ep_ctrl, ep_stat, crt, tstamp, since, shown>>

EndpointStep(c) ==
  \/ ResetEndpoint(c) \/ EnableEndpoint(c) \/ AddressRefused(c)
  \/ CountersPolled(c) \/ DisableEndpoint(c) \/ ClearCounters(c)
  \/ EnableCRT(c) \/ DisableCRT(c) \/ Snapshot(c)

EndpointNext ==
  \/ \E c \in Callers :
       (\E r \in Asks[node][c] : EndpointCall(c, r)) \/ EndpointStep(c) \/ EndpointFails(c)
  \/ EndpointAdvances \/ Tick \/ CommandCounted

EndpointSpec ==
  /\ CallsInit({"ep", "crt", "global"}) /\ EndpointInit
  /\ [][EndpointNext]_<<callerVars, epVars>>

-----------------------------------------------------------------------------
(* What get_info and get_status report was true at one moment of the call, *)
(* whatever other callers and the firmware do meanwhile: an endpoint that  *)
(* is reported ready is in the ready state and enabled, one that is        *)
(* reported disabled stands by, and a timestamp, also the one of the last  *)
(* pulse of the CRT, is not put together from the words of two.            *)
ReportsOneMoment ==
  \A c \in Callers :
    at[c] = "idle" /\ shown[c] # NothingShown =>
      /\ shown[c].ready => shown[c].state = Ready /\ shown[c].en = 1
      /\ shown[c].en = 0 => shown[c].state = StandingBy
      /\ since[c] <= shown[c].ts /\ shown[c].ts <= tstamp

(* Once a call has reset the counters of an endpoint or of the master,     *)
(* they hold commands only that arrived since the call was made, even when *)
(* the endpoint receives while it is reset or another caller enables it    *)
(* between the two dispatches of the reset.                                *)
CountersStartOver ==
  \A c \in Callers :
    /\ \/ at[c] \in {"ep_enable", "counters_ready"}
       \/ at[c] = "idle" /\ fate[c] \in {"ok", "bus_mask"}
    /\ node \in {"ep", "global"}
    /\ asks[c].op \in Resets
    => cmd_ctrs <= heard[c]
=============================================================================
