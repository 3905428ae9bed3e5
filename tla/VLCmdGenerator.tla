--------------------------- MODULE VLCmdGenerator ---------------------------
(***************************************************************************)
(* The generator of variable length commands: VLCmdGeneratorNode.  Its     *)
(* registers csr.ctrl describe one command for one endpoint; writing 1 to  *)
(* go sends what they hold.                                                *)
(***************************************************************************)
EXTENDS NodeCalls

VARIABLES
  ctrl_vl,  \* csr.ctrl without go
  sent      \* per caller: the commands its call has sent

vlVars == <<ctrl_vl, sent>>

Reset_ctrl == [addr |-> 0, tx_en |-> 0, cdel |-> 0, fdel |-> 0, pdel |-> 0,
               update |-> 0]

VLInit ==
  /\ ctrl_vl = Reset_ctrl
  /\ sent = [c \in Callers |-> <<>>]

VLCall(c, r) ==
  /\ node = "vl"
  /\ Begin(c, r, "vl_reset")
  /\ sent' = [sent EXCEPT ![c] = <<>>]
  /\ UNCHANGED ctrl_vl

(* Mutant of ResetSubNodes: the update bit is forgotten.                   *)
ResetSubNodesNotUpdate(regs) == [Reset_ctrl EXCEPT !.update = regs.update]

(* TimingNode::reset_sub_nodes writes the same value to all sub-nodes.     *)
ResetSubNodes(regs) == Reset_ctrl

(* Both calls reset all fields first.  apply_endpoint_delay passes false   *)
(* for "no dispatch", but as the second argument, which is the value to    *)
(* write: so it dispatches, like switch_endpoint_sfp.                      *)
VLReset(c) ==
  /\ at[c] = "vl_reset"
  /\ ctrl_vl' = ResetSubNodes(ctrl_vl)
  /\ GoOn(c, "vl_go")
  /\ UNCHANGED sent

Sends(c) == sent' = [sent EXCEPT ![c] = Append(@, ctrl_vl')]

(* switch_endpoint_sfp writes two fields and sends the command: the others *)
(* are whatever they are by now.                                           *)
GoSwitch(c) ==
  /\ at[c] = "vl_go" /\ asks[c].op = "switch_endpoint_sfp"
  /\ ctrl_vl' = [ctrl_vl EXCEPT !.addr = asks[c].addr,
                                !.tx_en = IF asks[c].enable THEN 1 ELSE 0]
  /\ Sends(c)
  /\ GoOn(c, "idle")

(* apply_endpoint_delay writes every field and sends the command.          *)
GoDelay(c) ==
  /\ at[c] = "vl_go" /\ asks[c].op = "apply_endpoint_delay"
  /\ ctrl_vl' = [ctrl_vl EXCEPT !.tx_en = 0, !.addr = asks[c].addr,
                                !.cdel = asks[c].cdel, !.fdel = asks[c].fdel,
                                !.pdel = asks[c].pdel, !.update = 1]
  /\ Sends(c)
  /\ GoOn(c, "idle")

VLFails(c) == node = "vl" /\ DispatchFails(c) /\ UNCHANGED vlVars

VLStep(c) == VLReset(c) \/ GoSwitch(c) \/ GoDelay(c)

VLNext ==
  \E c \in Callers :
    \/ \E r \in Asks[node][c] : VLCall(c, r)
    \/ VLStep(c)
    \/ VLFails(c)

VLSpec == CallsInit({"vl"}) /\ VLInit /\ [][VLNext]_<<callerVars, vlVars>>

-----------------------------------------------------------------------------
(* What a call asks the endpoint to do.                                    *)
Command(r) ==
  IF r.op = "switch_endpoint_sfp"
  THEN [Reset_ctrl EXCEPT !.addr = r.addr, !.tx_en = IF r.enable THEN 1 ELSE 0]
  ELSE [addr |-> r.addr, tx_en |-> 0, cdel |-> r.cdel, fdel |-> r.fdel,
        pdel |-> r.pdel, update |-> 1]

(* A call sends at most one command.  The command of a call for delays is  *)
(* the one asked for whatever other callers do; that of a switch of a      *)
(* laser carries nothing an earlier call, finished or failed half-way, has *)
(* left in the registers, unless another call overlaps: then its delays    *)
(* may go out with the address and laser of this one (the code has no lock *)
(* between its two dispatches).                                            *)
CommandAsAsked ==
  \A c \in Callers :
    sent[c] # <<>> =>
      /\ Len(sent[c]) = 1
      /\ sent[c][1].addr = asks[c].addr
      /\ alone[c] \/ asks[c].op = "apply_endpoint_delay" =>
           sent[c][1] = Command(asks[c])
=============================================================================
