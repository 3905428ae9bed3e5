---------------------------- MODULE RegisterFile ----------------------------
(***************************************************************************)
(* What the I2C master promises a caller that has the bus to itself: chips *)
(* are files of registers.  A write changes the registers it names, in     *)
(* order, all of them when it returns and the first few when it fails; a   *)
(* read returns what the registers hold and changes none.                  *)
(***************************************************************************)
EXTENDS Integers, Sequences

CONSTANTS Devices, RegCount

VARIABLES
  regs,   \* per chip: its registers
  call,   \* what the running or last call asks for
  busy,   \* is a call running?
  done,   \* how many bytes the call has written
  out,    \* how the last call ended
  got     \* what the last read returned

fileVars == <<regs, call, busy, done, out, got>>

Nth(r, i) == (r.reg + i - 1) % RegCount

Begin ==
  /\ ~busy /\ busy'
  /\ done' = 0
  /\ UNCHANGED regs

(* One more byte of a write reaches its register, the last one perhaps     *)
(* just after the call has failed.                                         *)
Put ==
  /\ busy \/ out # "ok"
  /\ call.op = "write" /\ call.addr \in Devices
  /\ done < Len(call.data)
  /\ done' = done + 1
  /\ regs' = [regs EXCEPT ![call.addr][Nth(call, done')] = call.data[done']]
  /\ UNCHANGED <<call, busy, out, got>>

(* A call returns only with its whole effect ...                           *)
Return ==
  /\ busy /\ ~busy' /\ out' = "ok"
  /\ call.op = "write" => done = Len(call.data)
  /\ call.op = "read" =>
       /\ call.addr \in Devices
       /\ got' = [i \in 1 .. call.n |-> regs[call.addr][Nth(call, i)]]
  /\ UNCHANGED <<regs, call, done>>

(* ... and may fail with any part of it.                                   *)
Throw ==
  /\ busy /\ ~busy' /\ out' # "ok"
  /\ UNCHANGED <<regs, call, done>>

(* Between the two, reads collect what they will return.                   *)
Collect == busy /\ UNCHANGED <<regs, call, busy, done, out>>

FInit == ~busy /\ done = 0

FNext == Begin \/ Put \/ Return \/ Throw \/ Collect

FSpec == FInit /\ [][FNext]_fileVars
=============================================================================
