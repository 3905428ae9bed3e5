---------------------------- MODULE EventStream ----------------------------
(***************************************************************************)
(* What the readout of the hardware signal interface promises: the events  *)
(* are numbered from 0 in the order in which they were recorded, each read *)
(* delivers the next few complete ones, and events are lost only when the  *)
(* buffer is flushed.                                                      *)
(***************************************************************************)
EXTENDS Integers

VARIABLES
  recorded,   \* how many events the firmware has recorded completely
  next        \* the number of the event the next read starts with

streamVars == <<recorded, next>>

EInit == recorded = 0 /\ next = 0

(* The firmware completes an event, or begins a new stream at the event    *)
(* after it when the incomplete one is flushed away.                       *)
Record ==
  /\ recorded' = recorded + 1
  /\ UNCHANGED next

(* A read delivers k complete events.                                      *)
Deliver ==
  /\ \E k \in 1 .. recorded - next : next' = next + k
  /\ UNCHANGED recorded

(* A reset drops what is recorded and not delivered, and an event that is  *)
(* just being recorded.                                                    *)
Flush ==
  /\ recorded' \in {recorded, recorded + 1}
  /\ next' = recorded'

ENext == Record \/ Deliver \/ Flush

ESpec == EInit /\ [][ENext]_streamVars
=============================================================================
