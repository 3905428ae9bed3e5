---------------------------- MODULE MCHSIReadout ----------------------------
(***************************************************************************)
(* Instances of HSIReadout for TLC.                                        *)
(***************************************************************************)
EXTENDS HSIReadout

CONSTANTS c1, c2, zero, other

TwoClients == {c1, c2}
TwoConfigs == {zero, other}

Read(all, fail) == [op |-> "read", all |-> all, fail |-> fail, cfg |-> zero, period |-> 0]
Conf(s, x) == [op |-> "configure", all |-> FALSE, fail |-> FALSE, cfg |-> s, period |-> x]
Plain(op) == [op |-> op, all |-> FALSE, fail |-> FALSE, cfg |-> zero, period |-> 0]

(* c1 reads events and resets; c2 starts, stops and configures at any time *)
(* in between.  The periods: two that can be programmed, with different    *)
(* divisor and prescale, one with prescale 256, and one out of range.      *)
ReaderAndOperator ==
  [c \in TwoClients |->
    IF c = c1
    THEN {Read(FALSE, FALSE), Read(FALSE, TRUE), Plain("reset")}
    ELSE {Plain("start"), Plain("stop"),
          Conf(other, 20), Conf(zero, 700), Conf(other, 512), Conf(other, 0)}]
=============================================================================
