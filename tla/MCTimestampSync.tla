-------------------------- MODULE MCTimestampSync --------------------------
(***************************************************************************)
(* Instances of TimestampSync for TLC.                                     *)
(***************************************************************************)
EXTENDS TimestampSync

CONSTANTS c1, c2

TwoClients == {c1, c2}

(* With registers of two bits, 2 and 13 differ in both halves.             *)
TwoTimes == {2, 13}

(* A set is a sync without its last step.                                  *)
AllRequests == [op : {"sync"}, source : Sources]
                 \cup {[op |-> o, source |-> "software"] : o \in {"set", "on", "off"}}
=============================================================================
