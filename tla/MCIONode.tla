------------------------------ MODULE MCIONode ------------------------------
(***************************************************************************)
(* Instances of IONode for TLC: the SFPs with the lowest and the highest   *)
(* ids, an empty cage, and an id that the board does not have.             *)
(***************************************************************************)
EXTENDS IONode

AllBoards == {"MIB", "GIB", "PC059", "FIB", "MIBV2", "FMC"}
GibOnly == {"GIB"}

OutermostFitted ==
  [b \in AllBoards |->
     CASE b = "GIB" -> {0, 5} [] b = "PC059" -> {0, 2} [] b = "FIB" -> {0, 7}
       [] b = "FMC" -> {0} [] OTHER -> {0, 2}]

Plain(ops) == [op : ops, sfp : {0}, on : {FALSE}]
OnSfp(ids) == [op : {"status"}, sfp : ids, on : {FALSE}] \cup [op : {"tx"}, sfp : ids, on : BOOLEAN]

(* Where the MIB has its UID the repository does not say.                  *)
AllRequests ==
  [b \in AllBoards |->
     Plain({"pll", "reset", "configure"})
       \cup (IF b = "MIB" THEN {} ELSE Plain({"uid"}))
       \cup (IF b = "FIB" THEN [op : {"pin"}, sfp : {0, 7, 8}, on : BOOLEAN] ELSE {})
       \cup OnSfp(CASE b = "GIB" -> {0, 1, 5, 6} [] b = "PC059" -> {0, 1, 2, 8, 9}
                    [] b = "FIB" -> {0, 7, 8} [] b = "FMC" -> {0, 1} [] OTHER -> {0, 1, 2, 3})]
=============================================================================
