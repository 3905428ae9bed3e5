----------------------------- MODULE TLUIONode -----------------------------
(***************************************************************************)
(* The reset of a TLU and the thresholds of its inputs: TLUIONode, with    *)
(* the chips it drives, I2CExpanderSlave and DACSlave.  A call is a list of*)
(* writes, one after the other; a failure in one ends it, and leaves the   *)
(* hardware as the writes before have set it.                              *)
(***************************************************************************)
EXTENDS NodeCalls

(* What callers ask of the board: TLUIONode and SIMIONode have no other    *)
(* call that writes.                                                       *)
TluOps == {"reset", "configure_dac"}

ASSUME TluAssumption == \A c \in Callers : \A r \in Asks["tlu"][c] : r.op \in TluOps

VARIABLES
  todo,       \* per caller: the writes its call has still to make
  pll_page,   \* the page register of the clock chip
  chips       \* what the registers hold that have been written

tluVars == <<todo, pll_page, chips>>

TluInit ==
  /\ todo = [c \in Callers |-> <<>>]
  /\ pll_page = 0
  /\ chips = <<>>

Write(chip, reg, vals) == [to |-> "chip", chip |-> chip, reg |-> reg, vals |-> vals]
Pulse(lines) == [to |-> "lines", lines |-> lines]
Configure == [to |-> "pll"]

(* I2CExpanderSlave: inversion, direction and outputs of a bank of pins.   *)
Bank(expander, bank, outputs) ==
  << Write(expander, 4 + bank, <<0>>), Write(expander, 6 + bank, <<0>>),
     Write(expander, 2 + bank, <<outputs>>) >>

(* DACSlave: the reference, then the value of a channel.                   *)
Reference(dac, internal) == << Write(dac, 56, <<0, internal>>) >>
Value(dac, code) == << Write(dac, 24 + 7, <<code \div 256, code % 256>>) >>

(* configure_dac refuses a DAC there is none of before it does anything,   *)
(* and a value of more than 16 bits, here the write of "none", after it    *)
(* has set the reference.                                                  *)
DacValues == 0 .. 65535

ConfigureDac(id, code, internal) ==
  LET dac == IF id = 0 THEN "DAC1" ELSE "DAC2"
  IN  CASE id \notin 0 .. 1    -> << [to |-> "InvalidDACId"] >>
        [] code \in DacValues -> Reference(dac, internal) \o Value(dac, code)
        [] OTHER -> Reference(dac, internal) \o << [to |-> "DACValueOutOfRange"] >>

(* BI signals are NIM.                                                     *)
BiThreshold == 22685

(* Mutant of Reset: the clock chip is reset when it is configured.         *)
ResetPllLate ==
  << Pulse({"soft_rst"}), Write("AX3_Switch", 1, <<127>>), Configure,
     Write("PLL", 275, <<9, 51>>), Pulse({"pll_rst", "rst_i2c"}), Pulse({"rst"}) >>
  \o Bank("Expander1", 0, 0)   \o Bank("Expander1", 1, 136)
  \o Bank("Expander2", 0, 240) \o Bank("Expander2", 1, 240)
  \o ConfigureDac(0, BiThreshold, 0) \o ConfigureDac(1, BiThreshold, 0)

(* TLUIONode::reset.                                                       *)
Reset ==
  << Pulse({"soft_rst"}), Pulse({"pll_rst", "rst_i2c"}),
     Write("AX3_Switch", 1, <<127>>), Configure, Write("PLL", 275, <<9, 51>>),
     Pulse({"rst"}) >>
  \o Bank("Expander1", 0, 0)   \o Bank("Expander1", 1, 136)
  \o Bank("Expander2", 0, 240) \o Bank("Expander2", 1, 240)
  \o ConfigureDac(0, BiThreshold, 0) \o ConfigureDac(1, BiThreshold, 0)

(* SIMIONode::reset is a soft reset; its other calls do nothing.           *)
Writes(r) == CASE r.op = "reset" /\ r.board = "tlu" -> Reset
               [] r.op = "reset" /\ r.board = "sim" -> << Pulse({"soft_rst"}) >>
               [] r.op = "configure_dac" -> ConfigureDac(r.id, r.code, r.internal)

TluCall(c, r) ==
  /\ node = "tlu"
  /\ Begin(c, r, "tlu_write")
  /\ todo' = [todo EXCEPT ![c] = Writes(r)]
  /\ UNCHANGED <<pll_page, chips>>

(* The registers once a chip has taken vals from register reg on.          *)
Holding(chip, reg, vals) ==
  LET taken == {<<chip, reg + i - 1>> : i \in DOMAIN vals}
  IN  [k \in taken \cup DOMAIN chips |-> IF k \in taken THEN vals[k[2] - reg + 1] ELSE chips[k]]

(* A register of the clock chip lies on a page, and write_i2cArray sends   *)
(* the low byte of the address only: what is written is the register of    *)
(* that number on the page selected before.                                *)
WrittenAt(w) == IF w.chip = "PLL" THEN (256 * pll_page) + (w.reg % 256) ELSE w.reg

ToChip(w) ==
  /\ w.to = "chip"
  /\ chips' = Holding(w.chip, WrittenAt(w), w.vals)
  /\ UNCHANGED pll_page

(* Both edges of all the lines go out in one dispatch; a reset of the      *)
(* clock chip takes its registers back.                                    *)
ToLines(w) ==
  /\ w.to = "lines"
  /\ IF "pll_rst" \in w.lines
     THEN /\ pll_page' = 0
          /\ chips' = [k \in {j \in DOMAIN chips : j[1] # "PLL"} |-> chips[k]]
     ELSE UNCHANGED <<pll_page, chips>>

(* configure_pll writes the registers of the file, of which those are kept *)
(* here that the calls write too, or seem to, and reads the design id last,*)
(* which selects page 2.  The upload itself is one step: ClockChip has its *)
(* writes one by one.                                                      *)
ClockRegisters ==
  [i \in {275, 276, 531, 532} |-> CASE i = 275 -> 9 [] i = 276 -> 51 [] OTHER -> 0]

ToPll(w) ==
  /\ w.to = "pll"
  /\ pll_page' = 2
  /\ LET configured == {<<"PLL", i>> : i \in DOMAIN ClockRegisters}
     IN  chips' = [k \in configured \cup DOMAIN chips |->
                     IF k \in configured THEN ClockRegisters[k[2]] ELSE chips[k]]

TluWrite(c) ==
  /\ at[c] = "tlu_write"
  /\ LET w == Head(todo[c]) IN ToChip(w) \/ ToLines(w) \/ ToPll(w)
  /\ todo' = [todo EXCEPT ![c] = Tail(@)]
  /\ GoOn(c, IF Len(todo[c]) = 1 THEN "idle" ELSE "tlu_write")

(* A value the DAC has no room for, or a DAC there is none of.             *)
TluRefuses(c) ==
  /\ at[c] = "tlu_write"
  /\ Head(todo[c]).to \in {"InvalidDACId", "DACValueOutOfRange"}
  /\ Fail(c, Head(todo[c]).to)
  /\ UNCHANGED tluVars

(* A failure of the AX3 switch is reported as a warning, and the reset     *)
(* goes on.                                                                *)
SwitchFailsQuietly(c) ==
  /\ at[c] = "tlu_write"
  /\ Head(todo[c]).to = "chip" /\ Head(todo[c]).chip = "AX3_Switch"
  /\ todo' = [todo EXCEPT ![c] = Tail(@)]
  /\ GoOn(c, "tlu_write")
  /\ UNCHANGED <<pll_page, chips>>

(* Any other failure ends the call.  One in the clock chip may leave it    *)
(* with any page selected.                                                 *)
TluFails(c) ==
  /\ node = "tlu" /\ at[c] = "tlu_write"
  /\ ~(Head(todo[c]).to = "chip" /\ Head(todo[c]).chip = "AX3_Switch")
  /\ IF Head(todo[c]).to = "pll" THEN pll_page' \in {0, 1, 2} ELSE UNCHANGED pll_page
  /\ DispatchFails(c)
  /\ todo' = [todo EXCEPT ![c] = <<>>]
  /\ UNCHANGED chips

TluStep(c) == TluWrite(c) \/ TluRefuses(c) \/ SwitchFailsQuietly(c)

TluNext ==
  \E c \in Callers : (\E r \in Asks[node][c] : TluCall(c, r)) \/ TluStep(c) \/ TluFails(c)

TluSpec == CallsInit({"tlu"}) /\ TluInit /\ [][TluNext]_<<callerVars, tluVars>>

-----------------------------------------------------------------------------
(* The last call of c was a reset of the board that returned and that no   *)
(* other call overlapped.                                                  *)
HasReset(c) ==
  asks[c].op = "reset" /\ asks[c].board = "tlu" /\ fate[c] = "ok" /\ alone[c]

(* The calls that have not been followed by another of their caller are    *)
(* all resets that returned.                                               *)
BoardIsReset ==
  /\ node = "tlu"
  /\ \A c \in Callers : at[c] = "idle" /\ (asks[c] = NoCall \/ HasReset(c))
  /\ \E c \in Callers : HasReset(c)

(* After a reset that returned, the clock chip has its configuration, the  *)
(* expanders drive their outputs and both thresholds are set, whatever     *)
(* calls have failed half-way before and whatever page of the clock chip   *)
(* or reference of a DAC they have left selected.                          *)
ResetConverges ==
  BoardIsReset =>
    /\ \A e \in {"Expander1", "Expander2"}, r \in 4 .. 7 : chips[<<e, r>>] = 0
    /\ chips[<<"Expander1", 2>>] = 0   /\ chips[<<"Expander1", 3>>] = 136
    /\ chips[<<"Expander2", 2>>] = 240 /\ chips[<<"Expander2", 3>>] = 240
    /\ \A d \in {"DAC1", "DAC2"} :
         /\ 256 * chips[<<d, 31>>] + chips[<<d, 32>>] = BiThreshold
         /\ chips[<<d, 57>>] = 0
    /\ \A i \in {275, 276} : <<"PLL", i>> \in DOMAIN chips /\ chips[<<"PLL", i>>] = ClockRegisters[i]

(* "Tweak the PLL swing", TLUIONode.cpp:79: a reset that returned has      *)
(* changed the swing of an output, in the registers 0x113 and 0x114, and   *)
(* left the others as the file has them.                                   *)
OnlySwingTweaked ==
  BoardIsReset =>
    \A i \in {531, 532} : chips[<<"PLL", i>>] = ClockRegisters[i]
=============================================================================
