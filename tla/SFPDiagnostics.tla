--------------------------- MODULE SFPDiagnostics ---------------------------
(***************************************************************************)
(* The status of an SFP: I2CSFPSlave::get_status, a table that is read     *)
(* from the SFP in some sixty transactions on the I2C bus while the SFP    *)
(* may be pulled, replaced, or its laser switched by another caller.  A    *)
(* measured quantity is a raw value and a pair of calibration constants,   *)
(* each at an address of its own.  A step is a transaction, with the ping  *)
(* that sfp_reachable makes before it.                                     *)
(***************************************************************************)
EXTENDS NodeCalls

CONSTANTS
  SFPs,  \* the SFPs there are: name, ddm, swap, soft, pin, raw, cal and rx
  Byte   \* one more than a byte holds, 256 in the code

NoSFP == [name |-> "none"]

Quantities == <<"Temperature", "Voltage", "RxPower", "TxPower", "Current">>
StraightLines == {"Temperature", "Voltage", "TxPower", "Current"}

(* What an SFP holds: a raw value of two bytes for each quantity; a slope  *)
(* and an offset, of two bytes each, for those that have a straight line;  *)
(* five parameters for the received power.                                 *)
IsSFP(m) ==
  /\ m # NoSFP
  /\ m.ddm \in BOOLEAN /\ m.swap \in BOOLEAN /\ m.soft \in BOOLEAN
  /\ m.raw \in [StraightLines \cup {"RxPower"} -> [1 .. 2 -> 0 .. Byte - 1]]
  /\ m.cal \in [StraightLines -> [1 .. 4 -> 0 .. Byte - 1]]
  /\ DOMAIN m.rx = 0 .. 4

ASSUME SFPAssumption ==
  /\ Byte \in Nat /\ Byte % 2 = 0
  /\ SFPs # {} /\ \A m \in SFPs : IsSFP(m)
  /\ \A c \in Callers : \A r \in Asks["sfp"][c] :
       r.op \in {"get_status", "switch_soft_tx_control_bit"}

VARIABLES
  cage,    \* the SFP in the cage, or NoSFP
  tx_dis,  \* its soft disable bit, bit 6 of register 0x6e
  reads,   \* per caller: the transactions its call has still to make
  raw,     \* per caller: the raw value it has read last
  rows,    \* per caller: the rows of its table
  met      \* per caller: the SFP its call has met, NoSFP if it was replaced

sfpVars == <<cage, tx_dis, reads, raw, rows, met>>

SFPInit ==
  /\ cage = CHOOSE m \in SFPs : TRUE
  /\ tx_dis = 0
  /\ reads = [c \in Callers |-> <<>>]
  /\ raw = [c \in Callers |-> 0]
  /\ rows = [c \in Callers |-> <<>>]
  /\ met = [c \in Callers |-> NoSFP]

-----------------------------------------------------------------------------
Do(what) == << [do |-> what] >>

(* ddm_available: the SFP measures, and needs no change of its address.    *)
DdmAvailable == Do("ddm_support") \o Do("address_swap")

(* The raw value of each quantity, and which calibration constants it has. *)
RawAddress == [Temperature |-> 96, Voltage |-> 98, Current |-> 100, TxPower |-> 102,
               RxPower |-> 104]
CalibrationId == [Current |-> 0, TxPower |-> 1, Temperature |-> 2, Voltage |-> 3]

(* Mutant of CalibrationAddress: the table is in the order of the ids of   *)
(* another version.                                                        *)
CalibrationAddressShifted(id) == << 80, 84, 88, 76 >>[id + 1]

(* m_calibration_parameter_start_addresses.                                *)
CalibrationAddress(id) == << 76, 80, 84, 88 >>[id + 1]

(* The received power is a polynomial, with the constants stored backwards.*)
RxParameterAddress(power) == 72 - (4 * power)

ReadRaw(q) == DdmAvailable \o << [do |-> "raw", q |-> q, adr |-> RawAddress[q]] >>

Measured(q) ==
  ReadRaw(q) \o DdmAvailable
    \o << [do |-> "calibrate", q |-> q, adr |-> CalibrationAddress(CalibrationId[q])] >>

RxPower ==
  ReadRaw("RxPower")
    \o [i \in 1 .. 5 |-> [do |-> "rx_parameter", power |-> i - 1,
                          adr |-> RxParameterAddress(i - 1)]]

(* get_status.                                                             *)
Status ==
  Do("vendor") \o Do("part_number") \o Do("serial_number")
    \o Do("ddm_shown") \o Do("swap_shown")
    \o Measured("Temperature") \o Measured("Voltage") \o RxPower
    \o Measured("TxPower") \o Measured("Current")
    \o Do("soft_shown") \o DdmAvailable \o Do("tx_disable_pin")

(* switch_soft_tx_control_bit, where IONode has it in full.                *)
Switch == DdmAvailable \o Do("soft_support") \o Do("control") \o Do("switch")

SFPCall(c, r) ==
  /\ node = "sfp"
  /\ Begin(c, r, "sfp_read")
  /\ reads' = [reads EXCEPT ![c] = IF r.op = "get_status" THEN Status ELSE Switch]
  /\ raw' = [raw EXCEPT ![c] = 0]
  /\ rows' = [rows EXCEPT ![c] = <<>>]
  /\ met' = [met EXCEPT ![c] = cage]
  /\ UNCHANGED <<cage, tx_dis>>

-----------------------------------------------------------------------------
(* What the memory of an SFP holds, by address.                            *)
RawBytes(m, adr) == m.raw[CHOOSE q \in DOMAIN m.raw : RawAddress[q] = adr]

CalibrationBytes(m, adr) ==
  m.cal[CASE adr = 76 -> "Current"     [] adr = 80 -> "TxPower"
          [] adr = 84 -> "Temperature" [] adr = 88 -> "Voltage"]

RxParameter(m, adr) == m.rx[CHOOSE power \in 0 .. 4 : adr = 72 - (4 * power)]

(* The raw value.  A temperature is in units of 1/Byte and has a sign: the *)
(* code takes 255 off for it, not 256, and only the lower seven bits stay. *)
RawValue(q, bytes) ==
  (Byte * (IF q = "Temperature" /\ bytes[1] >= Byte \div 2
           THEN (bytes[1] % (Byte \div 2)) - (Byte - 1)
           ELSE bytes[1]))
  + bytes[2]

(* Slope, in units of 1/Byte, and offset.  The offset is computed without  *)
(* a sign in 32 bits, so one that is negative wraps around.                *)
Slope(bytes) == (Byte * bytes[1]) + bytes[2]

Offset(bytes) ==
  LET low == (Byte * (bytes[3] % (Byte \div 2))) + bytes[4]
  IN  IF bytes[3] >= Byte \div 2 THEN (low - (Byte ^ 2 \div 2)) % Byte ^ 4 ELSE low

(* The quantity in units of 1/Byte, a temperature in 1/Byte squared.       *)
Calibrated(q, value, bytes) ==
  (value * Slope(bytes)) + (Offset(bytes) * Byte * (IF q = "Temperature" THEN Byte ELSE 1))

(* A term of the received power.                                           *)
RxTerm(m, adr, power, x) == RxParameter(m, adr) * x ^ power

Row(c, label, value) == rows' = [rows EXCEPT ![c] = Append(@, <<label, value>>)]
NoRow == UNCHANGED rows

(* The transaction t goes well with the SFP in the cage: how it continues  *)
(* the table of c.                                                         *)
Shown(c, t) ==
  CASE t.do \in {"vendor", "part_number", "serial_number"} -> Row(c, t.do, cage.name)
    [] t.do = "calibrate" ->
         Row(c, t.q, Calibrated(t.q, raw[c], CalibrationBytes(cage, t.adr)))
    [] t.do = "rx_parameter" /\ t.power = 0 -> Row(c, "RxPower", RxParameter(cage, t.adr))
    [] t.do = "rx_parameter" /\ t.power > 0 ->
         rows' = [rows EXCEPT ![c][Len(rows[c])][2] = @ + RxTerm(cage, t.adr, t.power, raw[c])]
    [] t.do = "tx_disable_bit" -> Row(c, "Tx disable bit", tx_dis)
    [] t.do = "soft_shown" /\ ~cage.soft -> Row(c, "Soft Tx disable", "unsupported")
    [] t.do = "tx_disable_pin" -> Row(c, "Tx disable pin", cage.pin)
    [] OTHER -> NoRow

(* What a call refuses: how it fails.                                      *)
Refusal(t) ==
  CASE t.do = "ddm_support" /\ ~cage.ddm   -> "SFPDDMUnsupported"
    [] t.do = "address_swap" /\ cage.swap  -> "SFPDDMI2CAddressSwapUnsupported"
    [] t.do = "soft_support" /\ ~cage.soft -> "SoftTxLaserControlUnsupported"
    [] OTHER -> "none"

(* get_status ends its table early for an SFP that cannot be measured, and *)
(* reads the soft disable bit of one that has it.                          *)
Remaining(c, t) ==
  CASE t.do = "ddm_shown" /\ ~cage.ddm   -> <<>>
    [] t.do = "swap_shown" /\ cage.swap  -> <<>>
    [] t.do = "soft_shown" /\ cage.soft  ->
         DdmAvailable \o Do("tx_disable_bit") \o Tail(reads[c])
    [] OTHER -> Tail(reads[c])

ReadSFP(c) ==
  /\ at[c] = "sfp_read" /\ cage # NoSFP
  /\ LET t == Head(reads[c]) IN
     /\ Refusal(t) = "none"
     /\ Shown(c, t)
     /\ raw' = IF t.do = "raw" THEN [raw EXCEPT ![c] = RawValue(t.q, RawBytes(cage, t.adr))] ELSE raw
     /\ tx_dis' = IF t.do = "switch" THEN (IF asks[c].turn_on THEN 0 ELSE 1) ELSE tx_dis
     /\ reads' = [reads EXCEPT ![c] = Remaining(c, t)]
     /\ GoOn(c, IF Remaining(c, t) = <<>> THEN "idle" ELSE "sfp_read")
  /\ UNCHANGED <<cage, met>>

(* What was read is lost when a call fails.                                *)
Abandons(c) ==
  /\ reads' = [reads EXCEPT ![c] = <<>>]
  /\ raw' = [raw EXCEPT ![c] = 0]
  /\ rows' = [rows EXCEPT ![c] = <<>>]
  /\ UNCHANGED <<cage, tx_dis, met>>

RefuseSFP(c) ==
  /\ at[c] = "sfp_read" /\ cage # NoSFP
  /\ Refusal(Head(reads[c])) # "none"
  /\ Fail(c, Refusal(Head(reads[c])))
  /\ Abandons(c)

(* Nobody acknowledges, neither the ping nor, if the SFP is pulled after   *)
(* it, the transaction.                                                    *)
Unreachable(c) ==
  /\ at[c] = "sfp_read" /\ cage = NoSFP
  /\ \E how \in {"SFPUnreachable", "I2CException"} : Fail(c, how)
  /\ Abandons(c)

SFPFails(c) == node = "sfp" /\ DispatchFails(c) /\ Abandons(c)

(* Somebody pulls the SFP, at most once during a call (a bound), or plugs  *)
(* one in.                                                                 *)
Replug ==
  /\ node = "sfp"
  /\ cage = NoSFP \/ \A c \in Callers : at[c] = "idle" \/ met[c] # NoSFP
  /\ cage' \in IF cage = NoSFP THEN SFPs ELSE {NoSFP}
  /\ tx_dis' = 0
  /\ met' = [c \in Callers |-> IF at[c] = "idle" THEN met[c] ELSE NoSFP]
  /\ UNCHANGED <<callerVars, reads, raw, rows>>

SFPStep(c) == ReadSFP(c) \/ RefuseSFP(c) \/ Unreachable(c)

SFPNext ==
  \/ \E c \in Callers : (\E r \in Asks[node][c] : SFPCall(c, r)) \/ SFPStep(c) \/ SFPFails(c)
  \/ Replug

SFPSpec == CallsInit({"sfp"}) /\ SFPInit /\ [][SFPNext]_<<callerVars, sfpVars>>

-----------------------------------------------------------------------------
(* The readings of an SFP, from what it measures: the polynomial for the   *)
(* received power, a straight line for the others.  The transceiver's      *)
(* standard has the offset in the units of the raw value, for temperatures *)
(* too.                                                                    *)
Polynomial(f, x) ==
  f[0] + (f[1] * x ^ 1) + (f[2] * x ^ 2) + (f[3] * x ^ 3) + (f[4] * x ^ 4)

Reading(m, q) ==
  LET x == (Byte * m.raw[q][1]) + m.raw[q][2]
  IN  IF q = "RxPower" THEN Polynomial(m.rx, x)
      ELSE LET k == m.cal[q]
           IN  (x * ((Byte * k[1]) + k[2])) + (((Byte * k[3]) + k[4]) * Byte)

(* No temperature below zero or with an offset, and no negative offset.    *)
Plain(m, q) ==
  /\ q = "Temperature" =>
       m.raw[q][1] < Byte \div 2 /\ m.cal[q][3] = 0 /\ m.cal[q][4] = 0
  /\ q # "RxPower" => m.cal[q][3] < Byte \div 2

(* A status that get_status returns, when the SFP stays where it is, has   *)
(* all rows the SFP has something for, three or ten, and each quantity in  *)
(* it is the one measured by the SFP under that name, computed with its    *)
(* own constants, also while another caller switches the laser.  When the  *)
(* SFP is replaced during the call, rows of two SFPs may stand side by     *)
(* side.  Temperatures below zero or with an offset, and negative offsets, *)
(* are left out: the code gets them wrong.                                 *)
ReadingsAsMeasured ==
  \A c \in Callers :
    at[c] = "idle" /\ fate[c] = "ok" /\ asks[c].op = "get_status" /\ met[c] # NoSFP =>
      LET m == met[c] IN
      /\ Len(rows[c]) = IF m.ddm /\ ~m.swap THEN 10 ELSE 3
      /\ \A i \in 1 .. 3 : rows[c][i][2] = m.name
      /\ m.ddm /\ ~m.swap =>
           \A i \in 1 .. 5 :
             /\ rows[c][i + 3][1] = Quantities[i]
             /\ Plain(m, Quantities[i]) => rows[c][i + 3][2] = Reading(m, Quantities[i])
=============================================================================
