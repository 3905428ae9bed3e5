---------------------------- MODULE PeriodicRate ----------------------------
(***************************************************************************)
(* parse_periodic_fl_cmd_rate: how a requested rate of commands becomes a  *)
(* divisor d and a prescale p of the firmware's generator, which then      *)
(* sends one command every 256 * 2^d * p clock cycles.  The fake triggers  *)
(* of the master and the emulation mode of the HSI both use it.            *)
(*                                                                         *)
(* A request is the period asked for, x, in units of 128 clock cycles:     *)
(* half the smallest period there is, so that the rounding to the nearest  *)
(* prescale is visible.  The code computes with doubles; on these inputs   *)
(* they are exact, the logarithm of each of the 16 powers of two included. *)
(***************************************************************************)
EXTENDS Integers, FiniteSets

DivisorMax == 15
PrescaleMax == 256

(* The values the 8 bits of rate_div_p (mask 0xff0000) can hold: uhal      *)
(* refuses to write any other.                                             *)
PrescaleField == 0 .. 255

(* Does a divisor bring the period within the prescale's range?            *)
Reaches(d, x) == x <= 2 * PrescaleMax * 2 ^ d

(* Mutant of Divisor: the division by the pre-divider is forgotten once.   *)
DivisorOneLess(x) == Cardinality({d \in 0 .. DivisorMax - 1 : ~Reaches(d + 1, x)})

(* The logarithm rounded up and brought into 0 .. 15: as many powers of    *)
(* two as are too small for the period.                                    *)
Divisor(x) == Cardinality({d \in 0 .. DivisorMax - 1 : ~Reaches(d, x)})

(* The quotient rounded to the nearest integer, halves upwards.            *)
Prescale(x, d) == (x + 2 ^ d) \div 2 ^ (d + 1)

(* BadRequestedFakeTriggerRate unless the prescale is in 1 .. 256.         *)
InRange(x) == Prescale(x, Divisor(x)) \in 1 .. PrescaleMax

(* The period a pair stands for, in the unit of the requests.              *)
Period(d, p) == 2 * p * 2 ^ d

Distance(a, b) == IF a < b THEN b - a ELSE a - b
=============================================================================
