---------------------------- MODULE MCClockChip ----------------------------
(***************************************************************************)
(* Instances of ClockChip for TLC.                                         *)
(***************************************************************************)
EXTENDS ClockChip, FiniteSets

TwoPages == {0, 1}
TwoRegs == {0, 1}
ThreeValues == 0 .. 2
IdRegister == [page |-> 1, reg |-> 1]

Mark(kind, tag) == [kind |-> kind, tag |-> tag, setting |-> [page |-> 0, reg |-> 0, val |-> 0]]
Set(p, r, v) == [kind |-> "data", tag |-> NoTag, setting |-> [page |-> p, reg |-> r, val |-> v]]

(* A complete file, with settings on both pages, one of them overwritten.  *)
Complete ==
  <<Mark("header", NoTag),
    Mark("start", "preamble"), Set(1, 0, 1), Mark("end", "preamble"), Mark("remark", NoTag),
    Mark("start", "registers"), Set(0, 1, 2), Mark("blank", NoTag), Set(1, 1, 1),
    Mark("end", "registers"),
    Mark("start", "postamble"), Set(1, 0, 2), Mark("end", "postamble")>>

(* The file without some of its lines.                                     *)
Without(drop) ==
  LET keep == {i \in DOMAIN Complete : i \notin drop}
      nth(k) == CHOOSE i \in keep : Cardinality({j \in keep : j <= i}) = k
      lines == [k \in 1 .. Cardinality(keep) |-> Complete[nth(k)]]
  IN  SubSeq(lines, 1, Cardinality(keep))

Marks == {2, 4, 6, 10, 11, 13}

File(lost, nl, id) == [lines |-> Without(lost), terminated |-> nl, id |-> id]

(* The complete file; files that lack one line; files cut off in a section *)
(* or after it, with and without the last newline; and files without the   *)
(* marks of sections, one with another design id.                          *)
SomeFiles ==
  {File({}, TRUE, 1), File(Marks, TRUE, 1), File(Marks, TRUE, 2)}
    \cup {File({i}, TRUE, 1) : i \in 1 .. 13}
    \cup {File(i .. 13, nl, 1) : i \in {8, 10, 11}, nl \in BOOLEAN}
=============================================================================
