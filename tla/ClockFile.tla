------------------------------ MODULE ClockFile ------------------------------
(***************************************************************************)
(* How SI534xSlave::configure reads the configuration file of a clock      *)
(* chip: seek_header, read_config_section and the way back to the header   *)
(* for files without sections.                                             *)
(*                                                                         *)
(* A file is a sequence of lines and a flag that says whether the last     *)
(* line ends with a newline; only when it does not, the end of the file is *)
(* seen while that line is read.                                           *)
(***************************************************************************)
EXTENDS Integers, Sequences, FiniteSets

Kinds == {"header", "start", "end", "remark", "blank", "data"}

Tags == {"preamble", "registers", "postamble"}

NoTag == ""

IsComment(l) == l.kind \in {"start", "end", "remark"}

(* The numbers of D from the lowest to the highest.                        *)
InOrder(D) ==
  CHOOSE g \in [1 .. Cardinality(D) -> D] : \A i, j \in DOMAIN g : i < j => g[i] < g[j]

(* The settings of those of the lines whose numbers are in D, in order.    *)
SettingsOf(lines, D) ==
  LET at == InOrder(D) IN [k \in 1 .. Cardinality(D) |-> lines[at[k]].setting]

(* The settings that the lines of a file give.                             *)
DataLines(lines) == {i \in DOMAIN lines : lines[i].kind = "data"}
Settings(lines) == SettingsOf(lines, DataLines(lines))

(* Is line i the last one, and not terminated?                             *)
SeesEnd(f, i) == i = Len(f.lines) /\ ~f.terminated

-----------------------------------------------------------------------------
(* seek_header skips everything before the header; a file that ends before *)
(* it is refused only where its last line says so.                         *)
Headers(f) == {i \in DOMAIN f.lines : f.lines[i].kind = "header"}

SeekHeader(f) ==
  IF Headers(f) # {}
  THEN [status |-> "ok", next |-> 1 + CHOOSE i \in Headers(f) : \A j \in Headers(f) : i <= j]
  ELSE LET n == Len(f.lines)
       IN  IF n > 0 /\ SeesEnd(f, n) /\ f.lines[n].kind = "data"
           THEN [status |-> "incomplete", next |-> n + 1]
           ELSE [status |-> "ok", next |-> n + 1]

Found(l, tag) == l.kind = "start" /\ l.tag = tag
Closes(l, tag) == l.kind = "end" /\ l.tag = tag

(* In read_config_section from line from on: was the start of the section  *)
(* seen before line i?                                                     *)
Opened(f, tag, from, i) == \E j \in from .. i - 1 : Found(f.lines[j], tag)

(* Does line i end it: the mark of its end, a last line without a newline, *)
(* or data before the start?                                               *)
Stops(f, tag, from, i) ==
  LET l == f.lines[i]
  IN  IF IsComment(l)
      THEN tag # NoTag /\ Closes(l, tag)
      ELSE SeesEnd(f, i) \/ (l.kind # "blank" /\ tag # NoTag /\ ~Opened(f, tag, from, i))

(* How it ends there.                                                      *)
StatusAt(f, tag, i) ==
  CASE IsComment(f.lines[i])                     -> "ok"
    [] ~IsComment(f.lines[i]) /\ SeesEnd(f, i)   -> IF tag = NoTag THEN "ok" ELSE "incomplete"
    [] ~IsComment(f.lines[i]) /\ ~SeesEnd(f, i)  -> "missing"

(* read_config_section: what it returns or throws, where it stops, and the *)
(* settings of the lines before.                                           *)
Section(f, tag, from) ==
  LET n == Len(f.lines)
      stops == {i \in from .. n : Stops(f, tag, from, i)}
      stop == IF stops = {} THEN n + 1 ELSE CHOOSE i \in stops : \A j \in stops : i <= j
      given == {i \in from .. stop - 1 : ~IsComment(f.lines[i]) /\ f.lines[i].kind # "blank"}
  IN  [status |-> IF stops = {} THEN "ok" ELSE StatusAt(f, tag, stop),
       next |-> stop + 1,
       settings |-> SettingsOf(f.lines, given)]

-----------------------------------------------------------------------------
Refused == [accepted |-> FALSE, preamble |-> <<>>, rest |-> <<>>]

(* Mutant of Untagged: the file is not read again from its header.         *)
UntaggedInPlace(f, header, here) ==
  [accepted |-> TRUE, preamble |-> <<>>, rest |-> Section(f, NoTag, here).settings]

(* A file without sections: everything after the header.                   *)
Untagged(f, header, here) ==
  [accepted |-> TRUE, preamble |-> <<>>, rest |-> Section(f, NoTag, header).settings]

(* The three sections in turn; where data come before the section that is  *)
(* looked for, the file is taken for one without sections.                 *)
ReadConfig(f) ==
  LET head == SeekHeader(f)
      pre  == Section(f, "preamble", head.next)
      regs == Section(f, "registers", pre.next)
      post == Section(f, "postamble", regs.next)
      failed == CASE pre.status # "ok"  -> pre
                  [] pre.status = "ok" /\ regs.status # "ok" -> regs
                  [] OTHER -> post
  IN  CASE head.status # "ok" \/ failed.status = "incomplete" -> Refused
        [] head.status = "ok" /\ failed.status = "missing" ->
             Untagged(f, head.next, failed.next)
        [] OTHER -> [accepted |-> TRUE, preamble |-> pre.settings,
                     rest |-> regs.settings \o post.settings]

-----------------------------------------------------------------------------
(* The data come after a header and before the end of the postamble, and   *)
(* every line that is not a comment is terminated.                         *)
WellMade(f) ==
  /\ \A i \in DataLines(f.lines) : \E h \in Headers(f) : h < i
  /\ \A i \in DataLines(f.lines), j \in DOMAIN f.lines :
       Closes(f.lines[j], "postamble") => i < j
  /\ \A i \in DOMAIN f.lines : SeesEnd(f, i) => IsComment(f.lines[i])
=============================================================================
