----------------------------- MODULE ClockChip -----------------------------
(***************************************************************************)
(* SIChipSlave and SI534xSlave: the registers of a clock chip lie on pages *)
(* chosen by a page register, and configure writes the settings of a file  *)
(* to them, trying again what fails.                                       *)
(*                                                                         *)
(* A step is one read or write of a register over I2C, by one client that  *)
(* has the bus to itself; it may fail, a write also after its effect.      *)
(***************************************************************************)
EXTENDS ClockFile

CONSTANTS
  Files,        \* files that may be asked for
  Pages,        \* numbers of pages
  Regs,         \* registers of a page, the page register not counted
  Values,       \* values of a register
  ResetAt,      \* the register that resets the chip, 0x1e, on page 0
  IdAt,         \* [page, reg] of the design id, 0x26b
  MaxFailures   \* bound: transactions that fail

MaxAttempts == 2

Setting == [page : Pages, reg : Regs, val : Values]

(* A line; only that of data says something by its setting.                *)
Line == [kind : Kinds, tag : Tags \cup {NoTag}, setting : Setting]

(* Files name a design id, have at most one header, and do not write the   *)
(* register that resets.                                                   *)
ASSUME ChipAssumption ==
  /\ 0 \in Pages /\ 0 \in Values /\ ResetAt \in Regs
  /\ IdAt \in [page : Pages, reg : Regs]
  /\ MaxFailures \in Nat
  /\ \A f \in Files :
       /\ f \in [lines : Seq(Line), terminated : BOOLEAN, id : Values]
       /\ \A i, j \in Headers(f) : i = j
       /\ \A i \in DataLines(f.lines) :
            LET s == f.lines[i].setting IN ~(s.page = 0 /\ s.reg = ResetAt)

VARIABLES
  pc,        \* the next transaction of configure
  file,      \* the file it was given last
  plan,      \* what it has read from the file
  job,       \* the access at hand: 0 the reset, then the settings, then the id
  attempt,   \* failed attempts at it
  seen,      \* the page that read_page has returned
  reported,  \* was an error reported?
  swallowed, \* did the reset fail, which nobody is told?
  out,       \* how the last call ended
  page,      \* the page register
  regs,      \* the registers of all pages
  failures   \* counts failed transactions

vars == <<pc, file, plan, job, attempt, seen, reported, swallowed, out, page, regs, failures>>

Uploads == plan.preamble \o plan.rest
IdJob == Len(Uploads) + 1

(* The register the access at hand is for.                                 *)
Target == CASE job = 0     -> [page |-> 0, reg |-> ResetAt]
            [] job = IdJob -> IdAt
            [] OTHER       -> [page |-> Uploads[job].page, reg |-> Uploads[job].reg]

Defaults == [p \in Pages |-> [r \in Regs |-> 0]]

Init ==
  /\ pc = "idle" /\ file \in Files /\ plan = Refused
  /\ job = 0 /\ attempt = 0 /\ seen = 0
  /\ reported = FALSE /\ swallowed = FALSE /\ out = "none"
  /\ page \in Pages /\ regs = Defaults
  /\ failures = 0

Call(f) ==
  /\ pc = "idle"
  /\ pc' = "file" /\ file' = f
  /\ job' = 0 /\ attempt' = 0 /\ out' = "none"
  /\ reported' = FALSE /\ swallowed' = FALSE
  /\ UNCHANGED <<plan, seen, page, regs, failures>>

(* The whole file is read before the chip is touched.                      *)
ReadFile ==
  /\ pc = "file"
  /\ plan' = ReadConfig(file)
  /\ IF plan'.accepted
     THEN pc' = "page" /\ UNCHANGED out
     ELSE pc' = "idle" /\ out' = "incomplete"
  /\ UNCHANGED <<file, job, attempt, seen, reported, swallowed, page, regs, failures>>

(* Mutant of ReadPage: a second attempt takes the page for the right one.  *)
ReadPageOnce ==
  /\ pc = "page"
  /\ seen' = IF attempt > 0 THEN Target.page ELSE page
  /\ pc' = IF Target.page = seen' THEN "access" ELSE "switch"
  /\ UNCHANGED <<file, plan, job, attempt, reported, swallowed, out, page, regs, failures>>

(* Every access reads the page register ...                                *)
ReadPage ==
  /\ pc = "page"
  /\ seen' = page
  /\ pc' = IF Target.page = seen' THEN "access" ELSE "switch"
  /\ UNCHANGED <<file, plan, job, attempt, reported, swallowed, out, page, regs, failures>>

(* ... and writes it only when it has to.                                  *)
SwitchPage ==
  /\ pc = "switch"
  /\ page' = Target.page
  /\ pc' = "access"
  /\ UNCHANGED <<file, plan, job, attempt, seen, reported, swallowed, out, regs, failures>>

(* On to the next setting.                                                 *)
NextJob == job' = job + 1 /\ attempt' = 0 /\ pc' = "page"

(* The effect of the write at hand on the chip; the first one resets it.   *)
Written ==
  IF job = 0
  THEN regs' = Defaults /\ page' = 0
  ELSE /\ regs' = [regs EXCEPT ![page][Target.reg] = Uploads[job].val]
       /\ UNCHANGED page

Write ==
  /\ pc = "access" /\ job # IdJob
  /\ Written
  /\ NextJob
  /\ UNCHANGED <<file, plan, seen, reported, swallowed, out, failures>>

(* The design id of the chip is compared with that of the file; a          *)
(* difference is only reported.                                            *)
CheckId ==
  /\ pc = "access" /\ job = IdJob
  /\ reported' = (reported \/ regs[page][Target.reg] # file.id)
  /\ pc' = "idle" /\ out' = "ok"
  /\ UNCHANGED <<swallowed, file, plan, job, attempt, seen, page, regs, failures>>

(* Mutant of TryAgain: giving up is not reported.                          *)
TryAgainQuietly ==
  /\ IF attempt + 1 < MaxAttempts
     THEN attempt' = attempt + 1 /\ pc' = "page" /\ UNCHANGED job
     ELSE NextJob
  /\ UNCHANGED <<reported, out>>

(* upload_config reports a failed write, tries once more, and goes on with *)
(* the next setting all the same.                                          *)
TryAgain ==
  /\ IF attempt + 1 < MaxAttempts
     THEN attempt' = attempt + 1 /\ pc' = "page" /\ UNCHANGED job
     ELSE NextJob
  /\ reported' = TRUE
  /\ UNCHANGED out

(* A transaction fails.  The failure of the reset is caught and told to    *)
(* nobody when it is an I2CException, and ends the call when it is not; so *)
(* does any failure of the final check.                                    *)
Fail ==
  /\ pc \in {"page", "switch", "access"}
  /\ failures < MaxFailures
  /\ failures' = failures + 1
  /\ \/ UNCHANGED <<page, regs>>
     \/ pc = "switch" /\ page' = Target.page /\ UNCHANGED regs
     \/ pc = "access" /\ job # IdJob /\ Written
  /\ \/ job \in 1 .. Len(Uploads) /\ TryAgain /\ UNCHANGED swallowed
     \/ job = 0 /\ NextJob /\ swallowed' = TRUE /\ UNCHANGED <<reported, out>>
     \/ job \in {0, IdJob} /\ pc' = "idle" /\ out' = "failed"
        /\ UNCHANGED <<job, attempt, reported, swallowed>>
  /\ UNCHANGED <<file, plan, seen>>

Step == ReadFile \/ ReadPage \/ SwitchPage \/ Write \/ CheckId \/ Fail

Next == (\E f \in Files : Call(f)) \/ Step

Spec == Init /\ [][Next]_vars

-----------------------------------------------------------------------------
TypeOK ==
  /\ pc \in {"idle", "file", "page", "switch", "access"}
  /\ file \in Files
  /\ job \in 0 .. IdJob /\ attempt \in 0 .. MaxAttempts - 1
  /\ seen \in Pages /\ page \in Pages
  /\ out \in {"none", "ok", "incomplete", "failed"}
  /\ regs \in [Pages -> [Regs -> Values]]
  /\ failures \in 0 .. MaxFailures

(* The last value that a sequence of settings gives a register, or none.   *)
Given(settings, p, r) ==
  {settings[i].val : i \in {k \in DOMAIN settings :
     /\ settings[k].page = p /\ settings[k].reg = r
     /\ \A j \in DOMAIN settings : j > k => ~(settings[j].page = p /\ settings[j].reg = r)}}

(* When configure returns and has reported nothing, each register that its *)
(* file gives a value has the last one given, and each other register its  *)
(* reset value; unless the reset failed, of which nothing is reported: the *)
(* others may then be as they were before the call.                        *)
UnreportedIsConfigured ==
  out = "ok" /\ ~reported =>
    \A p \in Pages, r \in Regs :
      IF Given(Uploads, p, r) # {}
      THEN regs[p][r] \in Given(Uploads, p, r)
      ELSE swallowed \/ regs[p][r] = 0

(* The settings that the files give.                                       *)
GivenByFiles == UNION {{f.lines[i].setting : i \in DataLines(f.lines)} : f \in Files}

(* However a call fails, no write lands on another page: all registers     *)
(* have values that some file gives them, or their reset values.           *)
NoStrayWrite ==
  \A p \in Pages, r \in Regs :
    \/ regs[p][r] = 0
    \/ [page |-> p, reg |-> r, val |-> regs[p][r]] \in GivenByFiles

(* A file whose data lie between its header and the end of its postamble,  *)
(* with all their newlines, is not refused, and what is written to the     *)
(* chip is all it says, in its order: whether it has sections, lacks some  *)
(* of their marks, or has none at all.                                     *)
NothingDropped ==
  WellMade(file) =>
    /\ out # "incomplete"
    /\ pc \in {"page", "switch", "access"} \/ out = "ok" => Uploads = Settings(file.lines)
=============================================================================
