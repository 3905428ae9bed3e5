-------------------------- MODULE FrequencyCounter --------------------------
(***************************************************************************)
(* The frequency counter of a board: FrequencyCounterNode, and the two     *)
(* calls of IONode and FMCIONode that use it.  One counter serves all      *)
(* clocks of the board: the clock is selected in one dispatch and counted  *)
(* by the firmware while the caller sleeps for two seconds.                *)
(***************************************************************************)
EXTENDS NodeCalls

CONSTANT no_cdr  \* config.no_cdr, a constant of the firmware

VARIABLES
  chan_sel,  \* ctrl.chan_sel
  count,     \* the clock whose frequency freq.count holds; -1: not valid
  awake,     \* callers that the firmware has served in their sleep
  clocks,    \* per caller: the number of clocks it measures
  freqs      \* per caller: the frequencies so far, as the clock counted

freqVars == <<chan_sel, count, awake, clocks, freqs>>

FreqInit ==
  /\ chan_sel = 0
  /\ count = 0
  /\ awake = {}
  /\ clocks = [c \in Callers |-> 0]
  /\ freqs = [c \in Callers |-> <<>>]

(* The length of m_clock_names in each class, without the third name that  *)
(* FMCIONode adds for a firmware without CDR.                              *)
ClockNames ==
  [sim |-> 0, tlu |-> 1, fmc |-> 2, pc059 |-> 2, fib |-> 2, mib |-> 3, mib_v2 |-> 5,
   gib |-> 8]

ASSUME FreqAssumption == \A c \in Callers : \A r \in Asks["freq"][c] : r.board \in DOMAIN ClockNames

FreqCall(c, r) ==
  /\ node = "freq"
  /\ Begin(c, r, IF r.board = "fmc" THEN "read_config"
                 ELSE IF ClockNames[r.board] = 0 THEN "idle" ELSE "select")
  /\ clocks' = [clocks EXCEPT ![c] = ClockNames[r.board]]
  /\ freqs' = [freqs EXCEPT ![c] = <<>>]
  /\ UNCHANGED <<chan_sel, count, awake>>

(* FMCIONode looks at the firmware first, for the names of the clocks and  *)
(* again for the frequencies; what it reads is a constant.                 *)
ReadConfig(c) ==
  /\ at[c] = "read_config"
  /\ clocks' = [clocks EXCEPT ![c] = @ + (IF no_cdr THEN 1 ELSE 0)]
  /\ GoOn(c, "select")
  /\ UNCHANGED <<chan_sel, count, awake, freqs>>

(* measure_frequencies: select clock i, counting from 0,                   *)
SelectClock(c) ==
  /\ at[c] = "select"
  /\ chan_sel' = Len(freqs[c])
  /\ awake' = awake \ {c}
  /\ GoOn(c, "sleep")
  /\ UNCHANGED <<count, clocks, freqs>>

(* Mutant of Sleep: shorter than the firmware takes.                       *)
SleepBriefly(c) ==
  /\ at[c] = "sleep"
  /\ GoOn(c, "read_count")
  /\ UNCHANGED freqVars

(* sleep long enough for the firmware to count,                            *)
Sleep(c) ==
  /\ at[c] = "sleep" /\ c \in awake
  /\ GoOn(c, "read_count")
  /\ UNCHANGED freqVars

(* read the count and its valid flag in one dispatch, note -1 for a count  *)
(* that is not valid, and go on to the next clock.                         *)
ReadCount(c) ==
  /\ at[c] = "read_count"
  /\ freqs' = [freqs EXCEPT ![c] = Append(@, count)]
  /\ GoOn(c, IF Len(freqs[c]) + 1 < clocks[c] THEN "select" ELSE "idle")
  /\ UNCHANGED <<chan_sel, count, awake, clocks>>

(* The firmware counts the selected clock once more, or finds it dead.     *)
Count ==
  /\ \E valid \in BOOLEAN : count' = IF valid THEN chan_sel ELSE -1
  /\ awake' = {c \in Callers : at[c] = "sleep"}
  /\ UNCHANGED <<callerVars, chan_sel, clocks, freqs>>

(* What was measured is lost when a dispatch fails.                        *)
FreqFails(c) ==
  /\ node = "freq" /\ at[c] # "sleep" /\ DispatchFails(c)
  /\ freqs' = [freqs EXCEPT ![c] = <<>>]
  /\ UNCHANGED <<chan_sel, count, awake, clocks>>

FreqStep(c) == ReadConfig(c) \/ SelectClock(c) \/ Sleep(c) \/ ReadCount(c)

FreqNext ==
  \/ \E c \in Callers :
       \/ \E r \in Asks[node][c] : FreqCall(c, r)
       \/ FreqStep(c)
       \/ FreqFails(c)
  \/ node = "freq" /\ Count

FreqSpec == CallsInit({"freq"}) /\ FreqInit /\ [][FreqNext]_<<callerVars, freqVars>>

-----------------------------------------------------------------------------
(* When no other caller uses the counter meanwhile, the frequencies of     *)
(* get_clock_frequencies_table belong to the clocks they are printed with: *)
(* one per clock, each of its own clock or marked as not valid, although   *)
(* the clock is selected two seconds before the count is read and the      *)
(* count of the clock before stays in the register.                        *)
FrequenciesAsNamed ==
  \A c \in Callers :
    alone[c] =>
      /\ \A i \in 1 .. Len(freqs[c]) : freqs[c][i] \in {i - 1, -1}
      /\ at[c] = "idle" /\ fate[c] = "ok" /\ node = "freq" =>
           Len(freqs[c]) = ClockNames[asks[c].board]
                           + (IF asks[c].board = "fmc" /\ no_cdr THEN 1 ELSE 0)
=============================================================================
