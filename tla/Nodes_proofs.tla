---------------------------- MODULE Nodes_proofs ----------------------------
(***************************************************************************)
(* Seven of the smaller nodes for any callers, any calls and any failures: *)
(* variable length commands, frequencies, endpoints with counters, status  *)
(* tables, the TLU, SFPs, and asynchronous packets.                        *)
(***************************************************************************)
EXTENDS VLCmdGenerator, FrequencyCounter, EndpointControl, Monitoring, TLUIONode,
        SFPDiagnostics, AsyncPackets, WellFoundedInduction, TLAPS

-----------------------------------------------------------------------------
(* What all nodes share: a call that no other has overlapped so far is the *)
(* only one in progress.                                                   *)
CallsInv ==
  /\ at = [c \in Callers |-> at[c]]
  /\ asks = [c \in Callers |-> asks[c]]
  /\ fate = [c \in Callers |-> fate[c]]
  /\ alone = [c \in Callers |-> alone[c]]
  /\ \A c, d \in Callers : alone[c] /\ at[c] # "idle" /\ d # c => at[d] = "idle"

LEMMA CallsStart ==
  ASSUME NEW nodes, CallsInit(nodes)
  PROVE  CallsInv
BY DEF CallsInit, CallsInv

LEMMA BeginKeepsCalls ==
  ASSUME CallsInv, NEW c \in Callers, NEW r, NEW l, Begin(c, r, l)
  PROVE  CallsInv'
<1>1. at' = [d \in Callers |-> at'[d]] /\ fate' = [d \in Callers |-> fate'[d]]
  BY DEF CallsInv, Begin
<1>2. asks' = [d \in Callers |-> asks'[d]]
  BY DEF CallsInv, Begin
<1>3. alone' = [d \in Callers |-> alone'[d]]
  BY DEF CallsInv, Begin
<1>4. ASSUME NEW d \in Callers, NEW e \in Callers, alone'[d], at'[d] # "idle", e # d
      PROVE  at'[e] = "idle"
  <2>1. d = c
    BY <1>4 DEF CallsInv, Begin
  <2>2. at[e] = "idle"
    BY <1>4, <2>1 DEF Begin
  <2> QED
    BY <1>4, <2>1, <2>2 DEF CallsInv, Begin
<1> QED
  BY <1>1, <1>2, <1>3, <1>4 DEF CallsInv

LEMMA GoOnKeepsCalls ==
  ASSUME CallsInv, NEW c \in Callers, at[c] # "idle", NEW l, GoOn(c, l)
  PROVE  CallsInv'
<1>1. at' = [d \in Callers |-> at'[d]]
  BY DEF CallsInv, GoOn
<1>2. ASSUME NEW d \in Callers, NEW e \in Callers, alone[d], at'[d] # "idle", e # d
      PROVE  at'[e] = "idle"
  <2>1. CASE d = c
    BY <1>2, <2>1 DEF CallsInv, GoOn
  <2>2. CASE d # c
    <3>1. at[d] # "idle"
      BY <1>2, <2>2 DEF CallsInv, GoOn
    <3> QED
      BY <1>2, <2>2, <3>1 DEF CallsInv
  <2> QED
    BY <2>1, <2>2
<1> QED
  BY <1>1, <1>2 DEF CallsInv, GoOn

LEMMA FailKeepsCalls ==
  ASSUME CallsInv, NEW c \in Callers, at[c] # "idle", NEW how, Fail(c, how)
  PROVE  CallsInv'
<1>1. at' = [d \in Callers |-> at'[d]] /\ fate' = [d \in Callers |-> fate'[d]]
  BY DEF CallsInv, Fail
<1>2. ASSUME NEW d \in Callers, NEW e \in Callers, alone[d], at'[d] # "idle", e # d
      PROVE  at'[e] = "idle"
  <2>1. at[d] # "idle" /\ d # c
    BY <1>2 DEF CallsInv, Fail
  <2> QED
    BY <1>2, <2>1 DEF CallsInv
<1> QED
  BY <1>1, <1>2 DEF CallsInv, Fail

LEMMA StutterKeepsCalls ==
  ASSUME CallsInv, UNCHANGED callerVars
  PROVE  CallsInv'
BY DEF CallsInv, callerVars

-----------------------------------------------------------------------------
(* Variable length commands.  A record with the fields of csr.ctrl.        *)
IsCtrl(x) ==
  x = [addr |-> x.addr, tx_en |-> x.tx_en, cdel |-> x.cdel, fdel |-> x.fdel,
       pdel |-> x.pdel, update |-> x.update]

(* Between the two dispatches of a call that is alone the registers are as *)
(* the first has left them, and only its second dispatch sends.            *)
VLInv ==
  /\ CallsInv
  /\ IsCtrl(ctrl_vl)
  /\ sent = [c \in Callers |-> sent[c]]
  /\ \A c \in Callers :
       /\ at[c] \in {"idle", "vl_reset", "vl_go"}
       /\ at[c] # "idle" => sent[c] = <<>>
       /\ alone[c] /\ at[c] = "vl_go" => ctrl_vl = Reset_ctrl
  /\ CommandAsAsked

LEMMA VLCallKeeps ==
  ASSUME VLInv, NEW c \in Callers, NEW r, VLCall(c, r)
  PROVE  VLInv'
<1>1. CallsInv'
  BY BeginKeepsCalls DEF VLInv, VLCall
<1>2. IsCtrl(ctrl_vl)' /\ sent' = [d \in Callers |-> sent'[d]]
  BY DEF VLInv, VLCall, IsCtrl
<1>3. ASSUME NEW d \in Callers
      PROVE  /\ at'[d] \in {"idle", "vl_reset", "vl_go"}
             /\ at'[d] # "idle" => sent'[d] = <<>>
             /\ alone'[d] /\ at'[d] = "vl_go" => ctrl_vl' = Reset_ctrl
  BY <1>3 DEF VLInv, VLCall, Begin, CallsInv
<1>4. CommandAsAsked'
  <2> SUFFICES ASSUME NEW d \in Callers, sent'[d] # <<>>
               PROVE  /\ Len(sent'[d]) = 1
                      /\ sent'[d][1].addr = asks'[d].addr
                      /\ alone'[d] \/ asks'[d].op = "apply_endpoint_delay"
                           => sent'[d][1] = Command(asks'[d])
    BY DEF CommandAsAsked
  <2>1. d # c /\ sent'[d] = sent[d] /\ asks'[d] = asks[d]
    BY DEF VLInv, VLCall, Begin, CallsInv
  <2>2. alone'[d] => alone[d]
    BY <2>1 DEF VLCall, Begin
  <2> QED
    BY <2>1, <2>2 DEF VLInv, CommandAsAsked
<1> QED
  BY <1>1, <1>2, <1>3, <1>4 DEF VLInv

LEMMA VLResetKeeps ==
  ASSUME VLInv, NEW c \in Callers, VLReset(c)
  PROVE  VLInv'
<1>1. CallsInv'
  BY GoOnKeepsCalls DEF VLInv, VLReset
<1>2. IsCtrl(ctrl_vl)'
  BY DEF VLReset, ResetSubNodes, Reset_ctrl, IsCtrl
<1>3. ASSUME NEW d \in Callers
      PROVE  /\ at'[d] \in {"idle", "vl_reset", "vl_go"}
             /\ at'[d] # "idle" => sent'[d] = <<>>
             /\ alone'[d] /\ at'[d] = "vl_go" => ctrl_vl' = Reset_ctrl
  BY <1>3 DEF VLInv, VLReset, GoOn, CallsInv, ResetSubNodes
<1>4. CommandAsAsked' /\ sent' = [d \in Callers |-> sent'[d]]
  BY DEF VLInv, VLReset, GoOn, CommandAsAsked
<1> QED
  BY <1>1, <1>2, <1>3, <1>4 DEF VLInv

(* Both second dispatches, with what they leave in csr.ctrl.               *)
LEMMA SendingKeeps ==
  ASSUME VLInv, NEW c \in Callers, at[c] = "vl_go", Sends(c), GoOn(c, "idle"),
         IsCtrl(ctrl_vl)', ctrl_vl'.addr = asks[c].addr,
         alone[c] \/ asks[c].op = "apply_endpoint_delay" => ctrl_vl' = Command(asks[c])
  PROVE  VLInv'
<1>1. CallsInv'
  BY GoOnKeepsCalls DEF VLInv
<1>2. sent[c] = <<>> /\ sent'[c] = <<ctrl_vl'>>
  <2>1. Append(<<>>, ctrl_vl') = <<ctrl_vl'>>
    OBVIOUS
  <2> QED
    BY <2>1 DEF VLInv, Sends
<1>3. sent' = [d \in Callers |-> sent'[d]] /\ \A d \in Callers \ {c} : sent'[d] = sent[d]
  BY DEF VLInv, Sends
<1>4. ASSUME NEW d \in Callers
      PROVE  /\ at'[d] \in {"idle", "vl_reset", "vl_go"}
             /\ at'[d] # "idle" => sent'[d] = <<>>
             /\ alone'[d] /\ at'[d] = "vl_go" => ctrl_vl' = Reset_ctrl
  <2>1. alone[d] /\ d # c => at[d] = "idle"
    BY DEF VLInv, CallsInv
  <2> QED
    BY <1>3, <2>1 DEF VLInv, GoOn, CallsInv
<1>5. CommandAsAsked'
  <2> SUFFICES ASSUME NEW d \in Callers, sent'[d] # <<>>
               PROVE  /\ Len(sent'[d]) = 1
                      /\ sent'[d][1].addr = asks[d].addr
                      /\ alone[d] \/ asks[d].op = "apply_endpoint_delay"
                           => sent'[d][1] = Command(asks[d])
    BY DEF CommandAsAsked, GoOn
  <2>1. CASE d = c
    <3>1. sent'[d] = <<ctrl_vl'>>
      BY <1>2, <2>1
    <3>2. Len(sent'[d]) = 1 /\ sent'[d][1] = ctrl_vl'
      BY <3>1
    <3> QED
      BY <2>1, <3>2, Zenon
  <2>2. CASE d # c
    BY <1>3, <2>2 DEF VLInv, CommandAsAsked
  <2> QED
    BY <2>1, <2>2
<1> QED
  BY <1>1, <1>3, <1>4, <1>5 DEF VLInv

LEMMA GoSwitchKeeps ==
  ASSUME VLInv, NEW c \in Callers, GoSwitch(c)
  PROVE  VLInv'
<1>1. IsCtrl(ctrl_vl)' /\ ctrl_vl'.addr = asks[c].addr
  BY DEF VLInv, GoSwitch, IsCtrl
<1>2. alone[c] => ctrl_vl' = Command(asks[c])
  BY DEF VLInv, GoSwitch, Command
<1>3. asks[c].op # "apply_endpoint_delay"
  BY DEF GoSwitch
<1> QED
  BY <1>1, <1>2, <1>3, SendingKeeps DEF GoSwitch

LEMMA GoDelayKeeps ==
  ASSUME VLInv, NEW c \in Callers, GoDelay(c)
  PROVE  VLInv'
<1>1. ctrl_vl' = [addr |-> asks[c].addr, tx_en |-> 0, cdel |-> asks[c].cdel,
                  fdel |-> asks[c].fdel, pdel |-> asks[c].pdel, update |-> 1]
  BY DEF VLInv, GoDelay, IsCtrl
<1>2. IsCtrl(ctrl_vl)' /\ ctrl_vl'.addr = asks[c].addr
  BY <1>1 DEF IsCtrl
<1>3. ctrl_vl' = Command(asks[c])
  BY <1>1 DEF GoDelay, Command
<1> QED
  BY <1>2, <1>3, SendingKeeps DEF GoDelay

LEMMA VLFailsKeeps ==
  ASSUME VLInv, NEW c \in Callers, VLFails(c)
  PROVE  VLInv'
<1>1. CallsInv'
  BY FailKeepsCalls DEF VLInv, VLFails, DispatchFails
<1>2. ASSUME NEW d \in Callers
      PROVE  /\ at'[d] \in {"idle", "vl_reset", "vl_go"}
             /\ at'[d] # "idle" => sent'[d] = <<>>
             /\ alone'[d] /\ at'[d] = "vl_go" => ctrl_vl' = Reset_ctrl
  BY <1>2 DEF VLInv, VLFails, DispatchFails, Fail, vlVars, CallsInv
<1>3. CommandAsAsked'
  BY DEF VLInv, VLFails, DispatchFails, Fail, vlVars, CommandAsAsked
<1> QED
  BY <1>1, <1>2, <1>3 DEF VLInv, VLFails, vlVars, IsCtrl

(* Whatever commands were sent, or failed half-way, before: what a call    *)
(* sends is what it was asked to.                                          *)
THEOREM CommandsSentAsAsked == VLSpec => []CommandAsAsked
<1>1. CallsInit({"vl"}) /\ VLInit => VLInv
  <2> SUFFICES ASSUME CallsInit({"vl"}), VLInit
               PROVE  VLInv
    OBVIOUS
  <2>1. CallsInv
    BY CallsStart
  <2> QED
    BY <2>1 DEF CallsInit, VLInit, VLInv, IsCtrl, Reset_ctrl, CommandAsAsked
<1>2. VLInv /\ [VLNext]_<<callerVars, vlVars>> => VLInv'
  <2> SUFFICES ASSUME VLInv, [VLNext]_<<callerVars, vlVars>>
               PROVE  VLInv'
    OBVIOUS
  <2>1. ASSUME NEW c \in Callers, NEW r \in Asks[node][c], VLCall(c, r)
        PROVE  VLInv'
    BY <2>1, VLCallKeeps
  <2>2. ASSUME NEW c \in Callers, VLStep(c)
        PROVE  VLInv'
    BY <2>2, VLResetKeeps, GoSwitchKeeps, GoDelayKeeps DEF VLStep
  <2>3. ASSUME NEW c \in Callers, VLFails(c)
        PROVE  VLInv'
    BY <2>3, VLFailsKeeps
  <2>4. CASE UNCHANGED <<callerVars, vlVars>>
    <3>1. CallsInv'
      BY <2>4, StutterKeepsCalls DEF VLInv
    <3> QED
      BY <2>4, <3>1 DEF VLInv, vlVars, callerVars, IsCtrl, CommandAsAsked
  <2> QED
    BY <2>1, <2>2, <2>3, <2>4 DEF VLNext
<1>3. VLInv => CommandAsAsked
  BY DEF VLInv
<1> QED
  BY <1>1, <1>2, <1>3, PTL DEF VLSpec

-----------------------------------------------------------------------------
(* Frequencies.  How many a call returns when all goes well.               *)
Clocks(r) == ClockNames[r.board] + (IF r.board = "fmc" /\ no_cdr THEN 1 ELSE 0)

(* A call has as many frequencies as it has been through clocks.           *)
FreqCourse(c) ==
  /\ at[c] \in {"idle", "read_config", "select", "sleep", "read_count"}
  /\ at[c] # "idle" => fate[c] = "ok"
  /\ at[c] = "read_config" =>
       freqs[c] = <<>> /\ asks[c].board = "fmc" /\ clocks[c] = ClockNames.fmc
  /\ at[c] \in {"select", "sleep", "read_count"} =>
       Len(freqs[c]) < clocks[c] /\ clocks[c] = Clocks(asks[c])
  /\ at[c] = "idle" /\ fate[c] = "ok" => Len(freqs[c]) = Clocks(asks[c])

(* While a call that is alone waits for a count, its clock is the one that *)
(* is selected, and once the firmware has counted, the one counted.        *)
FreqAlone(c) ==
  alone[c] =>
    /\ \A i \in 1 .. Len(freqs[c]) : freqs[c][i] \in {i - 1, -1}
    /\ at[c] \in {"sleep", "read_count"} => chan_sel = Len(freqs[c])
    /\ at[c] = "read_count" \/ (at[c] = "sleep" /\ c \in awake) => count \in {chan_sel, -1}

FreqInv ==
  /\ CallsInv /\ node = "freq"
  /\ chan_sel \in Nat /\ count \in Int
  /\ clocks \in [Callers -> Nat]
  /\ freqs \in [Callers -> Seq(Int)]
  /\ \A c \in Callers : FreqCourse(c) /\ FreqAlone(c)

LEMMA FreqStarts ==
  ASSUME CallsInit({"freq"}), FreqInit
  PROVE  FreqInv
<1>1. CallsInv
  BY CallsStart
<1>2. ASSUME NEW c \in Callers
      PROVE  FreqCourse(c) /\ FreqAlone(c)
  BY DEF CallsInit, FreqCourse, FreqAlone
<1> QED
  BY <1>1, <1>2 DEF CallsInit, FreqInit, FreqInv

LEMMA FreqCallKeeps ==
  ASSUME FreqInv, NEW c \in Callers, NEW r \in Asks[node][c], FreqCall(c, r)
  PROVE  FreqInv'
<1>1. CallsInv' /\ node' = "freq"
  BY BeginKeepsCalls DEF FreqInv, FreqCall, Begin
<1>2. r.board \in DOMAIN ClockNames /\ ClockNames[r.board] \in Nat
  BY FreqAssumption DEF FreqInv, ClockNames
<1>3. clocks' \in [Callers -> Nat] /\ freqs' \in [Callers -> Seq(Int)]
  BY <1>2 DEF FreqInv, FreqCall
<1>4. ASSUME NEW d \in Callers, d # c
      PROVE  FreqCourse(d)' /\ FreqAlone(d)'
  <2>1. UNCHANGED <<at[d], asks[d], fate[d], clocks[d], freqs[d], chan_sel, count, awake>>
    BY <1>4 DEF FreqInv, CallsInv, FreqCall, Begin
  <2>2. alone'[d] => alone[d] /\ at[d] = "idle"
    BY <1>4 DEF FreqInv, CallsInv, FreqCall, Begin
  <2>3. FreqCourse(d)'
    BY <2>1 DEF FreqInv, FreqCourse, Clocks
  <2>4. FreqAlone(d)'
    BY <2>1, <2>2 DEF FreqInv, FreqAlone
  <2> QED
    BY <2>3, <2>4
<1>5. FreqCourse(c)' /\ FreqAlone(c)'
  <2>1. freqs'[c] = <<>> /\ clocks'[c] = ClockNames[r.board] /\ asks'[c] = r /\ fate'[c] = "ok"
    BY DEF FreqInv, CallsInv, FreqCall, Begin
  <2>2. at'[c] = IF r.board = "fmc" THEN "read_config"
                 ELSE IF ClockNames[r.board] = 0 THEN "idle" ELSE "select"
    BY DEF FreqInv, CallsInv, FreqCall, Begin
  <2>3. FreqCourse(c)'
    BY <1>2, <2>1, <2>2 DEF FreqCourse, Clocks
  <2>4. FreqAlone(c)'
    BY <2>1, <2>2 DEF FreqAlone
  <2> QED
    BY <2>3, <2>4
<1> QED
  BY <1>1, <1>3, <1>4, <1>5 DEF FreqInv, FreqCall

(* What a dispatch of one call does to another: nothing that matters, for  *)
(* the other is idle or not alone.                                         *)
LEMMA FreqOthers ==
  ASSUME FreqInv, NEW c \in Callers, NEW d \in Callers, d # c, at[c] # "idle",
         UNCHANGED <<at[d], asks[d], fate[d], alone[d], clocks[d], freqs[d]>>
  PROVE  FreqCourse(d)' /\ FreqAlone(d)'
<1>1. alone[d] => at[d] = "idle"
  BY DEF FreqInv, CallsInv
<1>2. FreqCourse(d)'
  BY DEF FreqInv, FreqCourse, Clocks
<1>3. FreqAlone(d)'
  BY <1>1 DEF FreqInv, FreqAlone
<1> QED
  BY <1>2, <1>3

LEMMA ReadConfigKeeps ==
  ASSUME FreqInv, NEW c \in Callers, ReadConfig(c)
  PROVE  FreqInv'
<1>1. CallsInv' /\ node' = "freq"
  BY GoOnKeepsCalls DEF FreqInv, ReadConfig, GoOn
<1>2. clocks' \in [Callers -> Nat]
  BY DEF FreqInv, ReadConfig
<1>3. ASSUME NEW d \in Callers, d # c
      PROVE  FreqCourse(d)' /\ FreqAlone(d)'
  <2>1. UNCHANGED <<at[d], asks[d], fate[d], alone[d], clocks[d], freqs[d]>> /\ at[c] # "idle"
    BY <1>3 DEF FreqInv, CallsInv, ReadConfig, GoOn
  <2> QED
    BY <1>3, <2>1, FreqOthers
<1>4. FreqCourse(c)' /\ FreqAlone(c)'
  <2>1. /\ at'[c] = "select" /\ freqs'[c] = <<>> /\ asks'[c] = asks[c] /\ fate'[c] = "ok"
        /\ asks[c].board = "fmc" /\ clocks'[c] = ClockNames.fmc + (IF no_cdr THEN 1 ELSE 0)
    BY DEF FreqInv, FreqCourse, CallsInv, ReadConfig, GoOn
  <2>2. FreqCourse(c)'
    BY <2>1 DEF FreqCourse, Clocks, ClockNames
  <2>3. FreqAlone(c)'
    BY <2>1 DEF FreqAlone
  <2> QED
    BY <2>2, <2>3
<1> QED
  BY <1>1, <1>2, <1>3, <1>4 DEF FreqInv, ReadConfig

LEMMA SelectClockKeeps ==
  ASSUME FreqInv, NEW c \in Callers, SelectClock(c)
  PROVE  FreqInv'
<1>1. CallsInv' /\ node' = "freq"
  BY GoOnKeepsCalls DEF FreqInv, SelectClock, GoOn
<1>2. freqs[c] \in Seq(Int) /\ chan_sel' = Len(freqs[c])
  BY DEF FreqInv, SelectClock
<1>3. ASSUME NEW d \in Callers, d # c
      PROVE  FreqCourse(d)' /\ FreqAlone(d)'
  <2>1. UNCHANGED <<at[d], asks[d], fate[d], alone[d], clocks[d], freqs[d]>> /\ at[c] # "idle"
    BY <1>3 DEF FreqInv, CallsInv, SelectClock, GoOn
  <2> QED
    BY <1>3, <2>1, FreqOthers
<1>4. FreqCourse(c)' /\ FreqAlone(c)'
  <2>1. at[c] = "select" /\ at'[c] = "sleep" /\ c \notin awake'
    BY DEF FreqInv, CallsInv, SelectClock, GoOn
  <2>2. UNCHANGED <<asks[c], fate[c], alone[c], clocks[c], freqs[c]>>
    BY DEF SelectClock, GoOn
  <2>3. FreqCourse(c)'
    BY <2>1, <2>2 DEF FreqInv, FreqCourse, Clocks
  <2>4. FreqAlone(c)'
    BY <1>2, <2>1, <2>2 DEF FreqInv, FreqAlone
  <2> QED
    BY <2>3, <2>4
<1> QED
  BY <1>1, <1>2, <1>3, <1>4 DEF FreqInv, SelectClock

LEMMA SleepKeeps ==
  ASSUME FreqInv, NEW c \in Callers, Sleep(c)
  PROVE  FreqInv'
<1>1. CallsInv' /\ node' = "freq"
  BY GoOnKeepsCalls DEF FreqInv, Sleep, GoOn
<1>2. ASSUME NEW d \in Callers, d # c
      PROVE  FreqCourse(d)' /\ FreqAlone(d)'
  <2>1. UNCHANGED <<at[d], asks[d], fate[d], alone[d], clocks[d], freqs[d]>> /\ at[c] # "idle"
    BY <1>2 DEF FreqInv, CallsInv, Sleep, GoOn, freqVars
  <2> QED
    BY <1>2, <2>1, FreqOthers
<1>3. FreqCourse(c)' /\ FreqAlone(c)'
  <2>1. at[c] = "sleep" /\ at'[c] = "read_count" /\ c \in awake
    BY DEF FreqInv, CallsInv, Sleep, GoOn
  <2>2. UNCHANGED <<asks[c], fate[c], alone[c], freqVars>>
    BY DEF Sleep, GoOn
  <2>3. FreqCourse(c)'
    BY <2>1, <2>2 DEF FreqInv, FreqCourse, Clocks, freqVars
  <2>4. FreqAlone(c)'
    BY <2>1, <2>2 DEF FreqInv, FreqAlone, freqVars
  <2> QED
    BY <2>3, <2>4
<1> QED
  BY <1>1, <1>2, <1>3 DEF FreqInv, Sleep, freqVars

LEMMA ReadCountKeeps ==
  ASSUME FreqInv, NEW c \in Callers, ReadCount(c)
  PROVE  FreqInv'
<1>1. CallsInv' /\ node' = "freq"
  BY GoOnKeepsCalls DEF FreqInv, ReadCount, GoOn
<1>2. freqs[c] \in Seq(Int) /\ count \in Int
  BY DEF FreqInv
<1>3. freqs'[c] = Append(freqs[c], count) /\ freqs' \in [Callers -> Seq(Int)]
  BY <1>2 DEF FreqInv, ReadCount
<1>4. Len(freqs'[c]) = Len(freqs[c]) + 1
  BY <1>2, <1>3
<1>5. ASSUME NEW d \in Callers, d # c
      PROVE  FreqCourse(d)' /\ FreqAlone(d)'
  <2>1. UNCHANGED <<at[d], asks[d], fate[d], alone[d], clocks[d], freqs[d]>> /\ at[c] # "idle"
    BY <1>5 DEF FreqInv, CallsInv, ReadCount, GoOn
  <2> QED
    BY <1>5, <2>1, FreqOthers
<1>6. FreqCourse(c)' /\ FreqAlone(c)'
  <2>1. /\ at[c] = "read_count"
        /\ at'[c] = IF Len(freqs[c]) + 1 < clocks[c] THEN "select" ELSE "idle"
    BY DEF FreqInv, CallsInv, ReadCount, GoOn
  <2>2. UNCHANGED <<asks[c], fate[c], alone[c], clocks[c]>> /\ clocks[c] \in Nat
    BY DEF FreqInv, ReadCount, GoOn
  <2>3. /\ fate[c] = "ok"
        /\ Len(freqs[c]) < clocks[c] /\ clocks[c] = Clocks(asks[c])
    BY <2>1 DEF FreqInv, FreqCourse
  <2>4. FreqCourse(c)'
    <3>1. CASE Len(freqs[c]) + 1 < clocks[c]
      BY <1>4, <2>1, <2>2, <2>3, <3>1 DEF FreqCourse, Clocks
    <3>2. CASE ~ (Len(freqs[c]) + 1 < clocks[c])
      <4>1. Len(freqs'[c]) = clocks[c]
        BY <1>2, <1>4, <2>2, <2>3, <3>2
      <4> QED
        BY <2>1, <2>2, <2>3, <3>2, <4>1 DEF FreqCourse, Clocks
    <3> QED
      BY <3>1, <3>2
  <2>5. ASSUME alone[c], NEW i \in 1 .. Len(freqs'[c])
        PROVE  freqs'[c][i] \in {i - 1, -1}
    <3>1. /\ \A j \in 1 .. Len(freqs[c]) : freqs[c][j] \in {j - 1, -1}
          /\ chan_sel = Len(freqs[c]) /\ count \in {chan_sel, -1}
      BY <2>1, <2>5 DEF FreqInv, FreqAlone
    <3>2. CASE i = Len(freqs[c]) + 1
      BY <1>2, <1>3, <3>1, <3>2
    <3>3. CASE i # Len(freqs[c]) + 1
      <4>1. i \in 1 .. Len(freqs[c])
        BY <1>2, <1>4, <2>5, <3>3
      <4>2. freqs'[c][i] = freqs[c][i]
        BY <1>2, <1>3, <4>1
      <4> QED
        BY <3>1, <4>1, <4>2
    <3> QED
      BY <3>2, <3>3
  <2>6. FreqAlone(c)'
    BY <2>1, <2>2, <2>5 DEF FreqAlone
  <2> QED
    BY <2>4, <2>6
<1> QED
  BY <1>1, <1>3, <1>5, <1>6 DEF FreqInv, ReadCount

LEMMA CountKeeps ==
  ASSUME FreqInv, Count
  PROVE  FreqInv'
<1>1. CallsInv' /\ node' = "freq"
  BY StutterKeepsCalls DEF FreqInv, Count, callerVars
<1>2. count' \in {chan_sel, -1} /\ chan_sel' = chan_sel /\ count' \in Int
  BY DEF FreqInv, Count
<1>3. ASSUME NEW d \in Callers
      PROVE  FreqCourse(d)' /\ FreqAlone(d)'
  BY <1>2 DEF FreqInv, Count, callerVars, FreqCourse, FreqAlone, Clocks
<1> QED
  BY <1>1, <1>2, <1>3 DEF FreqInv, Count

LEMMA FreqFailsKeeps ==
  ASSUME FreqInv, NEW c \in Callers, FreqFails(c)
  PROVE  FreqInv'
<1>1. CallsInv' /\ node' = "freq"
  BY FailKeepsCalls DEF FreqInv, FreqFails, DispatchFails, Fail
<1>2. freqs' \in [Callers -> Seq(Int)]
  BY DEF FreqInv, FreqFails
<1>3. ASSUME NEW d \in Callers, d # c
      PROVE  FreqCourse(d)' /\ FreqAlone(d)'
  <2>1. UNCHANGED <<at[d], asks[d], fate[d], alone[d], clocks[d], freqs[d]>> /\ at[c] # "idle"
    BY <1>3 DEF FreqInv, CallsInv, FreqFails, DispatchFails, Fail
  <2> QED
    BY <1>3, <2>1, FreqOthers
<1>4. FreqCourse(c)' /\ FreqAlone(c)'
  <2>1. at'[c] = "idle" /\ fate'[c] = "bus_error" /\ freqs'[c] = <<>>
    BY DEF FreqInv, CallsInv, FreqFails, DispatchFails, Fail
  <2> QED
    BY <2>1 DEF FreqCourse, FreqAlone
<1> QED
  BY <1>1, <1>2, <1>3, <1>4 DEF FreqInv, FreqFails

(* For any boards, callers and failures, the table of a call that no other *)
(* overlaps has each frequency at the clock it was counted for.            *)
THEOREM FrequenciesOfTheirClocks == FreqSpec => []FrequenciesAsNamed
<1>1. CallsInit({"freq"}) /\ FreqInit => FreqInv
  BY FreqStarts
<1>2. FreqInv /\ [FreqNext]_<<callerVars, freqVars>> => FreqInv'
  <2> SUFFICES ASSUME FreqInv, [FreqNext]_<<callerVars, freqVars>>
               PROVE  FreqInv'
    OBVIOUS
  <2>1. ASSUME NEW c \in Callers, NEW r \in Asks[node][c], FreqCall(c, r)
        PROVE  FreqInv'
    BY <2>1, FreqCallKeeps
  <2>2. ASSUME NEW c \in Callers, FreqStep(c)
        PROVE  FreqInv'
    BY <2>2, ReadConfigKeeps, SelectClockKeeps, SleepKeeps, ReadCountKeeps DEF FreqStep
  <2>3. ASSUME NEW c \in Callers, FreqFails(c)
        PROVE  FreqInv'
    BY <2>3, FreqFailsKeeps
  <2>4. CASE Count
    BY <2>4, CountKeeps
  <2>5. CASE UNCHANGED <<callerVars, freqVars>>
    <3>1. CallsInv'
      BY <2>5, StutterKeepsCalls DEF FreqInv
    <3> QED
      BY <2>5, <3>1 DEF FreqInv, freqVars, callerVars, FreqCourse, FreqAlone, Clocks
  <2> QED
    BY <2>1, <2>2, <2>3, <2>4, <2>5 DEF FreqNext
<1>3. FreqInv => FrequenciesAsNamed
  BY DEF FreqInv, FreqCourse, FreqAlone, Clocks, FrequenciesAsNamed
<1> QED
  BY <1>1, <1>2, <1>3, PTL DEF FreqSpec

-----------------------------------------------------------------------------
(* Endpoints, CRT and counters.  An endpoint that is not enabled stands by.*)
EpTypes ==
  /\ node \in {"ep", "crt", "global"}
  /\ tstamp \in Nat /\ since \in [Callers -> Nat]
  /\ cmd_ctrs \in 0 .. LastCount /\ heard \in [Callers -> 0 .. LastCount]
  /\ shown = [c \in Callers |-> shown[c]]
  /\ ep_ctrl = [en |-> ep_ctrl.en, addr |-> ep_ctrl.addr] /\ ep_ctrl.en \in {0, 1}
  /\ ep_stat \in {StandingBy, Waiting, Ready, ProtocolError}
  /\ ep_ctrl.en = 0 => ep_stat = StandingBy

(* Which dispatches a call that resets counters goes through, and from     *)
(* where on they hold nothing older than the call.                         *)
EpCourse(c) ==
  node \in {"ep", "global"} /\ asks[c].op \in Resets =>
    /\ at[c] \in {"idle", "ep_reset", "ep_enable", "clear_counters", "counters_ready"}
    /\ \/ at[c] \in {"ep_enable", "counters_ready"}
       \/ at[c] = "idle" /\ fate[c] \in {"ok", "bus_mask"}
       => cmd_ctrs <= heard[c]

EpShown(c) ==
  /\ since[c] <= tstamp
  /\ shown[c] # NothingShown =>
       /\ shown[c].ready => shown[c].state = Ready /\ shown[c].en = 1
       /\ shown[c].en = 0 => shown[c].state = StandingBy
       /\ shown[c].ts \in Nat /\ since[c] <= shown[c].ts /\ shown[c].ts <= tstamp

EpInv == CallsInv /\ EpTypes /\ \A c \in Callers : EpCourse(c) /\ EpShown(c)

LEMMA EndpointStarts ==
  ASSUME CallsInit({"ep", "crt", "global"}), EndpointInit
  PROVE  EpInv
<1>1. CallsInv
  BY CallsStart
<1>2. EpTypes
  BY EndpointAssumption DEF CallsInit, EndpointInit, EpTypes, StandingBy
<1>3. ASSUME NEW c \in Callers
      PROVE  EpCourse(c) /\ EpShown(c)
  BY DEF CallsInit, EndpointInit, NoCall, Resets, EpCourse, EpShown
<1> QED
  BY <1>1, <1>2, <1>3 DEF EpInv

(* What a dispatch of one call does to another at most: it clears the      *)
(* counters.                                                               *)
LEMMA EpOthers ==
  ASSUME EpInv, NEW d \in Callers, node' = node, tstamp' = tstamp, cmd_ctrs' \in {0, cmd_ctrs},
         UNCHANGED <<at[d], asks[d], fate[d], heard[d], since[d], shown[d]>>
  PROVE  EpCourse(d)' /\ EpShown(d)'
<1>1. heard[d] >= 0
  BY EndpointAssumption DEF EpInv, EpTypes
<1>2. EpCourse(d)'
  BY <1>1 DEF EpInv, EpCourse
<1>3. EpShown(d)'
  BY DEF EpInv, EpShown
<1> QED
  BY <1>2, <1>3

LEMMA EndpointCallKeeps ==
  ASSUME EpInv, NEW c \in Callers, NEW r \in Asks[node][c], EndpointCall(c, r)
  PROVE  EpInv'
<1> DEFINE first == IF r.op \in Reads THEN "read" ELSE FirstDispatch[node][r.op]
<1>1. CallsInv'
  BY BeginKeepsCalls DEF EpInv, EndpointCall
<1>2. node' = node /\ at' = [at EXCEPT ![c] = first] /\ asks' = [asks EXCEPT ![c] = r]
  BY DEF EndpointCall, Begin
<1>3. EpTypes'
  <2>1. heard' \in [Callers -> 0 .. LastCount]
    BY EndpointAssumption DEF EpInv, EpTypes, EndpointCall
  <2>2. since' \in [Callers -> Nat]
    BY DEF EpInv, EpTypes, EndpointCall
  <2>3. shown' = [d \in Callers |-> shown'[d]]
    BY DEF EpInv, EpTypes, EndpointCall
  <2> QED
    BY <1>2, <2>1, <2>2, <2>3 DEF EpInv, EpTypes, EndpointCall
<1>4. ASSUME NEW d \in Callers, d # c
      PROVE  EpCourse(d)' /\ EpShown(d)'
  <2>1. UNCHANGED <<at[d], asks[d], fate[d], heard[d], since[d], shown[d], tstamp, cmd_ctrs>>
    BY <1>4 DEF EpInv, CallsInv, EpTypes, EndpointCall, Begin
  <2> QED
    BY <1>2, <2>1, EpOthers
<1>5. EpCourse(c)'
  <2> SUFFICES ASSUME node \in {"ep", "global"}, r.op \in Resets
               PROVE  at'[c] \in {"ep_reset", "clear_counters"}
    BY <1>2 DEF EpInv, CallsInv, EpCourse
  <2>1. r.op \notin Reads
    BY DEF Resets, Reads
  <2>2. r.op \in DOMAIN FirstDispatch[node]
    BY <2>1, EndpointAssumption DEF EpInv, EpTypes
  <2>3. FirstDispatch[node][r.op] \in {"ep_reset", "clear_counters"}
    <3>1. CASE node = "ep"
      BY <2>2, <3>1 DEF FirstDispatch, Resets
    <3>2. CASE node = "global"
      BY <2>2, <3>2 DEF FirstDispatch, Resets
    <3> QED
      BY <3>1, <3>2
  <2> QED
    BY <1>2, <2>1, <2>3 DEF EpInv, CallsInv
<1>6. EpShown(c)'
  BY DEF EpInv, EpTypes, EpShown, EndpointCall
<1> QED
  BY <1>1, <1>3, <1>4, <1>5, <1>6 DEF EpInv

(* A dispatch that leaves what was asked and what is shown alone.          *)
LEMMA EpStepKeeps ==
  ASSUME EpInv, NEW c \in Callers, at[c] # "idle", NEW l,
         at' = [at EXCEPT ![c] = l], UNCHANGED <<node, asks, alone, tstamp, heard, since, shown>>,
         CallsInv', EpTypes', cmd_ctrs' \in {0, cmd_ctrs},
         \A d \in Callers : d # c => fate'[d] = fate[d],
         EpCourse(c)'
  PROVE  EpInv'
<1>1. ASSUME NEW d \in Callers, d # c
      PROVE  EpCourse(d)' /\ EpShown(d)'
  BY <1>1, EpOthers DEF EpInv, CallsInv
<1>2. EpShown(c)'
  BY DEF EpInv, EpShown
<1> QED
  BY <1>1, <1>2 DEF EpInv

LEMMA ResetEndpointKeeps ==
  ASSUME EpInv, NEW c \in Callers, ResetEndpoint(c)
  PROVE  EpInv'
<1>1. CallsInv'
  BY GoOnKeepsCalls DEF EpInv, ResetEndpoint
<1>2. EpTypes'
  BY EndpointAssumption DEF EpInv, EpTypes, ResetEndpoint, GoOn
<1>3. EpCourse(c)'
  BY EndpointAssumption DEF EpInv, EpTypes, CallsInv, ResetEndpoint, GoOn, EpCourse
<1> QED
  BY <1>1, <1>2, <1>3, EpStepKeeps DEF ResetEndpoint, GoOn

LEMMA EnableEndpointKeeps ==
  ASSUME EpInv, NEW c \in Callers, EnableEndpoint(c)
  PROVE  EpInv'
<1>1. CallsInv'
  BY GoOnKeepsCalls DEF EpInv, EnableEndpoint
<1>2. EpTypes'
  BY DEF EpInv, EpTypes, EnableEndpoint, GoOn
<1>3. EpCourse(c)'
  BY DEF EpInv, CallsInv, EnableEndpoint, GoOn, EpCourse
<1> QED
  BY <1>1, <1>2, <1>3, EpStepKeeps DEF EnableEndpoint, GoOn

LEMMA AddressRefusedKeeps ==
  ASSUME EpInv, NEW c \in Callers, AddressRefused(c)
  PROVE  EpInv'
<1>1. CallsInv'
  BY FailKeepsCalls DEF EpInv, AddressRefused
<1>2. EpTypes'
  BY DEF EpInv, EpTypes, AddressRefused, Fail, epVars
<1>3. EpCourse(c)'
  BY DEF EpInv, CallsInv, AddressRefused, Fail, epVars, EpCourse
<1> QED
  BY <1>1, <1>2, <1>3, EpStepKeeps DEF EpInv, CallsInv, AddressRefused, Fail, epVars

LEMMA CountersPolledKeeps ==
  ASSUME EpInv, NEW c \in Callers, CountersPolled(c)
  PROVE  EpInv'
<1>1. CallsInv'
  BY GoOnKeepsCalls DEF EpInv, CountersPolled
<1>2. EpTypes'
  BY DEF EpInv, EpTypes, CountersPolled, GoOn, epVars
<1>3. EpCourse(c)'
  BY DEF EpInv, CallsInv, CountersPolled, GoOn, epVars, EpCourse
<1> QED
  BY <1>1, <1>2, <1>3, EpStepKeeps DEF CountersPolled, GoOn, epVars

LEMMA DisableEndpointKeeps ==
  ASSUME EpInv, NEW c \in Callers, DisableEndpoint(c)
  PROVE  EpInv'
<1>1. CallsInv'
  BY GoOnKeepsCalls DEF EpInv, DisableEndpoint
<1>2. EpTypes'
  BY DEF EpInv, EpTypes, DisableEndpoint, GoOn
<1>3. EpCourse(c)'
  BY DEF EpInv, CallsInv, DisableEndpoint, GoOn, EpCourse
<1> QED
  BY <1>1, <1>2, <1>3, EpStepKeeps DEF DisableEndpoint, GoOn

LEMMA ClearCountersKeeps ==
  ASSUME EpInv, NEW c \in Callers, ClearCounters(c)
  PROVE  EpInv'
<1>1. CallsInv'
  BY GoOnKeepsCalls DEF EpInv, ClearCounters
<1>2. EpTypes'
  BY EndpointAssumption DEF EpInv, EpTypes, ClearCounters, GoOn
<1>3. EpCourse(c)'
  BY EndpointAssumption DEF EpInv, EpTypes, CallsInv, ClearCounters, GoOn, EpCourse
<1> QED
  BY <1>1, <1>2, <1>3, EpStepKeeps DEF ClearCounters, GoOn

LEMMA CRTKeeps ==
  ASSUME EpInv, NEW c \in Callers, EnableCRT(c) \/ DisableCRT(c)
  PROVE  EpInv'
<1>1. CallsInv'
  BY GoOnKeepsCalls DEF EpInv, EnableCRT, DisableCRT
<1>2. EpTypes'
  BY DEF EpInv, EpTypes, EnableCRT, DisableCRT, GoOn
<1>3. EpCourse(c)'
  BY DEF EpInv, CallsInv, EnableCRT, DisableCRT, GoOn, EpCourse
<1> QED
  BY <1>1, <1>2, <1>3, EpStepKeeps DEF EnableCRT, DisableCRT, GoOn

LEMMA ReadyAsRead ==
  ASSUME NEW r, NEW q, NEW s, NEW e, NEW d, NEW t,
         r = [state |-> s, ready |-> s = q, en |-> e, addr |-> d, ts |-> t], r.ready
  PROVE  s = q
  BY Zenon

LEMMA SnapshotKeeps ==
  ASSUME EpInv, NEW c \in Callers, Snapshot(c)
  PROVE  EpInv'
<1>1. CallsInv'
  BY GoOnKeepsCalls DEF EpInv, Snapshot
<1>2. EpTypes'
  BY DEF EpInv, EpTypes, Snapshot, GoOn
<1>3. ASSUME NEW d \in Callers, d # c
      PROVE  EpCourse(d)' /\ EpShown(d)'
  <2>1. UNCHANGED <<node, at[d], asks[d], fate[d], heard[d], since[d], shown[d], tstamp, cmd_ctrs>>
    BY <1>3 DEF EpInv, CallsInv, EpTypes, Snapshot, GoOn
  <2> QED
    BY <2>1, EpOthers
<1>4. EpCourse(c)'
  BY DEF EpInv, CallsInv, Snapshot, GoOn, EpCourse
<1>5. EpShown(c)'
  <2>1. Joined(tstamp % Word, tstamp \div Word) = tstamp
    BY EndpointAssumption DEF EpInv, EpTypes, Joined
  <2>2. shown'[c] = [state |-> ep_stat, ready |-> ep_stat = Ready, en |-> ep_ctrl.en,
                     addr |-> ep_ctrl.addr, ts |-> tstamp]
    BY <2>1 DEF EpInv, EpTypes, Snapshot
  <2>3. shown'[c].ready => ep_stat = Ready
    BY <2>2, ReadyAsRead
  <2>4. /\ shown'[c].state = ep_stat /\ shown'[c].en = ep_ctrl.en /\ shown'[c].ts = tstamp
    BY <2>2
  <2>5. (ep_stat = Ready => ep_ctrl.en = 1) /\ (ep_ctrl.en = 0 => ep_stat = StandingBy)
    BY DEF EpInv, EpTypes, StandingBy, Ready
  <2>6. shown'[c].ready => shown'[c].state = Ready /\ shown'[c].en = 1
    BY <2>3, <2>4, <2>5, Zenon
  <2>7. shown'[c].en = 0 => shown'[c].state = StandingBy
    BY <2>4, <2>5
  <2>8. tstamp \in Nat /\ since[c] <= tstamp /\ since[c] \in Nat
    BY DEF EpInv, EpTypes, EpShown
  <2>9. /\ since'[c] <= tstamp' /\ shown'[c].ts \in Nat
        /\ since'[c] <= shown'[c].ts /\ shown'[c].ts <= tstamp'
    BY <2>4, <2>8 DEF Snapshot
  <2> QED
    BY <2>6, <2>7, <2>9, Zenon DEF EpShown
<1> QED
  BY <1>1, <1>2, <1>3, <1>4, <1>5 DEF EpInv

LEMMA EndpointFailsKeeps ==
  ASSUME EpInv, NEW c \in Callers, EndpointFails(c)
  PROVE  EpInv'
<1>1. CallsInv'
  BY FailKeepsCalls DEF EpInv, EndpointFails, DispatchFails
<1>2. EpTypes'
  BY DEF EpInv, EpTypes, EndpointFails, DispatchFails, Fail, epVars
<1>3. EpCourse(c)'
  BY DEF EpInv, CallsInv, EndpointFails, DispatchFails, Fail, epVars, EpCourse
<1> QED
  BY <1>1, <1>2, <1>3, EpStepKeeps
     DEF EpInv, CallsInv, EndpointFails, DispatchFails, Fail, epVars

(* The firmware.                                                           *)
LEMMA FirmwareKeeps ==
  ASSUME EpInv, EndpointAdvances \/ Tick \/ CommandCounted
  PROVE  EpInv'
<1>1. CallsInv' /\ UNCHANGED callerVars
  BY StutterKeepsCalls DEF EpInv, EndpointAdvances, Tick, CommandCounted
<1>2. CASE EndpointAdvances
  <2>1. EpTypes'
    BY <1>2 DEF EpInv, EpTypes, EndpointAdvances, callerVars, StandingBy, Waiting
  <2> QED
    BY <1>1, <1>2, <2>1 DEF EpInv, EndpointAdvances, callerVars, EpCourse, EpShown
<1>3. CASE Tick
  <2>1. EpTypes'
    BY <1>3 DEF EpInv, EpTypes, Tick, callerVars
  <2>2. ASSUME NEW c \in Callers
        PROVE  EpCourse(c)' /\ EpShown(c)'
    <3>1. EpCourse(c)'
      BY <1>3 DEF EpInv, EpCourse, Tick, callerVars
    <3>2. since[c] <= tstamp + 1 /\ \A t \in Nat : t <= tstamp => t <= tstamp + 1
      BY DEF EpInv, EpTypes, EpShown
    <3>3. EpShown(c)'
      BY <1>3, <3>2 DEF EpInv, EpShown, Tick
    <3> QED
      BY <3>1, <3>3
  <2> QED
    BY <1>1, <2>1, <2>2 DEF EpInv
<1>4. CASE CommandCounted
  <2>1. EpTypes'
    BY <1>4, EndpointAssumption DEF EpInv, EpTypes, CommandCounted, callerVars
  <2>2. ASSUME NEW c \in Callers, cmd_ctrs <= heard[c]
        PROVE  cmd_ctrs' <= heard'[c]
    BY <1>4, <2>2, EndpointAssumption DEF EpInv, EpTypes, CommandCounted
  <2>3. ASSUME NEW c \in Callers
        PROVE  EpCourse(c)' /\ EpShown(c)'
    BY <1>4, <2>2 DEF EpInv, EpCourse, EpShown, CommandCounted, callerVars
  <2> QED
    BY <1>1, <2>1, <2>3 DEF EpInv
<1> QED
  BY <1>2, <1>3, <1>4

LEMMA EndpointInvariance == EndpointSpec => []EpInv
<1>1. CallsInit({"ep", "crt", "global"}) /\ EndpointInit => EpInv
  BY EndpointStarts
<1>2. EpInv /\ [EndpointNext]_<<callerVars, epVars>> => EpInv'
  <2> SUFFICES ASSUME EpInv, [EndpointNext]_<<callerVars, epVars>>
               PROVE  EpInv'
    OBVIOUS
  <2>1. ASSUME NEW c \in Callers, NEW r \in Asks[node][c], EndpointCall(c, r)
        PROVE  EpInv'
    BY <2>1, EndpointCallKeeps
  <2>2. ASSUME NEW c \in Callers, EndpointStep(c)
        PROVE  EpInv'
    BY <2>2, ResetEndpointKeeps, EnableEndpointKeeps, AddressRefusedKeeps, CountersPolledKeeps,
       DisableEndpointKeeps, ClearCountersKeeps, CRTKeeps, SnapshotKeeps DEF EndpointStep
  <2>3. ASSUME NEW c \in Callers, EndpointFails(c)
        PROVE  EpInv'
    BY <2>3, EndpointFailsKeeps
  <2>4. CASE EndpointAdvances \/ Tick \/ CommandCounted
    BY <2>4, FirmwareKeeps
  <2>5. CASE UNCHANGED <<callerVars, epVars>>
    <3>1. CallsInv'
      BY <2>5, StutterKeepsCalls DEF EpInv
    <3> QED
      BY <2>5, <3>1 DEF EpInv, EpTypes, EpCourse, EpShown, callerVars, epVars
  <2> QED
    BY <2>1, <2>2, <2>3, <2>4, <2>5 DEF EndpointNext
<1> QED
  BY <1>1, <1>2, PTL DEF EndpointSpec

(* A reset of the counters that was not refused half-way leaves commands   *)
(* only that arrived since its call, for any callers at the same time.     *)
THEOREM CountersOfThisReset == EndpointSpec => []CountersStartOver
<1>1. EpInv => CountersStartOver
  BY DEF EpInv, EpCourse, CountersStartOver
<1> QED
  BY <1>1, EndpointInvariance, PTL

(* Reports of endpoint and CRT are of one moment, for any callers, and     *)
(* however long the words of a timestamp are.                              *)
THEOREM ReportsOfOneMoment == EndpointSpec => []ReportsOneMoment
<1>1. EpInv => ReportsOneMoment
  BY DEF EpInv, EpShown, ReportsOneMoment
<1> QED
  BY <1>1, EndpointInvariance, PTL

---------------------------------------------------------------------------
(* Status tables.  Which dispatches a call may still make.                 *)
Dispatches(op) ==
  CASE op = "get_status_tables" ->
         {"timestamp", "start", "sw_init", "ctrl", "stat", "gen", "sent", "acmd_stat"}
    [] op = "irig_status" ->
         {"irig_timestamp", "ctrl", "stat", "date", "time", "pps_ctr", "seconds"}
    [] op = "set_irig_epoch"    -> {"set_epoch"}
    [] op = "hsi_status"        -> {"hsi"}
    [] op = "read_buffer_state" -> {"buffer_state"}

IsTable(s) == Len(s) \in Nat /\ s = [i \in 1 .. Len(s) |-> s[i]]

RowsOfOneMoment(t) ==
  t.rows = {<<k, t.as_it_was[k]>> : k \in {j \in 0 .. LastCommand - 1 : t.as_it_was[j] > 0}}

(* What an entry of the table of c says, also while the call goes on: the  *)
(* time of an IRIG status has not run back, and its epoch is still set.    *)
Entry(c, t) ==
  /\ asks[c].op = "get_status_tables" => RowsOfOneMoment(t)
  /\ asks[c].op = "hsi_status" => (t.warn = 1 <=> t.count >= WarnAt)
  /\ asks[c].op = "read_buffer_state" => ((t \div 2) % 2 = 1 <=> t \div 65536 >= WarnAt)
  /\ asks[c].op = "irig_status" =>
       /\ t.seconds \in Nat /\ t.seconds <= now
       /\ alone[c] /\ at[c] # "idle" => t.since = epoch
  /\ asks[c].op \in MonitorOps \ {"set_irig_epoch"}

(* Two entries of an IRIG status that no other call has overlapped.        *)
InOrderOfTime(c) ==
  asks[c].op = "irig_status" /\ alone[c] =>
    \A i, j \in DOMAIN table[c] :
      i <= j => /\ table[c][i].since = table[c][j].since
                /\ table[c][i].seconds <= table[c][j].seconds

MonitorTypes ==
  /\ node \in MonitorNodes
  /\ now \in Nat
  /\ sent_ctrs \in [0 .. LastCommand -> Nat]
  /\ hsi_buf.count \in Nat /\ hsi_buf.warn \in {0, 1} /\ hsi_buf.err \in {0, 1}
  /\ hsi_buf.warn = 1 <=> hsi_buf.count >= WarnAt
  /\ parts = [c \in Callers |-> parts[c]]
  /\ table = [c \in Callers |-> table[c]]

MonitorCourse(c) ==
  /\ at[c] \in {"idle", "monitor_read"}
  /\ at[c] # "idle" =>
       /\ asks[c].op \in MonitorOps
       /\ parts[c] \in Seq(Dispatches(asks[c].op)) /\ parts[c] # <<>>
       /\ asks[c].op = "set_irig_epoch" => table[c] = <<>>
  /\ IsTable(table[c])
  /\ \A i \in DOMAIN table[c] : Entry(c, table[c][i])
  /\ InOrderOfTime(c)

MonitorInv ==
  /\ CallsInv
  /\ MonitorTypes
  /\ \A c \in Callers : MonitorCourse(c)

LEMMA LongerTable ==
  ASSUME NEW s, IsTable(s), NEW e
  PROVE  /\ IsTable(Append(s, e))
         /\ Len(Append(s, e)) = Len(s) + 1
         /\ Append(s, e)[Len(s) + 1] = e
         /\ \A i \in 1 .. Len(s) : Append(s, e)[i] = s[i]
<1> DEFINE S == {s[i] : i \in 1 .. Len(s)} \cup {e}
<1>1. s \in Seq(S)
  BY DEF IsTable
<1>2. Append(s, e) \in Seq(S)
  BY <1>1
<1>3. /\ Len(Append(s, e)) = Len(s) + 1
      /\ Append(s, e)[Len(s) + 1] = e
      /\ \A i \in 1 .. Len(s) : Append(s, e)[i] = s[i]
  BY <1>1
<1>4. \A q \in Seq(S) : IsTable(q)
  BY DEF IsTable
<1> QED
  BY <1>2, <1>3, <1>4

LEMMA NoTable == IsTable(<<>>) /\ DOMAIN <<>> = {}
BY DEF IsTable

(* A call starts with dispatches of its own.                               *)
LEMMA PartsOfCalls ==
  ASSUME NEW r, r.op \in MonitorOps
  PROVE  Parts(r) \in Seq(Dispatches(r.op)) /\ Parts(r) # <<>>
<1>1. CASE r.op = "get_status_tables"
  <2> DEFINE S == Dispatches(r.op)
  <2>1. S = {"timestamp", "start", "sw_init", "ctrl", "stat", "gen", "sent", "acmd_stat"}
    BY <1>1 DEF Dispatches
  <2>2. TimestampStatus \in Seq(S) /\ GlobalStatus \in Seq(S)
    BY <2>1 DEF TimestampStatus, GlobalStatus
  <2>3. <<"gen", "sent", "acmd_stat">> \in Seq(S) /\ Len(<<"gen", "sent", "acmd_stat">>) = 3
    BY <2>1
  <2> HIDE DEF S
  <2>4. StatusTables \in Seq(S) /\ StatusTables # <<>>
    BY <2>2, <2>3 DEF StatusTables
  <2> QED
    BY <1>1, <2>4 DEF Parts, S
<1>2. CASE r.op = "irig_status"
  BY <1>2 DEF Parts, Dispatches, IRIGStatus
<1>3. CASE r.op = "set_irig_epoch"
  BY <1>3 DEF Parts, Dispatches
<1>4. CASE r.op = "hsi_status"
  BY <1>4 DEF Parts, Dispatches
<1>5. CASE r.op = "read_buffer_state"
  BY <1>5 DEF Parts, Dispatches
<1> QED
  BY <1>1, <1>2, <1>3, <1>4, <1>5 DEF MonitorOps

(* Numbers below the divisor are their own remainders.                     *)
LEMMA SmallRemainder ==
  ASSUME NEW n \in Nat, NEW k \in 0 .. n - 1
  PROVE  k % n = k
OBVIOUS

(* What a word made of count, warning and error says.                      *)
LEMMA PackedWord ==
  ASSUME NEW n \in Nat, NEW w \in {0, 1}, NEW e \in {0, 1}
  PROVE  LET x == e + (2 * w) + (65536 * n)
         IN  x \div 2 = w + 32768 * n /\ (x \div 2) % 2 = w /\ x \div 65536 = n
OBVIOUS

---------------------------------------------------------------------------
LEMMA MonitorStarts ==
  ASSUME CallsInit(MonitorNodes), MonitorInit
  PROVE  MonitorInv
<1>1. CallsInv
  BY CallsStart
<1>2. MonitorTypes
  BY MonitorAssumption DEF CallsInit, MonitorInit, MonitorTypes, HsiBuffer
<1>3. ASSUME NEW c \in Callers
      PROVE  MonitorCourse(c)
  BY NoTable DEF CallsInit, MonitorInit, MonitorCourse, InOrderOfTime
<1> QED
  BY <1>1, <1>2, <1>3 DEF MonitorInv

(* A caller whose own state a step leaves alone, and whose epoch it leaves *)
(* alone if it counts.                                                     *)
LEMMA CourseKept ==
  ASSUME NEW d \in Callers, MonitorCourse(d), now \in Nat,
         now' \in Nat, now <= now',
         at'[d] = at[d], asks'[d] = asks[d], alone'[d] => alone[d],
         parts'[d] = parts[d], table'[d] = table[d],
         alone'[d] /\ at[d] # "idle" => epoch' = epoch
  PROVE  MonitorCourse(d)'
<1>1. ASSUME NEW t, Entry(d, t)
      PROVE  Entry(d, t)'
  BY <1>1 DEF Entry, RowsOfOneMoment
<1>2. (\A i \in DOMAIN table[d] : Entry(d, table[d][i]))'
  <2>1. ASSUME NEW i \in DOMAIN table[d], NEW t, t = table[d][i]
        PROVE  Entry(d, t)'
    BY <1>1, <2>1 DEF MonitorCourse
  <2>2. ASSUME NEW i \in DOMAIN table[d]
        PROVE  Entry(d, table[d][i])'
    <3>1. \A t : t = table[d][i] => Entry(d, t)'
      BY <2>1
    <3> QED
      BY <3>1 DEF Entry, RowsOfOneMoment
  <2> QED
    BY <2>2
<1>3. IsTable(table[d])'
  BY DEF MonitorCourse, IsTable
<1>4. InOrderOfTime(d)'
  BY DEF MonitorCourse, InOrderOfTime
<1> QED
  BY <1>2, <1>3, <1>4 DEF MonitorCourse

LEMMA MonitorCallKeeps ==
  ASSUME MonitorInv, NEW c \in Callers, NEW r \in Asks[node][c], MonitorCall(c, r)
  PROVE  MonitorInv'
<1>1. CallsInv'
  BY BeginKeepsCalls DEF MonitorInv, MonitorCall
<1>2. MonitorTypes'
  BY DEF MonitorInv, MonitorTypes, MonitorCall, Begin
<1>3. ASSUME NEW d \in Callers, d # c
      PROVE  MonitorCourse(d)'
  <2>1. /\ at'[d] = at[d] /\ asks'[d] = asks[d] /\ (alone'[d] => alone[d])
        /\ parts'[d] = parts[d] /\ table'[d] = table[d]
    BY <1>3 DEF MonitorInv, MonitorTypes, CallsInv, MonitorCall, Begin
  <2> QED
    BY <2>1, CourseKept DEF MonitorInv, MonitorTypes, MonitorCall
<1>4. MonitorCourse(c)'
  <2>1. r.op \in MonitorOps
    BY MonitorAssumption DEF MonitorInv, MonitorTypes
  <2>2. at'[c] = "monitor_read" /\ asks'[c] = r
    BY DEF MonitorInv, CallsInv, MonitorCall, Begin
  <2>3. parts'[c] = Parts(r) /\ table'[c] = <<>>
    BY DEF MonitorInv, MonitorTypes, MonitorCall
  <2>4. Parts(r) \in Seq(Dispatches(r.op)) /\ Parts(r) # <<>>
    BY <2>1, PartsOfCalls
  <2>5. IsTable(table[c])' /\ DOMAIN table'[c] = {}
    BY <2>3, NoTable DEF IsTable
  <2> QED
    BY <2>1, <2>2, <2>3, <2>4, <2>5 DEF MonitorCourse, InOrderOfTime
<1> QED
  BY <1>1, <1>2, <1>3, <1>4 DEF MonitorInv

LEMMA MonitorFailsKeeps ==
  ASSUME MonitorInv, NEW c \in Callers, MonitorFails(c)
  PROVE  MonitorInv'
<1>1. CallsInv'
  BY FailKeepsCalls DEF MonitorInv, MonitorFails, DispatchFails
<1>2. MonitorTypes'
  BY DEF MonitorInv, MonitorTypes, MonitorFails, DispatchFails, Fail, monitorVars
<1>3. ASSUME NEW d \in Callers, d # c
      PROVE  MonitorCourse(d)'
  <2>1. at'[d] = at[d] /\ asks'[d] = asks[d] /\ alone'[d] = alone[d]
    BY <1>3 DEF MonitorInv, CallsInv, MonitorFails, DispatchFails, Fail
  <2> QED
    BY <2>1, CourseKept DEF MonitorInv, MonitorTypes, MonitorFails, monitorVars
<1>4. MonitorCourse(c)'
  <2>1. at'[c] = "idle" /\ asks'[c] = asks[c] /\ alone'[c] = alone[c]
    BY DEF MonitorInv, CallsInv, MonitorFails, DispatchFails, Fail
  <2>2. UNCHANGED <<now, epoch, table>> /\ MonitorCourse(c)
    BY DEF MonitorInv, MonitorFails, monitorVars
  <2>3. \A t : Entry(c, t) => Entry(c, t)'
    BY <2>1, <2>2 DEF Entry, RowsOfOneMoment
  <2>4. \A i \in DOMAIN table[c] : Entry(c, table[c][i])'
    BY <2>2, <2>3 DEF MonitorCourse
  <2>5. IsTable(table[c])'
    BY <2>2 DEF MonitorCourse, IsTable
  <2> QED
    BY <2>1, <2>2, <2>4, <2>5 DEF MonitorCourse, InOrderOfTime
<1> QED
  BY <1>1, <1>2, <1>3, <1>4 DEF MonitorInv

(* The registers move by themselves.                                       *)
LEMMA BufferWarns ==
  ASSUME NEW n \in Nat, NEW b \in BOOLEAN
  PROVE  /\ HsiBuffer(n, b).count = n
         /\ HsiBuffer(n, b).warn \in {0, 1} /\ HsiBuffer(n, b).err \in {0, 1}
         /\ HsiBuffer(n, b).warn = 1 <=> n >= WarnAt
BY DEF HsiBuffer

LEMMA MonitorFirmwareKeeps ==
  ASSUME MonitorInv, CommandSent \/ HsiWord \/ TimePasses
  PROVE  MonitorInv'
<1>1. UNCHANGED callerVars /\ UNCHANGED <<epoch, parts, table>>
  BY DEF CommandSent, HsiWord, TimePasses
<1>2. CallsInv'
  BY <1>1, StutterKeepsCalls DEF MonitorInv
<1>3. now' \in Nat /\ now <= now'
  <2>1. now \in Nat
    BY DEF MonitorInv, MonitorTypes
  <2>2. now' \in {now, now + 1}
    BY DEF CommandSent, HsiWord, TimePasses
  <2> QED
    BY <2>1, <2>2
<1>4. MonitorTypes'
  <2>1. CASE CommandSent
    BY <2>1, <1>1 DEF MonitorInv, MonitorTypes, CommandSent, callerVars
  <2>2. CASE HsiWord
    <3>1. hsi_buf.count \in Nat /\ FullAt \in Nat /\ hsi_buf.count + 1 \in Nat
      BY MonitorAssumption DEF MonitorInv, MonitorTypes
    <3>2. /\ hsi_buf'.count \in Nat /\ hsi_buf'.warn \in {0, 1} /\ hsi_buf'.err \in {0, 1}
          /\ hsi_buf'.warn = 1 <=> hsi_buf'.count >= WarnAt
      <4>1. ASSUME NEW n \in Nat, NEW b \in BOOLEAN, hsi_buf' = HsiBuffer(n, b)
            PROVE  /\ hsi_buf'.count \in Nat
                   /\ hsi_buf'.warn \in {0, 1} /\ hsi_buf'.err \in {0, 1}
                   /\ hsi_buf'.warn = 1 <=> hsi_buf'.count >= WarnAt
        BY <4>1, BufferWarns
      <4>2. CASE hsi_buf' = HsiBuffer(hsi_buf.count + 1, hsi_buf.err = 1)
        <5>1. CASE hsi_buf.err = 1
          <6>1. hsi_buf' = HsiBuffer(hsi_buf.count + 1, TRUE)
            BY <4>2, <5>1 DEF HsiBuffer
          <6> QED
            BY <3>1, <4>1, <6>1
        <5>2. CASE hsi_buf.err # 1
          <6>1. hsi_buf' = HsiBuffer(hsi_buf.count + 1, FALSE)
            BY <4>2, <5>2 DEF HsiBuffer
          <6> QED
            BY <3>1, <4>1, <6>1
        <5> QED
          BY <5>1, <5>2
      <4>3. CASE hsi_buf' = HsiBuffer(FullAt, TRUE)
        BY <3>1, <4>1, <4>3
      <4>4. CASE hsi_buf' = HsiBuffer(0, FALSE)
        BY <4>1, <4>4
      <4> QED
        BY <2>2, <4>2, <4>3, <4>4 DEF HsiWord
    <3>3. UNCHANGED <<now, sent_ctrs>>
      BY <2>2 DEF HsiWord
    <3> QED
      BY <1>1, <3>2, <3>3 DEF MonitorInv, MonitorTypes, callerVars
  <2>3. CASE TimePasses
    BY <2>3, <1>1, <1>3 DEF MonitorInv, MonitorTypes, TimePasses, callerVars
  <2> QED
    BY <2>1, <2>2, <2>3
<1>5. ASSUME NEW d \in Callers
      PROVE  MonitorCourse(d)'
  BY <1>1, <1>3, CourseKept DEF MonitorInv, MonitorTypes, callerVars
<1> QED
  BY <1>2, <1>4, <1>5 DEF MonitorInv

---------------------------------------------------------------------------
(* A dispatch that shows something: how the table of c continues.          *)
LEMMA ShownCourse ==
  ASSUME MonitorInv, NEW c \in Callers, at[c] = "monitor_read", NEW v,
         table' = [table EXCEPT ![c] = Append(@, v)],
         now' = now, epoch' = epoch, asks'[c] = asks[c], alone'[c] = alone[c],
         Entry(c, v), asks[c].op = "irig_status" => v.since = epoch /\ v.seconds = now
  PROVE  /\ IsTable(table[c])'
         /\ (\A i \in DOMAIN table[c] : Entry(c, table[c][i]))'
         /\ InOrderOfTime(c)'
<1> DEFINE s == table[c]
           n == Len(s)
<1>1. IsTable(s) /\ (\A i \in 1 .. n : Entry(c, s[i])) /\ n \in Nat /\ DOMAIN s = 1 .. n
  BY DEF MonitorInv, MonitorCourse, IsTable
<1>2. table'[c] = Append(s, v)
  BY DEF MonitorInv, MonitorTypes
<1>3. /\ IsTable(Append(s, v)) /\ Len(Append(s, v)) = n + 1
      /\ Append(s, v)[n + 1] = v /\ \A i \in 1 .. n : Append(s, v)[i] = s[i]
  BY <1>1, LongerTable
<1>4. IsTable(table[c])' /\ DOMAIN table'[c] = 1 .. n + 1
  BY <1>2, <1>3 DEF IsTable
<1>5. ASSUME NEW i \in 1 .. n + 1
      PROVE  \/ i <= n /\ table'[c][i] = s[i] /\ Entry(c, s[i])
             \/ i = n + 1 /\ table'[c][i] = v
  <2> HIDE DEF s, n
  <2>1. i \in 1 .. n \/ i = n + 1
    BY <1>1
  <2> QED
    BY <1>1, <1>2, <1>3, <2>1
<1>6. ASSUME NEW t, Entry(c, t), asks[c].op = "irig_status" /\ alone[c] => t.since = epoch
      PROVE  Entry(c, t)'
  BY <1>6 DEF Entry, RowsOfOneMoment
<1>7. ASSUME NEW i \in 1 .. n + 1
      PROVE  Entry(c, table[c][i])'
  <2>1. CASE i = n + 1
    BY <1>5, <1>6, <2>1 DEF Entry, RowsOfOneMoment
  <2>2. CASE i # n + 1
    <3>1. table'[c][i] = s[i] /\ Entry(c, s[i])
      BY <1>5, <2>2
    <3>2. asks[c].op = "irig_status" /\ alone[c] => s[i].since = epoch
      BY <3>1 DEF Entry
    <3> QED
      BY <3>1, <3>2, <1>6 DEF Entry, RowsOfOneMoment
  <2> QED
    BY <2>1, <2>2
<1>8. InOrderOfTime(c)'
  <2> SUFFICES ASSUME asks[c].op = "irig_status", alone[c],
                      NEW i \in 1 .. n + 1, NEW j \in 1 .. n + 1, i <= j
               PROVE  /\ table'[c][i].since = table'[c][j].since
                      /\ table'[c][i].seconds <= table'[c][j].seconds
    BY <1>4 DEF InOrderOfTime
  <2>1. now \in Nat
    BY DEF MonitorInv, MonitorTypes
  <2>2. \A k \in 1 .. n : s[k].since = epoch /\ s[k].seconds \in Nat /\ s[k].seconds <= now
    BY <1>1 DEF Entry
  <2>3. CASE j = n + 1
    BY <1>5, <2>1, <2>2, <2>3
  <2>4. CASE j # n + 1
    <3>1. i \in 1 .. n /\ j \in 1 .. n
      BY <1>1, <2>4
    <3>2. s[i].since = s[j].since /\ s[i].seconds <= s[j].seconds
      BY <3>1, <1>1 DEF MonitorInv, MonitorCourse, InOrderOfTime
    <3> QED
      BY <1>5, <3>1, <3>2
  <2> QED
    BY <2>3, <2>4
<1> QED
  BY <1>4, <1>7, <1>8

(* ... and one that shows nothing.                                         *)
LEMMA UnshownCourse ==
  ASSUME MonitorInv, NEW c \in Callers, at[c] = "monitor_read",
         table' = table, now' = now, asks'[c] = asks[c], alone'[c] = alone[c],
         epoch' = epoch \/ asks[c].op = "set_irig_epoch"
  PROVE  /\ IsTable(table[c])'
         /\ (\A i \in DOMAIN table[c] : Entry(c, table[c][i]))'
         /\ InOrderOfTime(c)'
<1>1. MonitorCourse(c)
  BY DEF MonitorInv
<1>2. IsTable(table[c])' /\ InOrderOfTime(c)'
  BY <1>1 DEF MonitorCourse, IsTable, InOrderOfTime
<1>3. ASSUME NEW i \in DOMAIN table[c]
      PROVE  Entry(c, table[c][i])'
  <2>1. Entry(c, table[c][i]) /\ asks[c].op # "set_irig_epoch"
    BY <1>1, <1>3 DEF MonitorCourse, Entry
  <2> QED
    BY <2>1 DEF Entry, RowsOfOneMoment
<1> QED
  BY <1>2, <1>3

(* The counters are read from the first one on: each is shown under its    *)
(* own number.                                                             *)
LEMMA CountersNamed ==
  ASSUME NEW c, SentCounters(c), sent_ctrs \in [0 .. LastCommand -> Nat]
  PROVE  \E v : /\ table' = [table EXCEPT ![c] = Append(@, v)]
                /\ RowsOfOneMoment(v)
<1> DEFINE read == [i \in 0 .. LastCommand - 1 |-> sent_ctrs[(0 + i) % (LastCommand + 1)]]
           v == [rows |-> {<<i, read[i]>> : i \in {j \in DOMAIN read : read[j] > 0}},
                 as_it_was |-> sent_ctrs]
<1>1. table' = [table EXCEPT ![c] = Append(@, v)]
  BY DEF SentCounters, ReadCounters, Shows
<1>2. ASSUME NEW i \in 0 .. LastCommand - 1
      PROVE  read[i] = sent_ctrs[i]
  <2>1. LastCommand + 1 \in Nat /\ i \in 0 .. (LastCommand + 1) - 1 /\ 0 + i = i
    BY MonitorAssumption
  <2> QED
    BY <2>1, SmallRemainder
<1>3. v.as_it_was = sent_ctrs
      /\ v.rows = {<<i, read[i]>> : i \in {j \in DOMAIN read : read[j] > 0}}
  OBVIOUS
<1>4. DOMAIN read = 0 .. LastCommand - 1
  OBVIOUS
<1> HIDE DEF read
<1>5. {j \in DOMAIN read : read[j] > 0} = {j \in 0 .. LastCommand - 1 : sent_ctrs[j] > 0}
  BY <1>2, <1>4
<1>6. {<<i, read[i]>> : i \in {j \in DOMAIN read : read[j] > 0}}
        = {<<i, sent_ctrs[i]>> : i \in {j \in 0 .. LastCommand - 1 : sent_ctrs[j] > 0}}
  BY <1>2, <1>5
<1>7. RowsOfOneMoment(v)
  BY <1>3, <1>6 DEF RowsOfOneMoment
<1> QED
  BY <1>1, <1>7

---------------------------------------------------------------------------
LEMMA RestOfParts ==
  ASSUME NEW S, NEW q \in Seq(S), q # <<>>
  PROVE  /\ Head(q) \in S /\ Len(q) \in Nat /\ Len(q) # 0
         /\ Tail(q) \in Seq(S) /\ (Len(q) # 1 => Tail(q) # <<>>)
<1>1. Len(Tail(q)) = Len(q) - 1 /\ Tail(q) \in Seq(S) /\ Len(q) \in Nat /\ Head(q) \in S
  OBVIOUS
<1>2. Len(q) # 0
  OBVIOUS
<1>3. Len(<<>>) = 0
  OBVIOUS
<1> QED
  BY <1>1, <1>2, <1>3

LEMMA ReadPartKeeps ==
  ASSUME MonitorInv, NEW c \in Callers, ReadPart(c)
  PROVE  MonitorInv'
<1> DEFINE op == asks[c].op
           part == Head(parts[c])
<1>1. /\ at[c] = "monitor_read" /\ MonitorCourse(c) /\ op \in MonitorOps
      /\ parts[c] \in Seq(Dispatches(op)) /\ parts[c] # <<>>
  BY DEF MonitorInv, MonitorCourse, ReadPart
<1>2. part \in Dispatches(op)
  BY <1>1, RestOfParts
<1>3. Tail(parts[c]) \in Seq(Dispatches(op)) /\ (Len(parts[c]) # 1 => Tail(parts[c]) # <<>>)
  BY <1>1, RestOfParts
<1>4. PICK l \in {"idle", "monitor_read"} :
        /\ GoOn(c, l)
        /\ l = "monitor_read" => Len(parts[c]) # 1
  BY DEF ReadPart
<1>5. CallsInv'
  BY <1>1, <1>4, GoOnKeepsCalls DEF MonitorInv
<1>6. /\ at'[c] = l /\ asks'[c] = asks[c] /\ alone'[c] = alone[c] /\ node' = node
      /\ \A d \in Callers : d # c => at'[d] = at[d] /\ asks'[d] = asks[d] /\ alone'[d] = alone[d]
  BY <1>4 DEF MonitorInv, CallsInv, GoOn
<1>7. /\ parts' = [parts EXCEPT ![c] = Tail(@)]
      /\ UNCHANGED <<now, sent_ctrs, hsi_buf>>
  BY DEF ReadPart
<1>8. /\ table' = table \/ (\E v : table' = [table EXCEPT ![c] = Append(@, v)])
      /\ epoch' = epoch \/ part = "set_epoch"
  BY DEF ReadPart, SentCounters, ReadCounters, Shows
<1>9. MonitorTypes'
  <2>1. parts' = [d \in Callers |-> parts'[d]] /\ table' = [d \in Callers |-> table'[d]]
    BY <1>7, <1>8 DEF MonitorInv, MonitorTypes
  <2> QED
    BY <1>6, <1>7, <2>1 DEF MonitorInv, MonitorTypes
<1>10. ASSUME NEW d \in Callers, d # c
       PROVE  MonitorCourse(d)'
  <2>1. parts'[d] = parts[d] /\ table'[d] = table[d]
    BY <1>7, <1>8, <1>10 DEF MonitorInv, MonitorTypes
  <2>2. ~(alone[d] /\ at[d] # "idle")
    BY <1>1, <1>10 DEF MonitorInv, CallsInv
  <2> QED
    BY <1>6, <1>7, <1>10, <2>1, <2>2, CourseKept DEF MonitorInv, MonitorTypes
<1>11. /\ IsTable(table[c])'
       /\ (\A i \in DOMAIN table[c] : Entry(c, table[c][i]))'
       /\ InOrderOfTime(c)'
  <2>1. ASSUME NEW v, table' = [table EXCEPT ![c] = Append(@, v)], epoch' = epoch, Entry(c, v),
               op = "irig_status" => v.since = epoch /\ v.seconds = now
        PROVE  <1>11!:
    BY <1>1, <1>6, <1>7, <2>1, ShownCourse
  <2>2. CASE part = "sent"
    <3>1. SentCounters(c) /\ epoch' = epoch
      BY <2>2 DEF ReadPart
    <3>2. op = "get_status_tables"
      BY <1>1, <1>2, <2>2 DEF Dispatches, MonitorOps
    <3>3. PICK v : table' = [table EXCEPT ![c] = Append(@, v)] /\ RowsOfOneMoment(v)
      BY <3>1, CountersNamed DEF MonitorInv, MonitorTypes
    <3>4. Entry(c, v)
      BY <3>2, <3>3 DEF Entry, MonitorOps
    <3> QED
      BY <2>1, <3>1, <3>2, <3>3, <3>4
  <2>3. CASE part = "hsi"
    <3>1. Shows(c, hsi_buf) /\ epoch' = epoch
      BY <2>3 DEF ReadPart
    <3>2. op = "hsi_status"
      BY <1>1, <1>2, <2>3 DEF Dispatches, MonitorOps
    <3>3. Entry(c, hsi_buf)
      BY <3>2 DEF Entry, MonitorOps, MonitorInv, MonitorTypes
    <3> QED
      BY <2>1, <3>1, <3>2, <3>3 DEF Shows
  <2>4. CASE part = "buffer_state"
    <3>1. Shows(c, BufferState) /\ epoch' = epoch
      BY <2>4 DEF ReadPart
    <3>2. op = "read_buffer_state"
      BY <1>1, <1>2, <2>4 DEF Dispatches, MonitorOps
    <3>3. (BufferState \div 2) % 2 = hsi_buf.warn /\ BufferState \div 65536 = hsi_buf.count
      <4>1. hsi_buf.count \in Nat /\ hsi_buf.warn \in {0, 1} /\ hsi_buf.err \in {0, 1}
        BY DEF MonitorInv, MonitorTypes
      <4> QED
        BY <4>1, PackedWord DEF BufferState
    <3>4. Entry(c, BufferState)
      BY <3>2, <3>3 DEF Entry, MonitorOps, MonitorInv, MonitorTypes
    <3> QED
      BY <2>1, <3>1, <3>2, <3>4 DEF Shows
  <2>5. CASE part \in {"irig_timestamp", "seconds"}
    <3> DEFINE v == [since |-> epoch, seconds |-> now]
    <3>1. Shows(c, v) /\ epoch' = epoch
      BY <2>5 DEF ReadPart
    <3>2. op = "irig_status"
      BY <1>1, <1>2, <2>5 DEF Dispatches, MonitorOps
    <3>3. v.since = epoch /\ v.seconds = now
      OBVIOUS
    <3> HIDE DEF v
    <3>4. Entry(c, v)
      BY <3>2, <3>3 DEF Entry, MonitorOps, MonitorInv, MonitorTypes
    <3> QED
      BY <2>1, <3>1, <3>3, <3>4 DEF Shows
  <2>6. CASE part \notin {"sent", "hsi", "buffer_state", "irig_timestamp", "seconds"}
    <3>1. table' = table
      BY <2>6 DEF ReadPart
    <3>2. part = "set_epoch" => op = "set_irig_epoch"
      BY <1>1, <1>2 DEF Dispatches, MonitorOps
    <3> QED
      BY <1>1, <1>6, <1>7, <1>8, <3>1, <3>2, UnshownCourse
  <2> QED
    BY <2>2, <2>3, <2>4, <2>5, <2>6
<1>12. MonitorCourse(c)'
  <2>1. parts'[c] = Tail(parts[c])
    BY <1>7 DEF MonitorInv, MonitorTypes
  <2>2. at'[c] # "idle" => Tail(parts[c]) # <<>>
    BY <1>3, <1>4, <1>6
  <2>3. op = "set_irig_epoch" => table'[c] = <<>>
    <3>1. ASSUME op = "set_irig_epoch"
          PROVE  table' = table
      BY <1>2, <3>1 DEF ReadPart, Dispatches
    <3> QED
      BY <1>1, <3>1 DEF MonitorCourse
  <2> QED
    BY <1>1, <1>3, <1>4, <1>6, <1>11, <2>1, <2>2, <2>3 DEF MonitorCourse
<1> QED
  BY <1>5, <1>9, <1>10, <1>12 DEF MonitorInv

(* What status tables, HSI and IRIG status show side by side belongs       *)
(* together, for any callers, whatever the firmware counts in between, and *)
(* for any number of commands.                                             *)
THEOREM TablesBelongTogether == MonitorSpec => []ShownTogether
<1>1. CallsInit(MonitorNodes) /\ MonitorInit => MonitorInv
  BY MonitorStarts
<1>2. MonitorInv /\ [MonitorNext]_<<callerVars, monitorVars>> => MonitorInv'
  <2> SUFFICES ASSUME MonitorInv, [MonitorNext]_<<callerVars, monitorVars>>
               PROVE  MonitorInv'
    OBVIOUS
  <2>1. ASSUME NEW c \in Callers, NEW r \in Asks[node][c], MonitorCall(c, r)
        PROVE  MonitorInv'
    BY <2>1, MonitorCallKeeps
  <2>2. ASSUME NEW c \in Callers, ReadPart(c)
        PROVE  MonitorInv'
    BY <2>2, ReadPartKeeps
  <2>3. ASSUME NEW c \in Callers, MonitorFails(c)
        PROVE  MonitorInv'
    BY <2>3, MonitorFailsKeeps
  <2>4. CASE CommandSent \/ HsiWord \/ TimePasses
    BY <2>4, MonitorFirmwareKeeps
  <2>5. CASE UNCHANGED <<callerVars, monitorVars>>
    <3>1. CallsInv'
      BY <2>5, StutterKeepsCalls DEF MonitorInv
    <3>2. MonitorTypes'
      BY <2>5 DEF MonitorInv, MonitorTypes, callerVars, monitorVars
    <3>3. ASSUME NEW d \in Callers
          PROVE  MonitorCourse(d)'
      BY <2>5, CourseKept DEF MonitorInv, MonitorTypes, callerVars, monitorVars
    <3> QED
      BY <3>1, <3>2, <3>3 DEF MonitorInv
  <2> QED
    BY <2>1, <2>2, <2>3, <2>4, <2>5 DEF MonitorNext
<1>3. MonitorInv => ShownTogether
  <2> SUFFICES ASSUME MonitorInv
               PROVE  ShownTogether
    OBVIOUS
  <2> DEFINE Warns(t) == (t \div 2) % 2 = 1 <=> t \div 65536 >= WarnAt
             Together(c, i) == /\ table[c][1].since = table[c][i].since
                               /\ table[c][1].seconds <= table[c][i].seconds
             HsiWarns(t) == t.warn = 1 <=> t.count >= WarnAt
  <2>1. ASSUME NEW c \in Callers, NEW i \in DOMAIN table[c]
        PROVE  /\ asks[c].op = "get_status_tables" => RowsOfOneMoment(table[c][i])
               /\ asks[c].op = "hsi_status" => HsiWarns(table[c][i])
               /\ asks[c].op = "read_buffer_state" => Warns(table[c][i])
               /\ asks[c].op = "irig_status" => (alone[c] /\ i = 2 => Together(c, i))
               /\ asks[c].op \in MonitorOps \ {"set_irig_epoch"}
    <3>1. Entry(c, table[c][i]) /\ InOrderOfTime(c) /\ IsTable(table[c])
      BY DEF MonitorInv, MonitorCourse
    <3>2. i = 2 => 1 \in DOMAIN table[c] /\ 1 <= i
      BY <3>1 DEF IsTable
    <3>3. asks[c].op = "irig_status" /\ alone[c] /\ i = 2 => Together(c, i)
      BY <3>1, <3>2 DEF InOrderOfTime
    <3> QED
      BY <3>1, <3>3 DEF Entry
  <2>2. ASSUME NEW c \in Callers, NEW i \in DOMAIN table[c]
        PROVE  Belongs(c, i)
    <3>1. CASE asks[c].op = "get_status_tables"
      BY <2>1, <3>1 DEF Belongs, RowsOfOneMoment
    <3>2. CASE asks[c].op = "hsi_status"
      BY <2>1, <3>2 DEF Belongs
    <3>3. CASE asks[c].op = "read_buffer_state"
      BY <2>1, <3>3 DEF Belongs
    <3>4. CASE asks[c].op = "irig_status"
      BY <2>1, <3>4 DEF Belongs
    <3> QED
      BY <2>1, <3>1, <3>2, <3>3, <3>4 DEF MonitorOps
  <2> QED
    BY <2>2 DEF ShownTogether
<1> QED
  BY <1>1, <1>2, <1>3, PTL DEF MonitorSpec

-----------------------------------------------------------------------------
(* The TLU.  The writes of a reset, one by one.                            *)
ResetWrites ==
  {Pulse({"soft_rst"}), Pulse({"pll_rst", "rst_i2c"}), Write("AX3_Switch", 1, <<127>>),
   Configure, Write("PLL", 275, <<9, 51>>), Pulse({"rst"})}
  \cup {Write("Expander1", r, <<0>>) : r \in {2, 4, 5, 6, 7}}
  \cup {Write("Expander2", r, <<0>>) : r \in {4, 5, 6, 7}}
  \cup {Write("Expander1", 3, <<136>>)}
  \cup {Write("Expander2", r, <<240>>) : r \in {2, 3}}
  \cup {Write(d, 56, <<0, 0>>) : d \in {"DAC1", "DAC2"}}
  \cup {Write(d, 31, <<88, 157>>) : d \in {"DAC1", "DAC2"}}

(* Concatenation under a name the provers do not look behind.              *)
Cat(s, t) == s \o t

LEMMA Concatenated ==
  ASSUME NEW S, NEW s \in Seq(S), NEW t \in Seq(S)
  PROVE  /\ Cat(s, t) \in Seq(S)
         /\ Len(Cat(s, t)) = Len(s) + Len(t)
         /\ \A i \in 1 .. Len(s) + Len(t) :
              Cat(s, t)[i] = IF i <= Len(s) THEN s[i] ELSE t[i - Len(s)]
BY DEF Cat

LEMMA Triple ==
  ASSUME NEW S, NEW a \in S, NEW b \in S, NEW c \in S
  PROVE  /\ <<a, b, c>> \in Seq(S) /\ Len(<<a, b, c>>) = 3
         /\ <<a, b, c>>[1] = a /\ <<a, b, c>>[2] = b /\ <<a, b, c>>[3] = c
OBVIOUS

LEMMA Pair ==
  ASSUME NEW S, NEW a \in S, NEW b \in S
  PROVE  /\ Cat(<<a>>, <<b>>) \in Seq(S) /\ Len(Cat(<<a>>, <<b>>)) = 2
         /\ Cat(<<a>>, <<b>>)[1] = a /\ Cat(<<a>>, <<b>>)[2] = b
<1> DEFINE s == <<a>>
           t == <<b>>
           u == Cat(s, t)
<1>1. s \in Seq(S) /\ t \in Seq(S) /\ Len(s) = 1 /\ Len(t) = 1 /\ s[1] = a /\ t[1] = b
  OBVIOUS
<1> HIDE DEF s, t
<1>2. /\ u \in Seq(S) /\ Len(u) = Len(s) + Len(t)
      /\ \A i \in 1 .. Len(s) + Len(t) : u[i] = IF i <= Len(s) THEN s[i] ELSE t[i - Len(s)]
  BY <1>1, Concatenated
<1> HIDE DEF u
<1>3. u \in Seq(S) /\ Len(u) = 2 /\ u[1] = a /\ u[2] = b
  BY <1>1, <1>2
<1> QED
  BY <1>3 DEF u, s, t

LEMMA BankWrites ==
  ASSUME NEW e, NEW b, NEW v,
         Write(e, 4 + b, << 0 >>) \in ResetWrites, Write(e, 6 + b, << 0 >>) \in ResetWrites,
         Write(e, 2 + b, <<v>>) \in ResetWrites
  PROVE  /\ Bank(e, b, v) \in Seq(ResetWrites) /\ Len(Bank(e, b, v)) = 3
         /\ Bank(e, b, v)[1] = Write(e, 4 + b, <<0>>)
         /\ Bank(e, b, v)[2] = Write(e, 6 + b, <<0>>)
         /\ Bank(e, b, v)[3] = Write(e, 2 + b, <<v>>)
BY Triple DEF Bank

LEMMA DacWrites ==
  ASSUME NEW i \in {0, 1}
  PROVE  LET s == ConfigureDac(i, BiThreshold, 0)
             d == IF i = 0 THEN "DAC1" ELSE "DAC2"
         IN  /\ s \in Seq(ResetWrites) /\ Len(s) = 2
             /\ s[1] = Write(d, 56, <<0, 0>>) /\ s[2] = Write(d, 31, <<88, 157>>)
<1> DEFINE d == IF i = 0 THEN "DAC1" ELSE "DAC2"
           a == Write(d, 56, <<0, 0>>)
           b == Write(d, 31, <<88, 157>>)
<1>1. a \in ResetWrites /\ b \in ResetWrites
  BY DEF ResetWrites
<1>2. BiThreshold \div 256 = 88 /\ BiThreshold % 256 = 157 /\ 24 + 7 = 31
  BY DEF BiThreshold
<1>3. Reference(d, 0) = <<a>> /\ Value(d, BiThreshold) = <<b>>
  BY <1>2 DEF Reference, Value
<1> HIDE DEF a, b
<1>4. ConfigureDac(i, BiThreshold, 0) = Cat(<<a>>, <<b>>)
  <2>1. BiThreshold \in DacValues /\ i \in 0 .. 1
    BY DEF BiThreshold, DacValues
  <2>2. ConfigureDac(i, BiThreshold, 0) = Cat(Reference(d, 0), Value(d, BiThreshold))
    BY <2>1, Zenon DEF ConfigureDac, Cat
  <2> QED
    BY <1>3, <2>2
<1> QED
  BY <1>1, <1>4, Pair DEF a, b

LEMMA ResetInFull ==
  /\ Reset \in Seq(ResetWrites) /\ Len(Reset) = 22
  /\ Reset[1] = Pulse({"soft_rst"}) /\ Reset[2] = Pulse({"pll_rst", "rst_i2c"})
  /\ Reset[3] = Write("AX3_Switch", 1, <<127>>) /\ Reset[4] = Configure
  /\ Reset[5] = Write("PLL", 275, <<9, 51>>) /\ Reset[6] = Pulse({"rst"})
  /\ Reset[7] = Write("Expander1", 4, <<0>>) /\ Reset[8] = Write("Expander1", 6, <<0>>)
  /\ Reset[9] = Write("Expander1", 2, <<0>>) /\ Reset[10] = Write("Expander1", 5, <<0>>)
  /\ Reset[11] = Write("Expander1", 7, <<0>>) /\ Reset[12] = Write("Expander1", 3, <<136>>)
  /\ Reset[13] = Write("Expander2", 4, <<0>>) /\ Reset[14] = Write("Expander2", 6, <<0>>)
  /\ Reset[15] = Write("Expander2", 2, <<240>>) /\ Reset[16] = Write("Expander2", 5, <<0>>)
  /\ Reset[17] = Write("Expander2", 7, <<0>>) /\ Reset[18] = Write("Expander2", 3, <<240>>)
  /\ Reset[19] = Write("DAC1", 56, <<0, 0>>) /\ Reset[20] = Write("DAC1", 31, <<88, 157>>)
  /\ Reset[21] = Write("DAC2", 56, <<0, 0>>) /\ Reset[22] = Write("DAC2", 31, <<88, 157>>)
<1> DEFINE p1 == Pulse({"soft_rst"})
           p2 == Pulse({"pll_rst", "rst_i2c"})
           p3 == Write("AX3_Switch", 1, <<127>>)
           p5 == Write("PLL", 275, <<9, 51>>)
           p6 == Pulse({"rst"})
           P == <<p1, p2, p3, Configure, p5, p6>>
           A == Bank("Expander1", 0, 0)
           B == Bank("Expander1", 1, 136)
           C == Bank("Expander2", 0, 240)
           D == Bank("Expander2", 1, 240)
           E == ConfigureDac(0, BiThreshold, 0)
           F == ConfigureDac(1, BiThreshold, 0)
           PA == Cat(P, A)
           PB == Cat(PA, B)
           PC == Cat(PB, C)
           PD == Cat(PC, D)
           PE == Cat(PD, E)
           PF == Cat(PE, F)
<1>0. Reset = PF
  BY DEF Reset, Cat
<1>1. /\ P \in Seq(ResetWrites) /\ Len(P) = 6
      /\ P[1] = p1 /\ P[2] = p2 /\ P[3] = p3 /\ P[4] = Configure /\ P[5] = p5 /\ P[6] = p6
  <2>1. {p1, p2, p3, Configure, p5, p6} \subseteq ResetWrites
    BY DEF ResetWrites
  <2> HIDE DEF p1, p2, p3, p5, p6
  <2> QED
    BY <2>1
<1>2. /\ A \in Seq(ResetWrites) /\ Len(A) = 3
      /\ A[1] = Write("Expander1", 4, <<0>>) /\ A[2] = Write("Expander1", 6, <<0>>)
      /\ A[3] = Write("Expander1", 2, <<0>>)
  <2>1. {Write("Expander1", 4, <<0>>), Write("Expander1", 6, <<0>>),
         Write("Expander1", 2, <<0>>)} \subseteq ResetWrites
    BY DEF ResetWrites
  <2>2. 4 + 0 = 4 /\ 6 + 0 = 6 /\ 2 + 0 = 2
    OBVIOUS
  <2> QED
    BY <2>1, <2>2, BankWrites
<1>3. /\ B \in Seq(ResetWrites) /\ Len(B) = 3
      /\ B[1] = Write("Expander1", 5, <<0>>) /\ B[2] = Write("Expander1", 7, <<0>>)
      /\ B[3] = Write("Expander1", 3, <<136>>)
  <2>1. {Write("Expander1", 5, <<0>>), Write("Expander1", 7, <<0>>),
         Write("Expander1", 3, <<136>>)} \subseteq ResetWrites
    BY DEF ResetWrites
  <2>2. 4 + 1 = 5 /\ 6 + 1 = 7 /\ 2 + 1 = 3
    OBVIOUS
  <2> QED
    BY <2>1, <2>2, BankWrites
<1>4. /\ C \in Seq(ResetWrites) /\ Len(C) = 3
      /\ C[1] = Write("Expander2", 4, <<0>>) /\ C[2] = Write("Expander2", 6, <<0>>)
      /\ C[3] = Write("Expander2", 2, <<240>>)
  <2>1. {Write("Expander2", 4, <<0>>), Write("Expander2", 6, <<0>>),
         Write("Expander2", 2, <<240>>)} \subseteq ResetWrites
    BY DEF ResetWrites
  <2>2. 4 + 0 = 4 /\ 6 + 0 = 6 /\ 2 + 0 = 2
    OBVIOUS
  <2> QED
    BY <2>1, <2>2, BankWrites
<1>5. /\ D \in Seq(ResetWrites) /\ Len(D) = 3
      /\ D[1] = Write("Expander2", 5, <<0>>) /\ D[2] = Write("Expander2", 7, <<0>>)
      /\ D[3] = Write("Expander2", 3, <<240>>)
  <2>1. {Write("Expander2", 5, <<0>>), Write("Expander2", 7, <<0>>),
         Write("Expander2", 3, <<240>>)} \subseteq ResetWrites
    BY DEF ResetWrites
  <2>2. 4 + 1 = 5 /\ 6 + 1 = 7 /\ 2 + 1 = 3
    OBVIOUS
  <2> QED
    BY <2>1, <2>2, BankWrites
<1>6. /\ E \in Seq(ResetWrites) /\ Len(E) = 2
      /\ E[1] = Write("DAC1", 56, <<0, 0>>) /\ E[2] = Write("DAC1", 31, <<88, 157>>)
  BY DacWrites
<1>7. /\ F \in Seq(ResetWrites) /\ Len(F) = 2
      /\ F[1] = Write("DAC2", 56, <<0, 0>>) /\ F[2] = Write("DAC2", 31, <<88, 157>>)
  BY DacWrites
<1> HIDE DEF P, A, B, C, D, E, F
<1>8. /\ PA \in Seq(ResetWrites) /\ Len(PA) = 9 /\ \A i \in 1 .. 6 : PA[i] = P[i]
      /\ PA[7] = A[1] /\ PA[8] = A[2] /\ PA[9] = A[3]
  <2>0. P \in Seq(ResetWrites) /\ A \in Seq(ResetWrites)
    BY <1>1, <1>2
  <2>1. /\ PA \in Seq(ResetWrites) /\ Len(PA) = Len(P) + Len(A)
        /\ \A i \in 1 .. Len(P) + Len(A) :
             PA[i] = IF i <= Len(P) THEN P[i] ELSE A[i - Len(P)]
    BY <2>0, Concatenated
  <2> HIDE DEF PA
  <2> QED
    BY <1>1, <1>2, <2>1
<1> HIDE DEF PA
<1>9. /\ PB \in Seq(ResetWrites) /\ Len(PB) = 12 /\ \A i \in 1 .. 9 : PB[i] = PA[i]
      /\ PB[10] = B[1] /\ PB[11] = B[2] /\ PB[12] = B[3]
  <2>0. PA \in Seq(ResetWrites) /\ B \in Seq(ResetWrites)
    BY <1>8, <1>3
  <2>1. /\ PB \in Seq(ResetWrites) /\ Len(PB) = Len(PA) + Len(B)
        /\ \A i \in 1 .. Len(PA) + Len(B) :
             PB[i] = IF i <= Len(PA) THEN PA[i] ELSE B[i - Len(PA)]
    BY <2>0, Concatenated
  <2> HIDE DEF PB
  <2> QED
    BY <1>8, <1>3, <2>1
<1> HIDE DEF PB
<1>10. /\ PC \in Seq(ResetWrites) /\ Len(PC) = 15 /\ \A i \in 1 .. 12 : PC[i] = PB[i]
       /\ PC[13] = C[1] /\ PC[14] = C[2] /\ PC[15] = C[3]
  <2>0. PB \in Seq(ResetWrites) /\ C \in Seq(ResetWrites)
    BY <1>9, <1>4
  <2>1. /\ PC \in Seq(ResetWrites) /\ Len(PC) = Len(PB) + Len(C)
        /\ \A i \in 1 .. Len(PB) + Len(C) :
             PC[i] = IF i <= Len(PB) THEN PB[i] ELSE C[i - Len(PB)]
    BY <2>0, Concatenated
  <2> HIDE DEF PC
  <2> QED
    BY <1>9, <1>4, <2>1
<1> HIDE DEF PC
<1>11. /\ PD \in Seq(ResetWrites) /\ Len(PD) = 18 /\ \A i \in 1 .. 15 : PD[i] = PC[i]
       /\ PD[16] = D[1] /\ PD[17] = D[2] /\ PD[18] = D[3]
  <2>0. PC \in Seq(ResetWrites) /\ D \in Seq(ResetWrites)
    BY <1>10, <1>5
  <2>1. /\ PD \in Seq(ResetWrites) /\ Len(PD) = Len(PC) + Len(D)
        /\ \A i \in 1 .. Len(PC) + Len(D) :
             PD[i] = IF i <= Len(PC) THEN PC[i] ELSE D[i - Len(PC)]
    BY <2>0, Concatenated
  <2> HIDE DEF PD
  <2> QED
    BY <1>10, <1>5, <2>1
<1> HIDE DEF PD
<1>12. /\ PE \in Seq(ResetWrites) /\ Len(PE) = 20 /\ \A i \in 1 .. 18 : PE[i] = PD[i]
       /\ PE[19] = E[1] /\ PE[20] = E[2]
  <2>0. PD \in Seq(ResetWrites) /\ E \in Seq(ResetWrites)
    BY <1>11, <1>6
  <2>1. /\ PE \in Seq(ResetWrites) /\ Len(PE) = Len(PD) + Len(E)
        /\ \A i \in 1 .. Len(PD) + Len(E) :
             PE[i] = IF i <= Len(PD) THEN PD[i] ELSE E[i - Len(PD)]
    BY <2>0, Concatenated
  <2> HIDE DEF PE
  <2> QED
    BY <1>11, <1>6, <2>1
<1> HIDE DEF PE
<1>13. /\ PF \in Seq(ResetWrites) /\ Len(PF) = 22 /\ \A i \in 1 .. 20 : PF[i] = PE[i]
       /\ PF[21] = F[1] /\ PF[22] = F[2]
  <2>0. PE \in Seq(ResetWrites) /\ F \in Seq(ResetWrites)
    BY <1>12, <1>7
  <2>1. /\ PF \in Seq(ResetWrites) /\ Len(PF) = Len(PE) + Len(F)
        /\ \A i \in 1 .. Len(PE) + Len(F) :
             PF[i] = IF i <= Len(PE) THEN PE[i] ELSE F[i - Len(PE)]
    BY <2>0, Concatenated
  <2> HIDE DEF PF
  <2> QED
    BY <1>12, <1>7, <2>1
<1> HIDE DEF PF
<1> QED
  BY <1>0, <1>1, <1>2, <1>3, <1>4, <1>5, <1>6, <1>7, <1>8, <1>9, <1>10, <1>11, <1>12, <1>13

(* A register of a chip has been written, and holds v.                     *)
Holds(chip, reg, v) == <<chip, reg>> \in DOMAIN chips /\ chips[<<chip, reg>>] = v

(* What a reset has achieved when its write k is next.                     *)
Done(k) ==
  /\ k = 5 => pll_page = 2
  /\ k > 4 => Holds("PLL", 275, 9) /\ Holds("PLL", 276, 51)
  /\ k > 7 => Holds("Expander1", 4, 0)
  /\ k > 8 => Holds("Expander1", 6, 0)
  /\ k > 9 => Holds("Expander1", 2, 0)
  /\ k > 10 => Holds("Expander1", 5, 0)
  /\ k > 11 => Holds("Expander1", 7, 0)
  /\ k > 12 => Holds("Expander1", 3, 136)
  /\ k > 13 => Holds("Expander2", 4, 0)
  /\ k > 14 => Holds("Expander2", 6, 0)
  /\ k > 15 => Holds("Expander2", 2, 240)
  /\ k > 16 => Holds("Expander2", 5, 0)
  /\ k > 17 => Holds("Expander2", 7, 0)
  /\ k > 18 => Holds("Expander2", 3, 240)
  /\ k > 19 => Holds("DAC1", 57, 0)
  /\ k > 20 => Holds("DAC1", 31, 88) /\ Holds("DAC1", 32, 157)
  /\ k > 21 => Holds("DAC2", 57, 0)
  /\ k > 22 => Holds("DAC2", 31, 88) /\ Holds("DAC2", 32, 157)

LEMMA AllDone ==
  ASSUME Done(23)'
  PROVE  ResetConverges'
<1>1. /\ Holds("PLL", 275, 9)' /\ Holds("PLL", 276, 51)'
      /\ \A e \in {"Expander1", "Expander2"}, r \in {4, 5, 6, 7} : Holds(e, r, 0)'
      /\ Holds("Expander1", 2, 0)' /\ Holds("Expander1", 3, 136)'
      /\ Holds("Expander2", 2, 240)' /\ Holds("Expander2", 3, 240)'
      /\ \A d \in {"DAC1", "DAC2"} :
           Holds(d, 57, 0)' /\ Holds(d, 31, 88)' /\ Holds(d, 32, 157)'
  BY DEF Done
<1>2. \A e, r, v : Holds(e, r, v)' => <<e, r>> \in DOMAIN chips' /\ chips'[<<e, r>>] = v
  BY DEF Holds
<1>3. \A e \in {"Expander1", "Expander2"}, r \in 4 .. 7 : chips'[<<e, r>>] = 0
  <2>1. 4 .. 7 = {4, 5, 6, 7}
    OBVIOUS
  <2> QED
    BY <1>1, <1>2, <2>1
<1>4. \A d \in {"DAC1", "DAC2"} :
        /\ 256 * chips'[<<d, 31>>] + chips'[<<d, 32>>] = BiThreshold
        /\ chips'[<<d, 57>>] = 0
  <2>1. \A d \in {"DAC1", "DAC2"} :
          chips'[<<d, 31>>] = 88 /\ chips'[<<d, 32>>] = 157 /\ chips'[<<d, 57>>] = 0
    BY <1>1, <1>2
  <2>2. 256 * 88 + 157 = BiThreshold
    BY DEF BiThreshold
  <2> QED
    BY <2>1, <2>2
<1>5. ClockRegisters[275] = 9 /\ ClockRegisters[276] = 51
  BY DEF ClockRegisters
<1>6. \A i \in {275, 276} :
        <<"PLL", i>> \in DOMAIN chips' /\ chips'[<<"PLL", i>>] = ClockRegisters[i]
  BY <1>1, <1>2, <1>5
<1>7. /\ chips'[<<"Expander1", 2>>] = 0   /\ chips'[<<"Expander1", 3>>] = 136
      /\ chips'[<<"Expander2", 2>>] = 240 /\ chips'[<<"Expander2", 3>>] = 240
  BY <1>1, <1>2
<1> QED
  BY <1>3, <1>4, <1>6, <1>7 DEF ResetConverges

(* A write leaves the registers it does not name.                          *)
LEMMA OneRegister ==
  ASSUME NEW chip, NEW reg \in Nat, NEW v, chips' = Holding(chip, reg, <<v>>)
  PROVE  /\ Holds(chip, reg, v)'
         /\ \A e, r, x : Holds(e, r, x) /\ (e # chip \/ r # reg) => Holds(e, r, x)'
<1>1. {<<chip, reg + i - 1>> : i \in DOMAIN <<v>>} = {<<chip, reg>>}
  <2>1. DOMAIN <<v>> = {1} /\ reg + 1 - 1 = reg
    OBVIOUS
  <2> QED
    BY <2>1
<1>2. chips' = [k \in {<<chip, reg>>} \cup DOMAIN chips |->
                  IF k \in {<<chip, reg>>} THEN <<v>>[k[2] - reg + 1] ELSE chips[k]]
  BY <1>1 DEF Holding
<1>3. <<chip, reg>>[2] - reg + 1 = 1 /\ <<v>>[1] = v
  OBVIOUS
<1> QED
  BY <1>2, <1>3 DEF Holds

LEMMA TwoRegisters ==
  ASSUME NEW chip, NEW reg \in Nat, NEW v, NEW w, chips' = Holding(chip, reg, <<v, w>>)
  PROVE  /\ Holds(chip, reg, v)' /\ Holds(chip, reg + 1, w)'
         /\ \A e, r, x : Holds(e, r, x) /\ (e # chip \/ (r # reg /\ r # reg + 1))
                           => Holds(e, r, x)'
<1> DEFINE a == <<chip, reg>>
           b == <<chip, reg + 1>>
<1>1. {<<chip, reg + i - 1>> : i \in DOMAIN <<v, w>>} = {a, b}
  <2>1. DOMAIN <<v, w>> = {1, 2} /\ reg + 1 - 1 = reg /\ reg + 2 - 1 = reg + 1
    OBVIOUS
  <2> QED
    BY <2>1
<1>2. chips' = [k \in {a, b} \cup DOMAIN chips |->
                  IF k \in {a, b} THEN <<v, w>>[k[2] - reg + 1] ELSE chips[k]]
  BY <1>1 DEF Holding
<1>3. <<v, w>>[a[2] - reg + 1] = v /\ <<v, w>>[b[2] - reg + 1] = w
  <2>1. a[2] - reg + 1 = 1 /\ b[2] - reg + 1 = 2
    OBVIOUS
  <2> QED
    BY <2>1
<1>4. DOMAIN chips' = {a, b} \cup DOMAIN chips /\ chips'[a] = v /\ chips'[b] = w
  BY <1>2, <1>3
<1>5. \A k \in DOMAIN chips : k # a /\ k # b => chips'[k] = chips[k]
  BY <1>2
<1> QED
  BY <1>4, <1>5 DEF Holds

LEMMA ChipTakes ==
  ASSUME NEW w, NEW chip, NEW reg, NEW vals, w = Write(chip, reg, vals), chip # "PLL",
         ToChip(w) \/ ToLines(w) \/ ToPll(w)
  PROVE  chips' = Holding(chip, reg, vals)
BY DEF ToChip, ToLines, ToPll, Write, WrittenAt

LEMMA OneWrite ==
  ASSUME NEW w, NEW chip, NEW reg \in Nat, NEW v, w = Write(chip, reg, <<v>>), chip # "PLL",
         ToChip(w) \/ ToLines(w) \/ ToPll(w)
  PROVE  /\ Holds(chip, reg, v)'
         /\ \A e, r, x : Holds(e, r, x) /\ (e # chip \/ r # reg) => Holds(e, r, x)'
<1>1. chips' = Holding(chip, reg, <<v>>)
  BY ChipTakes
<1> QED
  BY <1>1, OneRegister

(* Each write of a reset does its part, and undoes no other.               *)
LEMMA ResetWriteDoes ==
  ASSUME NEW k \in 1 .. 22, Done(k),
         ToChip(Reset[k]) \/ ToLines(Reset[k]) \/ ToPll(Reset[k])
  PROVE  Done(k + 1)'
<1> DEFINE Kept(chip, reg) ==
             \A e, r, x : Holds(e, r, x) /\ (e # chip \/ r # reg) => Holds(e, r, x)'
           KeptBoth(chip, reg, next) ==
             \A e, r, x : Holds(e, r, x) /\ (e # chip \/ (r # reg /\ r # next))
                            => Holds(e, r, x)'
<1>1. CASE k \in {1, 2, 3}
  BY <1>1 DEF Done
<1>2. CASE k = 4
  <2>1. ToPll(Configure)
    BY <1>2, ResetInFull DEF ToChip, ToLines, Configure
  <2>2. pll_page' = 2 /\ Holds("PLL", 275, 9)' /\ Holds("PLL", 276, 51)'
    BY <2>1 DEF ToPll, Holds, ClockRegisters
  <2> QED
    BY <1>2, <2>2 DEF Done
<1>3. CASE k = 5
  <2>1. chips' = Holding("PLL", 531, <<9, 51>>)
    <3>1. pll_page = 2 /\ Reset[k] = Write("PLL", 275, <<9, 51>>)
      BY <1>3, ResetInFull DEF Done
    <3>2. WrittenAt(Write("PLL", 275, <<9, 51>>)) = 531
      BY <3>1 DEF WrittenAt, Write
    <3> QED
      BY <3>1, <3>2 DEF ToChip, ToLines, ToPll, Write
  <2>2. KeptBoth("PLL", 531, 532)
    BY <2>1, TwoRegisters
  <2> QED
    BY <1>3, <2>2 DEF Done
<1>4. CASE k = 6
  <2>1. UNCHANGED chips
    BY <1>4, ResetInFull DEF ToChip, ToLines, ToPll, Pulse
  <2> QED
    BY <1>4, <2>1 DEF Done, Holds
<1>5. CASE k = 7
  <2>1. Reset[k] = Write("Expander1", 4, <<0>>)
    BY <1>5, ResetInFull
  <2>2. Holds("Expander1", 4, 0)' /\ Kept("Expander1", 4)
    BY <2>1, OneWrite
  <2> QED
    BY <1>5, <2>2 DEF Done
<1>6. CASE k = 8
  <2>1. Reset[k] = Write("Expander1", 6, <<0>>)
    BY <1>6, ResetInFull
  <2>2. Holds("Expander1", 6, 0)' /\ Kept("Expander1", 6)
    BY <2>1, OneWrite
  <2> QED
    BY <1>6, <2>2 DEF Done
<1>7. CASE k = 9
  <2>1. Reset[k] = Write("Expander1", 2, <<0>>)
    BY <1>7, ResetInFull
  <2>2. Holds("Expander1", 2, 0)' /\ Kept("Expander1", 2)
    BY <2>1, OneWrite
  <2> QED
    BY <1>7, <2>2 DEF Done
<1>8. CASE k = 10
  <2>1. Reset[k] = Write("Expander1", 5, <<0>>)
    BY <1>8, ResetInFull
  <2>2. Holds("Expander1", 5, 0)' /\ Kept("Expander1", 5)
    BY <2>1, OneWrite
  <2> QED
    BY <1>8, <2>2 DEF Done
<1>9. CASE k = 11
  <2>1. Reset[k] = Write("Expander1", 7, <<0>>)
    BY <1>9, ResetInFull
  <2>2. Holds("Expander1", 7, 0)' /\ Kept("Expander1", 7)
    BY <2>1, OneWrite
  <2> QED
    BY <1>9, <2>2 DEF Done
<1>10. CASE k = 12
  <2>1. Reset[k] = Write("Expander1", 3, <<136>>)
    BY <1>10, ResetInFull
  <2>2. Holds("Expander1", 3, 136)' /\ Kept("Expander1", 3)
    BY <2>1, OneWrite
  <2> QED
    BY <1>10, <2>2 DEF Done
<1>11. CASE k = 13
  <2>1. Reset[k] = Write("Expander2", 4, <<0>>)
    BY <1>11, ResetInFull
  <2>2. Holds("Expander2", 4, 0)' /\ Kept("Expander2", 4)
    BY <2>1, OneWrite
  <2> QED
    BY <1>11, <2>2 DEF Done
<1>12. CASE k = 14
  <2>1. Reset[k] = Write("Expander2", 6, <<0>>)
    BY <1>12, ResetInFull
  <2>2. Holds("Expander2", 6, 0)' /\ Kept("Expander2", 6)
    BY <2>1, OneWrite
  <2> QED
    BY <1>12, <2>2 DEF Done
<1>13. CASE k = 15
  <2>1. Reset[k] = Write("Expander2", 2, <<240>>)
    BY <1>13, ResetInFull
  <2>2. Holds("Expander2", 2, 240)' /\ Kept("Expander2", 2)
    BY <2>1, OneWrite
  <2> QED
    BY <1>13, <2>2 DEF Done
<1>14. CASE k = 16
  <2>1. Reset[k] = Write("Expander2", 5, <<0>>)
    BY <1>14, ResetInFull
  <2>2. Holds("Expander2", 5, 0)' /\ Kept("Expander2", 5)
    BY <2>1, OneWrite
  <2> QED
    BY <1>14, <2>2 DEF Done
<1>15. CASE k = 17
  <2>1. Reset[k] = Write("Expander2", 7, <<0>>)
    BY <1>15, ResetInFull
  <2>2. Holds("Expander2", 7, 0)' /\ Kept("Expander2", 7)
    BY <2>1, OneWrite
  <2> QED
    BY <1>15, <2>2 DEF Done
<1>16. CASE k = 18
  <2>1. Reset[k] = Write("Expander2", 3, <<240>>)
    BY <1>16, ResetInFull
  <2>2. Holds("Expander2", 3, 240)' /\ Kept("Expander2", 3)
    BY <2>1, OneWrite
  <2> QED
    BY <1>16, <2>2 DEF Done
<1>17. CASE k = 19
  <2>1. Reset[k] = Write("DAC1", 56, <<0, 0>>)
    BY <1>17, ResetInFull
  <2>2. chips' = Holding("DAC1", 56, <<0, 0>>)
    BY <2>1, ChipTakes
  <2>3. Holds("DAC1", 56, 0)' /\ Holds("DAC1", 57, 0)' /\ KeptBoth("DAC1", 56, 57)
    BY <2>2, TwoRegisters
  <2> QED
    BY <1>17, <2>3 DEF Done
<1>18. CASE k = 20
  <2>1. Reset[k] = Write("DAC1", 31, <<88, 157>>)
    BY <1>18, ResetInFull
  <2>2. chips' = Holding("DAC1", 31, <<88, 157>>)
    BY <2>1, ChipTakes
  <2>3. Holds("DAC1", 31, 88)' /\ Holds("DAC1", 32, 157)' /\ KeptBoth("DAC1", 31, 32)
    BY <2>2, TwoRegisters
  <2> QED
    BY <1>18, <2>3 DEF Done
<1>19. CASE k = 21
  <2>1. Reset[k] = Write("DAC2", 56, <<0, 0>>)
    BY <1>19, ResetInFull
  <2>2. chips' = Holding("DAC2", 56, <<0, 0>>)
    BY <2>1, ChipTakes
  <2>3. Holds("DAC2", 56, 0)' /\ Holds("DAC2", 57, 0)' /\ KeptBoth("DAC2", 56, 57)
    BY <2>2, TwoRegisters
  <2> QED
    BY <1>19, <2>3 DEF Done
<1>20. CASE k = 22
  <2>1. Reset[k] = Write("DAC2", 31, <<88, 157>>)
    BY <1>20, ResetInFull
  <2>2. chips' = Holding("DAC2", 31, <<88, 157>>)
    BY <2>1, ChipTakes
  <2>3. Holds("DAC2", 31, 88)' /\ Holds("DAC2", 32, 157)' /\ KeptBoth("DAC2", 31, 32)
    BY <2>2, TwoRegisters
  <2> QED
    BY <1>20, <2>3 DEF Done
<1> QED
  BY <1>1, <1>2, <1>3, <1>4, <1>5, <1>6, <1>7, <1>8, <1>9, <1>10, <1>11, <1>12, <1>13, <1>14,
     <1>15, <1>16, <1>17, <1>18, <1>19, <1>20

LEMMA OnlyTheSwitch ==
  ASSUME NEW k \in 1 .. 22, Reset[k].to = "chip", Reset[k].chip = "AX3_Switch"
  PROVE  k = 3
<1>1. Configure.to # "chip" /\ \A lines : Pulse(lines).to # "chip"
  BY DEF Configure, Pulse
<1>2. Reset[1].to # "chip" /\ Reset[2].to # "chip" /\ Reset[4].to # "chip" /\ Reset[6].to # "chip"
  BY <1>1, ResetInFull
<1>3. Reset[5].chip # "AX3_Switch"
  BY ResetInFull DEF Write
<1>4. /\ Reset[7].chip # "AX3_Switch" /\ Reset[8].chip # "AX3_Switch"
      /\ Reset[9].chip # "AX3_Switch" /\ Reset[10].chip # "AX3_Switch"
      /\ Reset[11].chip # "AX3_Switch" /\ Reset[12].chip # "AX3_Switch"
  BY ResetInFull DEF Write
<1>5. /\ Reset[13].chip # "AX3_Switch" /\ Reset[14].chip # "AX3_Switch"
      /\ Reset[15].chip # "AX3_Switch" /\ Reset[16].chip # "AX3_Switch"
      /\ Reset[17].chip # "AX3_Switch" /\ Reset[18].chip # "AX3_Switch"
  BY ResetInFull DEF Write
<1>6. /\ Reset[19].chip # "AX3_Switch" /\ Reset[20].chip # "AX3_Switch"
      /\ Reset[21].chip # "AX3_Switch" /\ Reset[22].chip # "AX3_Switch"
  BY ResetInFull DEF Write
<1> QED
  BY <1>2, <1>3, <1>4, <1>5, <1>6

LEMMA TailOf ==
  ASSUME NEW S, NEW s \in Seq(S), Len(s) > 0
  PROVE  /\ Tail(s) \in Seq(S) /\ Len(Tail(s)) = Len(s) - 1 /\ Head(s) = s[1]
         /\ \A i \in 1 .. Len(s) - 1 : Tail(s)[i] = s[i + 1]
OBVIOUS

(* The call of c resets the board.                                         *)
ResetsBoard(c) == at[c] = "tlu_write" /\ asks[c].op = "reset" /\ asks[c].board = "tlu"

(* What is left of it are the last writes of Reset, and if no call has     *)
(* overlapped it, those before have done their part.                       *)
Underway(c) ==
  /\ todo[c] \in Seq(ResetWrites) /\ Len(todo[c]) \in 1 .. 22
  /\ \A i \in 1 .. Len(todo[c]) : todo[c][i] = Reset[22 - Len(todo[c]) + i]
  /\ alone[c] => Done(23 - Len(todo[c]))

TluInv ==
  /\ CallsInv
  /\ node = "tlu"
  /\ todo = [c \in Callers |-> todo[c]]
  /\ \A c \in Callers :
       /\ at[c] \in {"idle", "tlu_write"}
       /\ at[c] # "idle" => asks[c].op \in TluOps
       /\ ResetsBoard(c) => Underway(c)
  /\ ResetConverges

(* A step of c disturbs no reset that it leaves alone.                     *)
LEMMA OthersGoOn ==
  ASSUME TluInv, NEW c \in Callers, NEW d \in Callers \ {c}, ResetsBoard(d)',
         at'[d] = at[d], asks'[d] = asks[d], todo'[d] = todo[d], ~ alone'[d]
  PROVE  Underway(d)'
BY DEF TluInv, ResetsBoard, Underway

LEMMA Busy ==
  ASSUME NEW c \in Callers,
         at'[c] # "idle" \/ (asks'[c].op \in TluOps /\ (fate'[c] # "ok" \/ ~ alone'[c]))
  PROVE  ResetConverges'
<1>1. NoCall.op \notin TluOps
  BY DEF NoCall, TluOps
<1>2. ~ BoardIsReset'
  BY <1>1 DEF BoardIsReset, HasReset
<1> QED
  BY <1>2 DEF ResetConverges

LEMMA TluCallKeeps ==
  ASSUME TluInv, NEW c \in Callers, NEW r \in Asks[node][c], TluCall(c, r)
  PROVE  TluInv'
<1>1. CallsInv' /\ node' = "tlu" /\ todo' = [d \in Callers |-> todo'[d]]
  BY BeginKeepsCalls DEF TluInv, TluCall, Begin
<1>2. r.op \in TluOps
  BY TluAssumption DEF TluInv
<1>3. at'[c] = "tlu_write" /\ asks'[c] = r /\ todo'[c] = Writes(r)
  BY DEF TluInv, CallsInv, TluCall, Begin
<1>4. \A d \in Callers \ {c} :
        at'[d] = at[d] /\ asks'[d] = asks[d] /\ todo'[d] = todo[d]
  BY DEF TluInv, CallsInv, TluCall, Begin
<1>5. ASSUME NEW d \in Callers
      PROVE  at'[d] \in {"idle", "tlu_write"} /\ (at'[d] # "idle" => asks'[d].op \in TluOps)
  BY <1>2, <1>3, <1>4 DEF TluInv
<1>6. ASSUME NEW d \in Callers, ResetsBoard(d)'
      PROVE  Underway(d)'
  <2>1. CASE d = c
    <3>1. todo'[c] = Reset
      BY <1>3, <1>6, <2>1 DEF ResetsBoard, Writes
    <3>2. Done(1)'
      BY DEF Done
    <3>3. 23 - 22 = 1 /\ \A i \in 1 .. 22 : 22 - 22 + i = i
      OBVIOUS
    <3>4. todo'[c] \in Seq(ResetWrites) /\ Len(todo'[c]) = 22
      BY <3>1, ResetInFull
    <3> QED
      BY <2>1, <3>1, <3>2, <3>3, <3>4 DEF Underway
  <2>2. CASE d # c
    <3>1. ~ alone'[d]
      BY <1>4, <1>6, <2>2 DEF TluCall, Begin, ResetsBoard
    <3> QED
      BY <1>4, <1>6, <2>2, <3>1, OthersGoOn
  <2> QED
    BY <2>1, <2>2
<1>7. ResetConverges'
  BY <1>3, Busy
<1> QED
  BY <1>1, <1>5, <1>6, <1>7 DEF TluInv

(* A write of c, or the quiet failure of one, brings its call on by one.   *)
LEMMA WriteKeeps ==
  ASSUME TluInv, NEW c \in Callers, at[c] = "tlu_write", NEW l,
         l \in {"idle", "tlu_write"}, GoOn(c, l), todo' = [todo EXCEPT ![c] = Tail(@)],
         NEW k \in 1 .. 22, ResetsBoard(c) => Len(todo[c]) = 23 - k /\ (l = "idle" <=> k = 22),
         ResetsBoard(c) /\ alone[c] => Done(k + 1)'
  PROVE  TluInv'
<1>1. CallsInv' /\ node' = "tlu" /\ todo' = [d \in Callers |-> todo'[d]]
  BY GoOnKeepsCalls DEF TluInv, GoOn
<1>2. at'[c] = l /\ todo'[c] = Tail(todo[c])
  BY DEF TluInv, CallsInv, GoOn
<1>3. \A d \in Callers \ {c} :
        /\ at'[d] = at[d] /\ asks'[d] = asks[d] /\ todo'[d] = todo[d]
        /\ at[d] # "idle" => ~ alone'[d]
  BY DEF TluInv, CallsInv, GoOn
<1>4. asks' = asks /\ fate' = fate /\ alone' = alone
  BY DEF GoOn
<1>5. ASSUME NEW d \in Callers
      PROVE  at'[d] \in {"idle", "tlu_write"} /\ (at'[d] # "idle" => asks'[d].op \in TluOps)
  BY <1>2, <1>3, <1>4 DEF TluInv
<1>6. ASSUME NEW d \in Callers, ResetsBoard(d)'
      PROVE  Underway(d)'
  <2>1. CASE d = c
    <3>1. ResetsBoard(c) /\ l = "tlu_write"
      BY <1>2, <1>4, <1>6, <2>1 DEF ResetsBoard
    <3>2. Underway(c) /\ Len(todo[c]) = 23 - k /\ k # 22
      BY <3>1 DEF TluInv
    <3>3. PICK s \in Seq(ResetWrites) : s = todo[c]
      BY <3>2 DEF Underway
    <3>4. Len(s) = 23 - k /\ k \in 1 .. 21 /\ \A i \in 1 .. 23 - k : s[i] = Reset[22 - (23 - k) + i]
      BY <3>2, <3>3 DEF Underway
    <3>5. Len(s) > 0 /\ Len(s) - 1 = 22 - k
      BY <3>4
    <3>6. /\ Tail(s) \in Seq(ResetWrites) /\ Len(Tail(s)) = 22 - k
          /\ \A i \in 1 .. 22 - k : Tail(s)[i] = s[i + 1]
      BY <3>5, TailOf
    <3>7. ASSUME NEW i \in 1 .. 22 - k
          PROVE  Tail(s)[i] = Reset[22 - (22 - k) + i]
      <4>1. i + 1 \in 1 .. 23 - k /\ 22 - (23 - k) + (i + 1) = 22 - (22 - k) + i
        BY <3>4
      <4> QED
        BY <3>4, <3>6, <4>1
    <3>8. 22 - k \in 1 .. 22 /\ 23 - (22 - k) = k + 1
      BY <3>4
    <3>9. todo'[d] = Tail(s) /\ (alone'[d] => Done(k + 1)')
      BY <1>2, <1>4, <2>1, <3>1, <3>3
    <3> QED
      BY <3>6, <3>7, <3>8, <3>9 DEF Underway
  <2>2. CASE d # c
    <3>1. ~ alone'[d]
      BY <1>3, <1>6, <2>2 DEF ResetsBoard
    <3> QED
      BY <1>3, <1>6, <2>2, <3>1, OthersGoOn
  <2> QED
    BY <2>1, <2>2
<1>7. ResetConverges'
  <2>1. CASE l = "idle" /\ HasReset(c)'
    <3>1. ResetsBoard(c) /\ alone[c]
      BY <1>4, <2>1 DEF ResetsBoard, HasReset
    <3>2. k = 22
      BY <2>1, <3>1
    <3>3. Done(22 + 1)'
      BY <3>1, <3>2
    <3> QED
      BY <3>3, 22 + 1 = 23, AllDone
  <2>2. CASE ~ (l = "idle" /\ HasReset(c)')
    <3>1. asks'[c] # NoCall
      BY <1>4 DEF TluInv, TluOps, NoCall
    <3>2. ~ BoardIsReset'
      BY <1>2, <2>2, <3>1 DEF BoardIsReset
    <3> QED
      BY <3>2 DEF ResetConverges
  <2> QED
    BY <2>1, <2>2
<1> QED
  BY <1>1, <1>5, <1>6, <1>7 DEF TluInv

(* The next write of a reset is one of Reset.                              *)
LEMMA Countdown ==
  ASSUME NEW n \in 1 .. 22
  PROVE  1 \in 1 .. n /\ 22 - n + 1 = 23 - n /\ 23 - n \in 1 .. 22 /\ n = 23 - (23 - n)
OBVIOUS

LEMMA NextWrite ==
  ASSUME TluInv, NEW c \in Callers, ResetsBoard(c)
  PROVE  \E k \in 1 .. 22 :
           Len(todo[c]) = 23 - k /\ Head(todo[c]) = Reset[k] /\ (alone[c] => Done(k))
<1>1. Underway(c)
  BY DEF TluInv
<1>2. PICK s \in Seq(ResetWrites) : s = todo[c]
  BY <1>1 DEF Underway
<1>3. PICK n \in 1 .. 22 : n = Len(s)
  BY <1>1, <1>2 DEF Underway
<1>4. Head(s) = s[1]
  BY <1>2, <1>3, TailOf
<1>5. 1 \in 1 .. n /\ 22 - n + 1 = 23 - n /\ 23 - n \in 1 .. 22 /\ n = 23 - (23 - n)
  BY Countdown
<1>6. Head(s) = Reset[23 - n] /\ (alone[c] => Done(23 - n))
  BY <1>1, <1>2, <1>3, <1>4, <1>5 DEF Underway
<1> QED
  BY <1>2, <1>3, <1>5, <1>6

LEMMA TluWriteKeeps ==
  ASSUME TluInv, NEW c \in Callers, TluWrite(c)
  PROVE  TluInv'
<1> DEFINE l == IF Len(todo[c]) = 1 THEN "idle" ELSE "tlu_write"
<1>1. at[c] = "tlu_write" /\ GoOn(c, l) /\ todo' = [todo EXCEPT ![c] = Tail(@)]
  BY DEF TluWrite
<1>2. PICK k \in 1 .. 22 :
        ResetsBoard(c) => /\ Len(todo[c]) = 23 - k /\ Head(todo[c]) = Reset[k]
                          /\ alone[c] => Done(k)
  <2>1. CASE ResetsBoard(c)
    BY <2>1, NextWrite
  <2>2. CASE ~ ResetsBoard(c)
    BY <2>2, 1 \in 1 .. 22
  <2> QED
    BY <2>1, <2>2
<1>3. ASSUME ResetsBoard(c), alone[c]
      PROVE  Done(k + 1)'
  <2>1. ToChip(Reset[k]) \/ ToLines(Reset[k]) \/ ToPll(Reset[k])
    BY <1>2, <1>3 DEF TluWrite
  <2> QED
    BY <1>2, <1>3, <2>1, ResetWriteDoes
<1>4. l \in {"idle", "tlu_write"} /\ (ResetsBoard(c) => (l = "idle" <=> k = 22))
  <2>0. 23 - k = 1 <=> k = 22
    OBVIOUS
  <2>1. ResetsBoard(c) => (Len(todo[c]) = 1 <=> k = 22)
    BY <1>2, <2>0, Zenon
  <2>2. l = "idle" <=> Len(todo[c]) = 1
    OBVIOUS
  <2> QED
    BY <2>1, <2>2
<1> HIDE DEF l
<1> QED
  BY <1>1, <1>2, <1>3, <1>4, WriteKeeps

LEMMA SwitchFailureKeeps ==
  ASSUME TluInv, NEW c \in Callers, SwitchFailsQuietly(c)
  PROVE  TluInv'
<1>1. /\ at[c] = "tlu_write" /\ GoOn(c, "tlu_write")
      /\ todo' = [todo EXCEPT ![c] = Tail(@)]
  BY DEF SwitchFailsQuietly
<1>2. ASSUME ResetsBoard(c)
      PROVE  Len(todo[c]) = 20
  <2>1. PICK k \in 1 .. 22 : Len(todo[c]) = 23 - k /\ Head(todo[c]) = Reset[k]
    BY <1>2, NextWrite
  <2>2. k = 3
    BY <2>1, OnlyTheSwitch DEF SwitchFailsQuietly
  <2> QED
    BY <2>1, <2>2
<1>3. Done(3 + 1)'
  BY DEF Done
<1>4. ResetsBoard(c) => Len(todo[c]) = 23 - 3 /\ ("tlu_write" = "idle" <=> 3 = 22)
  BY <1>2
<1>5. 3 \in 1 .. 22
  OBVIOUS
<1> QED
  BY <1>1, <1>3, <1>4, <1>5, WriteKeeps

(* A call that ends otherwise than well leaves nothing to be shown.        *)
LEMMA FailureKeeps ==
  ASSUME TluInv, NEW c \in Callers, at[c] = "tlu_write", NEW how, how # "ok", Fail(c, how),
         todo' = [d \in Callers |-> todo'[d]], \A d \in Callers \ {c} : todo'[d] = todo[d]
  PROVE  TluInv'
<1>1. CallsInv' /\ node' = "tlu"
  BY FailKeepsCalls DEF TluInv, Fail
<1>2. at'[c] = "idle" /\ fate'[c] = how
  BY DEF TluInv, CallsInv, Fail
<1>3. \A d \in Callers \ {c} :
        /\ at'[d] = at[d] /\ asks'[d] = asks[d]
        /\ at[d] # "idle" => ~ alone'[d]
  BY DEF TluInv, CallsInv, Fail
<1>4. ASSUME NEW d \in Callers
      PROVE  at'[d] \in {"idle", "tlu_write"} /\ (at'[d] # "idle" => asks'[d].op \in TluOps)
  BY <1>2, <1>3 DEF TluInv
<1>5. ASSUME NEW d \in Callers, ResetsBoard(d)'
      PROVE  Underway(d)'
  <2>1. d # c
    BY <1>2, <1>5 DEF ResetsBoard
  <2>2. ~ alone'[d]
    BY <1>3, <1>5, <2>1 DEF ResetsBoard
  <2> QED
    BY <1>3, <1>5, <2>1, <2>2, OthersGoOn
<1>6. ResetConverges'
  <2>1. asks'[c].op \in TluOps
    BY DEF TluInv, Fail
  <2> QED
    BY <1>2, <2>1, Busy
<1> QED
  BY <1>1, <1>4, <1>5, <1>6 DEF TluInv

LEMMA TluInduction ==
  TluInv /\ [TluNext]_<<callerVars, tluVars>> => TluInv'
<1> SUFFICES ASSUME TluInv, [TluNext]_<<callerVars, tluVars>>
             PROVE  TluInv'
  OBVIOUS
<1>1. ASSUME NEW c \in Callers, NEW r \in Asks[node][c], TluCall(c, r)
      PROVE  TluInv'
  BY <1>1, TluCallKeeps
<1>2. ASSUME NEW c \in Callers, TluWrite(c)
      PROVE  TluInv'
  BY <1>2, TluWriteKeeps
<1>3. ASSUME NEW c \in Callers, TluRefuses(c)
      PROVE  TluInv'
  <2>1. /\ at[c] = "tlu_write" /\ Head(todo[c]).to # "ok" /\ Fail(c, Head(todo[c]).to)
        /\ todo' = todo
    BY <1>3 DEF TluRefuses, tluVars
  <2>2. todo' = [d \in Callers |-> todo'[d]]
    BY <2>1 DEF TluInv
  <2> QED
    BY <2>1, <2>2, FailureKeeps
<1>4. ASSUME NEW c \in Callers, SwitchFailsQuietly(c)
      PROVE  TluInv'
  BY <1>4, SwitchFailureKeeps
<1>5. ASSUME NEW c \in Callers, TluFails(c)
      PROVE  TluInv'
  <2>1. at[c] = "tlu_write" /\ Fail(c, "bus_error") /\ todo' = [todo EXCEPT ![c] = <<>>]
    BY <1>5 DEF TluFails, DispatchFails
  <2>2. todo' = [d \in Callers |-> todo'[d]] /\ \A d \in Callers \ {c} : todo'[d] = todo[d]
    BY <2>1 DEF TluInv
  <2> QED
    BY <2>1, <2>2, FailureKeeps
<1>6. CASE UNCHANGED <<callerVars, tluVars>>
  <2>1. CallsInv'
    BY <1>6, StutterKeepsCalls DEF TluInv
  <2>2. UNCHANGED <<node, at, asks, fate, alone, todo, pll_page, chips>>
    BY <1>6 DEF callerVars, tluVars
  <2>3. ASSUME NEW d \in Callers, ResetsBoard(d)'
        PROVE  Underway(d)'
    <3>1. Underway(d)
      BY <2>2, <2>3 DEF TluInv, ResetsBoard
    <3>2. \A e, r, v : Holds(e, r, v) => Holds(e, r, v)'
      BY <2>2 DEF Holds
    <3>3. \A k : Done(k) => Done(k)'
      BY <2>2, <3>2 DEF Done
    <3>4. todo'[d] = todo[d] /\ alone'[d] = alone[d]
      BY <2>2
    <3>5. PICK k : k = 23 - Len(todo[d])
      OBVIOUS
    <3> QED
      BY <3>1, <3>3, <3>4, <3>5 DEF Underway
  <2>4. ResetConverges'
    BY <2>2 DEF TluInv, ResetConverges, BoardIsReset, HasReset
  <2> QED
    BY <2>1, <2>2, <2>3, <2>4 DEF TluInv
<1> QED
  BY <1>1, <1>2, <1>3, <1>4, <1>5, <1>6 DEF TluNext, TluStep

(* A reset that returned, and that no other call has overlapped, has left  *)
(* the board as reset means to: the expanders, the DACs and the clock chip.*)
THEOREM ResetsConverge == TluSpec => []ResetConverges
<1>1. CallsInit({"tlu"}) /\ TluInit => TluInv
  <2> SUFFICES ASSUME CallsInit({"tlu"}), TluInit
               PROVE  TluInv
    OBVIOUS
  <2>1. CallsInv
    BY CallsStart
  <2>2. \A c \in Callers : at[c] = "idle" /\ asks[c] = NoCall
    BY DEF CallsInit
  <2>3. NoCall.op # "reset"
    BY DEF NoCall
  <2>4. ResetConverges
    BY <2>2, <2>3 DEF ResetConverges, BoardIsReset, HasReset
  <2> QED
    BY <2>1, <2>2, <2>4 DEF CallsInit, TluInit, TluInv, ResetsBoard
<1>2. TluInv => ResetConverges
  BY DEF TluInv
<1> QED
  BY <1>1, <1>2, TluInduction, PTL DEF TluSpec

-----------------------------------------------------------------------------
(* The status of an SFP.  Its transactions, one by one.                    *)
Step(what) == [do |-> what]
ReadsRaw(q) == [do |-> "raw", q |-> q, adr |-> RawAddress[q]]
Calibrates(q) == [do |-> "calibrate", q |-> q, adr |-> CalibrationAddress(CalibrationId[q])]
ReadsRx(power) == [do |-> "rx_parameter", power |-> power, adr |-> RxParameterAddress(power)]

StatusReads ==
  {Step(what) : what \in {"vendor", "part_number", "serial_number", "ddm_shown", "swap_shown",
                          "ddm_support", "address_swap", "soft_shown", "tx_disable_bit",
                          "tx_disable_pin"}}
  \cup {ReadsRaw(q) : q \in StraightLines \cup {"RxPower"}}
  \cup {Calibrates(q) : q \in StraightLines}
  \cup {ReadsRx(power) : power \in 0 .. 4}

LEMMA Single ==
  ASSUME NEW S, NEW e \in S
  PROVE  <<e>> \in Seq(S) /\ Len(<<e>>) = 1 /\ <<e>>[1] = e
OBVIOUS

LEMMA DdmInFull ==
  /\ DdmAvailable \in Seq(StatusReads) /\ Len(DdmAvailable) = 2
  /\ DdmAvailable[1] = Step("ddm_support") /\ DdmAvailable[2] = Step("address_swap")
<1>1. Step("ddm_support") \in StatusReads /\ Step("address_swap") \in StatusReads
  BY DEF StatusReads
<1>2. DdmAvailable = Cat(<<Step("ddm_support")>>, <<Step("address_swap")>>)
  BY DEF DdmAvailable, Do, Step, Cat
<1> QED
  BY <1>1, <1>2, Pair

LEMMA RawInFull ==
  ASSUME NEW q \in StraightLines \cup {"RxPower"}
  PROVE  /\ ReadRaw(q) \in Seq(StatusReads) /\ Len(ReadRaw(q)) = 3
         /\ ReadRaw(q)[1] = Step("ddm_support") /\ ReadRaw(q)[2] = Step("address_swap")
         /\ ReadRaw(q)[3] = ReadsRaw(q)
<1> DEFINE A == DdmAvailable
           B == <<ReadsRaw(q)>>
           C == Cat(A, B)
<1>1. ReadRaw(q) = C
  BY DEF ReadRaw, ReadsRaw, Cat
<1>2. B \in Seq(StatusReads) /\ Len(B) = 1 /\ B[1] = ReadsRaw(q)
  <2>1. ReadsRaw(q) \in StatusReads
    BY DEF StatusReads
  <2> QED
    BY <2>1, Single
<1>3. /\ A \in Seq(StatusReads) /\ Len(A) = 2
      /\ A[1] = Step("ddm_support") /\ A[2] = Step("address_swap")
  BY DdmInFull
<1> HIDE DEF A, B
<1>4. /\ C \in Seq(StatusReads) /\ Len(C) = Len(A) + Len(B)
      /\ \A i \in 1 .. Len(A) + Len(B) : C[i] = IF i <= Len(A) THEN A[i] ELSE B[i - Len(A)]
  <2>1. A \in Seq(StatusReads) /\ B \in Seq(StatusReads)
    BY <1>2, <1>3
  <2> QED
    BY <2>1, Concatenated
<1> HIDE DEF C
<1>5. Len(C) = 3 /\ C[1] = A[1] /\ C[2] = A[2] /\ C[3] = B[1]
  BY <1>2, <1>3, <1>4
<1> QED
  BY <1>1, <1>2, <1>3, <1>4, <1>5

LEMMA MeasuredInFull ==
  ASSUME NEW q \in StraightLines
  PROVE  /\ Measured(q) \in Seq(StatusReads) /\ Len(Measured(q)) = 6
         /\ Measured(q)[1] = Step("ddm_support") /\ Measured(q)[2] = Step("address_swap")
         /\ Measured(q)[3] = ReadsRaw(q)
         /\ Measured(q)[4] = Step("ddm_support") /\ Measured(q)[5] = Step("address_swap")
         /\ Measured(q)[6] = Calibrates(q)
<1> DEFINE A == ReadRaw(q)
           B == DdmAvailable
           C == <<Calibrates(q)>>
           D == Cat(A, B)
           E == Cat(D, C)
<1>1. Measured(q) = E
  BY DEF Measured, Calibrates, Cat
<1>2. /\ A \in Seq(StatusReads) /\ Len(A) = 3
      /\ A[1] = Step("ddm_support") /\ A[2] = Step("address_swap") /\ A[3] = ReadsRaw(q)
  BY RawInFull
<1>3. /\ B \in Seq(StatusReads) /\ Len(B) = 2
      /\ B[1] = Step("ddm_support") /\ B[2] = Step("address_swap")
  BY DdmInFull
<1>4. C \in Seq(StatusReads) /\ Len(C) = 1 /\ C[1] = Calibrates(q)
  <2>1. Calibrates(q) \in StatusReads
    BY DEF StatusReads
  <2> QED
    BY <2>1, Single
<1> HIDE DEF A, B, C
<1>5. /\ D \in Seq(StatusReads) /\ Len(D) = Len(A) + Len(B)
      /\ \A i \in 1 .. Len(A) + Len(B) : D[i] = IF i <= Len(A) THEN A[i] ELSE B[i - Len(A)]
  <2>1. A \in Seq(StatusReads) /\ B \in Seq(StatusReads)
    BY <1>2, <1>3
  <2> QED
    BY <2>1, Concatenated
<1> HIDE DEF D
<1>6. /\ Len(D) = 5 /\ D[1] = A[1] /\ D[2] = A[2] /\ D[3] = A[3]
      /\ D[4] = B[1] /\ D[5] = B[2]
  BY <1>2, <1>3, <1>5
<1>7. /\ E \in Seq(StatusReads) /\ Len(E) = Len(D) + Len(C)
      /\ \A i \in 1 .. Len(D) + Len(C) : E[i] = IF i <= Len(D) THEN D[i] ELSE C[i - Len(D)]
  <2>1. C \in Seq(StatusReads) /\ D \in Seq(StatusReads)
    BY <1>4, <1>5
  <2> QED
    BY <2>1, Concatenated
<1> HIDE DEF E
<1>8. /\ Len(E) = 6 /\ E[1] = D[1] /\ E[2] = D[2] /\ E[3] = D[3] /\ E[4] = D[4]
      /\ E[5] = D[5] /\ E[6] = C[1]
  BY <1>4, <1>6, <1>7
<1>9. E \in Seq(StatusReads) /\ Measured(q) = E
  BY <1>1, <1>5, <1>7
<1> QED
  BY <1>2, <1>3, <1>4, <1>6, <1>8, <1>9

LEMMA RxInFull ==
  /\ RxPower \in Seq(StatusReads) /\ Len(RxPower) = 8
  /\ RxPower[1] = Step("ddm_support") /\ RxPower[2] = Step("address_swap")
  /\ RxPower[3] = ReadsRaw("RxPower")
  /\ RxPower[4] = ReadsRx(0) /\ RxPower[5] = ReadsRx(1) /\ RxPower[6] = ReadsRx(2)
  /\ RxPower[7] = ReadsRx(3) /\ RxPower[8] = ReadsRx(4)
<1> DEFINE A == ReadRaw("RxPower")
           B == [i \in 1 .. 5 |-> ReadsRx(i - 1)]
           D == Cat(A, B)
<1>0. RxPower = D
  BY DEF RxPower, ReadsRx, Cat
<1>1. /\ A \in Seq(StatusReads) /\ Len(A) = 3
      /\ A[1] = Step("ddm_support") /\ A[2] = Step("address_swap") /\ A[3] = ReadsRaw("RxPower")
  BY RawInFull
<1>2. B \in Seq(StatusReads) /\ Len(B) = 5 /\ \A i \in 1 .. 5 : B[i] = ReadsRx(i - 1)
  <2>1. \A i \in 1 .. 5 : ReadsRx(i - 1) \in StatusReads
    <3>1. \A i \in 1 .. 5 : i - 1 \in 0 .. 4
      OBVIOUS
    <3> QED
      BY <3>1 DEF StatusReads
  <2> QED
    BY <2>1
<1> HIDE DEF A, B
<1>3. /\ D \in Seq(StatusReads) /\ Len(D) = Len(A) + Len(B)
      /\ \A i \in 1 .. Len(A) + Len(B) : D[i] = IF i <= Len(A) THEN A[i] ELSE B[i - Len(A)]
  <2>1. A \in Seq(StatusReads) /\ B \in Seq(StatusReads)
    BY <1>1, <1>2
  <2> QED
    BY <2>1, Concatenated
<1> HIDE DEF D
<1>4. /\ Len(D) = 8 /\ D[1] = A[1] /\ D[2] = A[2] /\ D[3] = A[3]
      /\ D[4] = B[1] /\ D[5] = B[2] /\ D[6] = B[3] /\ D[7] = B[4] /\ D[8] = B[5]
  BY <1>1, <1>2, <1>3
<1>5. /\ B[1] = ReadsRx(0) /\ B[2] = ReadsRx(1) /\ B[3] = ReadsRx(2)
      /\ B[4] = ReadsRx(3) /\ B[5] = ReadsRx(4)
  <2>1. 1 - 1 = 0 /\ 2 - 1 = 1 /\ 3 - 1 = 2 /\ 4 - 1 = 3 /\ 5 - 1 = 4
    OBVIOUS
  <2> QED
    BY <1>2, <2>1
<1>6. D \in Seq(StatusReads) /\ RxPower = D
  BY <1>0, <1>3
<1> QED
  BY <1>1, <1>4, <1>5, <1>6

LEMMA DoInFull ==
  ASSUME NEW what, Step(what) \in StatusReads
  PROVE  Do(what) \in Seq(StatusReads) /\ Len(Do(what)) = 1 /\ Do(what)[1] = Step(what)
<1>1. Do(what) = <<Step(what)>>
  BY DEF Do, Step
<1> QED
  BY <1>1, Single

LEMMA StatusInFull ==
  /\ Status \in Seq(StatusReads) /\ Len(Status) = 41
  /\ Status[1] = Step("vendor") /\ Status[2] = Step("part_number")
  /\ Status[3] = Step("serial_number") /\ Status[4] = Step("ddm_shown")
  /\ Status[5] = Step("swap_shown") /\ Status[6] = Step("ddm_support")
  /\ Status[7] = Step("address_swap") /\ Status[8] = ReadsRaw("Temperature")
  /\ Status[9] = Step("ddm_support") /\ Status[10] = Step("address_swap")
  /\ Status[11] = Calibrates("Temperature") /\ Status[12] = Step("ddm_support")
  /\ Status[13] = Step("address_swap") /\ Status[14] = ReadsRaw("Voltage")
  /\ Status[15] = Step("ddm_support") /\ Status[16] = Step("address_swap")
  /\ Status[17] = Calibrates("Voltage") /\ Status[18] = Step("ddm_support")
  /\ Status[19] = Step("address_swap") /\ Status[20] = ReadsRaw("RxPower")
  /\ Status[21] = ReadsRx(0) /\ Status[22] = ReadsRx(1) /\ Status[23] = ReadsRx(2)
  /\ Status[24] = ReadsRx(3) /\ Status[25] = ReadsRx(4) /\ Status[26] = Step("ddm_support")
  /\ Status[27] = Step("address_swap") /\ Status[28] = ReadsRaw("TxPower")
  /\ Status[29] = Step("ddm_support") /\ Status[30] = Step("address_swap")
  /\ Status[31] = Calibrates("TxPower") /\ Status[32] = Step("ddm_support")
  /\ Status[33] = Step("address_swap") /\ Status[34] = ReadsRaw("Current")
  /\ Status[35] = Step("ddm_support") /\ Status[36] = Step("address_swap")
  /\ Status[37] = Calibrates("Current") /\ Status[38] = Step("soft_shown")
  /\ Status[39] = Step("ddm_support") /\ Status[40] = Step("address_swap")
  /\ Status[41] = Step("tx_disable_pin")
<1> DEFINE Q1 == Do("vendor")
           Q2 == Do("part_number")
           Q3 == Do("serial_number")
           Q4 == Do("ddm_shown")
           Q5 == Do("swap_shown")
           Q6 == Measured("Temperature")
           Q7 == Measured("Voltage")
           Q8 == RxPower
           Q9 == Measured("TxPower")
           Q10 == Measured("Current")
           Q11 == Do("soft_shown")
           Q12 == DdmAvailable
           Q13 == Do("tx_disable_pin")
           P2 == Cat(Q1, Q2)
           P3 == Cat(P2, Q3)
           P4 == Cat(P3, Q4)
           P5 == Cat(P4, Q5)
           P6 == Cat(P5, Q6)
           P7 == Cat(P6, Q7)
           P8 == Cat(P7, Q8)
           P9 == Cat(P8, Q9)
           P10 == Cat(P9, Q10)
           P11 == Cat(P10, Q11)
           P12 == Cat(P11, Q12)
           P13 == Cat(P12, Q13)
<1>0. Status = P13
  BY DEF Status, Cat
<1>a1. /\ Q1 \in Seq(StatusReads) /\ Len(Q1) = 1
       /\ Q1[1] = Step("vendor")
  <2>1. Step("vendor") \in StatusReads
    BY DEF StatusReads
  <2> QED
    BY <2>1, DoInFull
<1>a2. /\ Q2 \in Seq(StatusReads) /\ Len(Q2) = 1
       /\ Q2[1] = Step("part_number")
  <2>1. Step("part_number") \in StatusReads
    BY DEF StatusReads
  <2> QED
    BY <2>1, DoInFull
<1>a3. /\ Q3 \in Seq(StatusReads) /\ Len(Q3) = 1
       /\ Q3[1] = Step("serial_number")
  <2>1. Step("serial_number") \in StatusReads
    BY DEF StatusReads
  <2> QED
    BY <2>1, DoInFull
<1>a4. /\ Q4 \in Seq(StatusReads) /\ Len(Q4) = 1
       /\ Q4[1] = Step("ddm_shown")
  <2>1. Step("ddm_shown") \in StatusReads
    BY DEF StatusReads
  <2> QED
    BY <2>1, DoInFull
<1>a5. /\ Q5 \in Seq(StatusReads) /\ Len(Q5) = 1
       /\ Q5[1] = Step("swap_shown")
  <2>1. Step("swap_shown") \in StatusReads
    BY DEF StatusReads
  <2> QED
    BY <2>1, DoInFull
<1>a6. /\ Q6 \in Seq(StatusReads) /\ Len(Q6) = 6
       /\ Q6[1] = Step("ddm_support") /\ Q6[2] = Step("address_swap")
       /\ Q6[3] = ReadsRaw("Temperature") /\ Q6[4] = Step("ddm_support")
       /\ Q6[5] = Step("address_swap") /\ Q6[6] = Calibrates("Temperature")
  BY MeasuredInFull DEF StraightLines
<1>a7. /\ Q7 \in Seq(StatusReads) /\ Len(Q7) = 6
       /\ Q7[1] = Step("ddm_support") /\ Q7[2] = Step("address_swap")
       /\ Q7[3] = ReadsRaw("Voltage") /\ Q7[4] = Step("ddm_support")
       /\ Q7[5] = Step("address_swap") /\ Q7[6] = Calibrates("Voltage")
  BY MeasuredInFull DEF StraightLines
<1>a8. /\ Q8 \in Seq(StatusReads) /\ Len(Q8) = 8
       /\ Q8[1] = Step("ddm_support") /\ Q8[2] = Step("address_swap")
       /\ Q8[3] = ReadsRaw("RxPower") /\ Q8[4] = ReadsRx(0) /\ Q8[5] = ReadsRx(1)
       /\ Q8[6] = ReadsRx(2) /\ Q8[7] = ReadsRx(3) /\ Q8[8] = ReadsRx(4)
  BY RxInFull
<1>a9. /\ Q9 \in Seq(StatusReads) /\ Len(Q9) = 6
       /\ Q9[1] = Step("ddm_support") /\ Q9[2] = Step("address_swap")
       /\ Q9[3] = ReadsRaw("TxPower") /\ Q9[4] = Step("ddm_support")
       /\ Q9[5] = Step("address_swap") /\ Q9[6] = Calibrates("TxPower")
  BY MeasuredInFull DEF StraightLines
<1>a10. /\ Q10 \in Seq(StatusReads) /\ Len(Q10) = 6
        /\ Q10[1] = Step("ddm_support") /\ Q10[2] = Step("address_swap")
        /\ Q10[3] = ReadsRaw("Current") /\ Q10[4] = Step("ddm_support")
        /\ Q10[5] = Step("address_swap") /\ Q10[6] = Calibrates("Current")
  BY MeasuredInFull DEF StraightLines
<1>a11. /\ Q11 \in Seq(StatusReads) /\ Len(Q11) = 1
        /\ Q11[1] = Step("soft_shown")
  <2>1. Step("soft_shown") \in StatusReads
    BY DEF StatusReads
  <2> QED
    BY <2>1, DoInFull
<1>a12. /\ Q12 \in Seq(StatusReads) /\ Len(Q12) = 2
        /\ Q12[1] = Step("ddm_support") /\ Q12[2] = Step("address_swap")
  BY DdmInFull
<1>a13. /\ Q13 \in Seq(StatusReads) /\ Len(Q13) = 1
        /\ Q13[1] = Step("tx_disable_pin")
  <2>1. Step("tx_disable_pin") \in StatusReads
    BY DEF StatusReads
  <2> QED
    BY <2>1, DoInFull
<1> HIDE DEF Q1, Q2, Q3, Q4, Q5, Q6, Q7, Q8, Q9, Q10, Q11, Q12, Q13
<1>b2. /\ P2 \in Seq(StatusReads) /\ Len(P2) = Len(Q1) + Len(Q2)
       /\ \A i \in 1 .. Len(Q1) + Len(Q2) :
            P2[i] = IF i <= Len(Q1) THEN Q1[i] ELSE Q2[i - Len(Q1)]
  <2>1. Q1 \in Seq(StatusReads) /\ Q2 \in Seq(StatusReads)
    BY <1>a1, <1>a2
  <2> QED
    BY <2>1, Concatenated
<1> HIDE DEF P2
<1>c2. /\ Len(P2) = 2 /\ \A i \in 1 .. 1 : P2[i] = Q1[i]
       /\ P2[2] = Q2[1]
  BY <1>a1, <1>a2, <1>b2
<1>b3. /\ P3 \in Seq(StatusReads) /\ Len(P3) = Len(P2) + Len(Q3)
       /\ \A i \in 1 .. Len(P2) + Len(Q3) :
            P3[i] = IF i <= Len(P2) THEN P2[i] ELSE Q3[i - Len(P2)]
  <2>1. P2 \in Seq(StatusReads) /\ Q3 \in Seq(StatusReads)
    BY <1>b2, <1>a3
  <2> QED
    BY <2>1, Concatenated
<1> HIDE DEF P3
<1>c3. /\ Len(P3) = 3 /\ \A i \in 1 .. 2 : P3[i] = P2[i]
       /\ P3[3] = Q3[1]
  BY <1>c2, <1>a3, <1>b3
<1>b4. /\ P4 \in Seq(StatusReads) /\ Len(P4) = Len(P3) + Len(Q4)
       /\ \A i \in 1 .. Len(P3) + Len(Q4) :
            P4[i] = IF i <= Len(P3) THEN P3[i] ELSE Q4[i - Len(P3)]
  <2>1. P3 \in Seq(StatusReads) /\ Q4 \in Seq(StatusReads)
    BY <1>b3, <1>a4
  <2> QED
    BY <2>1, Concatenated
<1> HIDE DEF P4
<1>c4. /\ Len(P4) = 4 /\ \A i \in 1 .. 3 : P4[i] = P3[i]
       /\ P4[4] = Q4[1]
  BY <1>c3, <1>a4, <1>b4
<1>b5. /\ P5 \in Seq(StatusReads) /\ Len(P5) = Len(P4) + Len(Q5)
       /\ \A i \in 1 .. Len(P4) + Len(Q5) :
            P5[i] = IF i <= Len(P4) THEN P4[i] ELSE Q5[i - Len(P4)]
  <2>1. P4 \in Seq(StatusReads) /\ Q5 \in Seq(StatusReads)
    BY <1>b4, <1>a5
  <2> QED
    BY <2>1, Concatenated
<1> HIDE DEF P5
<1>c5. /\ Len(P5) = 5 /\ \A i \in 1 .. 4 : P5[i] = P4[i]
       /\ P5[5] = Q5[1]
  BY <1>c4, <1>a5, <1>b5
<1>b6. /\ P6 \in Seq(StatusReads) /\ Len(P6) = Len(P5) + Len(Q6)
       /\ \A i \in 1 .. Len(P5) + Len(Q6) :
            P6[i] = IF i <= Len(P5) THEN P5[i] ELSE Q6[i - Len(P5)]
  <2>1. P5 \in Seq(StatusReads) /\ Q6 \in Seq(StatusReads)
    BY <1>b5, <1>a6
  <2> QED
    BY <2>1, Concatenated
<1> HIDE DEF P6
<1>c6. /\ Len(P6) = 11 /\ \A i \in 1 .. 5 : P6[i] = P5[i]
       /\ P6[6] = Q6[1] /\ P6[7] = Q6[2] /\ P6[8] = Q6[3] /\ P6[9] = Q6[4] /\ P6[10] = Q6[5]
       /\ P6[11] = Q6[6]
  BY <1>c5, <1>a6, <1>b6
<1>b7. /\ P7 \in Seq(StatusReads) /\ Len(P7) = Len(P6) + Len(Q7)
       /\ \A i \in 1 .. Len(P6) + Len(Q7) :
            P7[i] = IF i <= Len(P6) THEN P6[i] ELSE Q7[i - Len(P6)]
  <2>1. P6 \in Seq(StatusReads) /\ Q7 \in Seq(StatusReads)
    BY <1>b6, <1>a7
  <2> QED
    BY <2>1, Concatenated
<1> HIDE DEF P7
<1>c7. /\ Len(P7) = 17 /\ \A i \in 1 .. 11 : P7[i] = P6[i]
       /\ P7[12] = Q7[1] /\ P7[13] = Q7[2] /\ P7[14] = Q7[3] /\ P7[15] = Q7[4] /\ P7[16] = Q7[5]
       /\ P7[17] = Q7[6]
  BY <1>c6, <1>a7, <1>b7
<1>b8. /\ P8 \in Seq(StatusReads) /\ Len(P8) = Len(P7) + Len(Q8)
       /\ \A i \in 1 .. Len(P7) + Len(Q8) :
            P8[i] = IF i <= Len(P7) THEN P7[i] ELSE Q8[i - Len(P7)]
  <2>1. P7 \in Seq(StatusReads) /\ Q8 \in Seq(StatusReads)
    BY <1>b7, <1>a8
  <2> QED
    BY <2>1, Concatenated
<1> HIDE DEF P8
<1>c8. /\ Len(P8) = 25 /\ \A i \in 1 .. 17 : P8[i] = P7[i]
       /\ P8[18] = Q8[1] /\ P8[19] = Q8[2] /\ P8[20] = Q8[3] /\ P8[21] = Q8[4] /\ P8[22] = Q8[5]
       /\ P8[23] = Q8[6] /\ P8[24] = Q8[7] /\ P8[25] = Q8[8]
  BY <1>c7, <1>a8, <1>b8
<1>b9. /\ P9 \in Seq(StatusReads) /\ Len(P9) = Len(P8) + Len(Q9)
       /\ \A i \in 1 .. Len(P8) + Len(Q9) :
            P9[i] = IF i <= Len(P8) THEN P8[i] ELSE Q9[i - Len(P8)]
  <2>1. P8 \in Seq(StatusReads) /\ Q9 \in Seq(StatusReads)
    BY <1>b8, <1>a9
  <2> QED
    BY <2>1, Concatenated
<1> HIDE DEF P9
<1>c9. /\ Len(P9) = 31 /\ \A i \in 1 .. 25 : P9[i] = P8[i]
       /\ P9[26] = Q9[1] /\ P9[27] = Q9[2] /\ P9[28] = Q9[3] /\ P9[29] = Q9[4] /\ P9[30] = Q9[5]
       /\ P9[31] = Q9[6]
  BY <1>c8, <1>a9, <1>b9
<1>b10. /\ P10 \in Seq(StatusReads) /\ Len(P10) = Len(P9) + Len(Q10)
        /\ \A i \in 1 .. Len(P9) + Len(Q10) :
             P10[i] = IF i <= Len(P9) THEN P9[i] ELSE Q10[i - Len(P9)]
  <2>1. P9 \in Seq(StatusReads) /\ Q10 \in Seq(StatusReads)
    BY <1>b9, <1>a10
  <2> QED
    BY <2>1, Concatenated
<1> HIDE DEF P10
<1>c10. /\ Len(P10) = 37 /\ \A i \in 1 .. 31 : P10[i] = P9[i]
        /\ P10[32] = Q10[1] /\ P10[33] = Q10[2] /\ P10[34] = Q10[3] /\ P10[35] = Q10[4]
        /\ P10[36] = Q10[5] /\ P10[37] = Q10[6]
  BY <1>c9, <1>a10, <1>b10
<1>b11. /\ P11 \in Seq(StatusReads) /\ Len(P11) = Len(P10) + Len(Q11)
        /\ \A i \in 1 .. Len(P10) + Len(Q11) :
             P11[i] = IF i <= Len(P10) THEN P10[i] ELSE Q11[i - Len(P10)]
  <2>1. P10 \in Seq(StatusReads) /\ Q11 \in Seq(StatusReads)
    BY <1>b10, <1>a11
  <2> QED
    BY <2>1, Concatenated
<1> HIDE DEF P11
<1>c11. /\ Len(P11) = 38 /\ \A i \in 1 .. 37 : P11[i] = P10[i]
        /\ P11[38] = Q11[1]
  BY <1>c10, <1>a11, <1>b11
<1>b12. /\ P12 \in Seq(StatusReads) /\ Len(P12) = Len(P11) + Len(Q12)
        /\ \A i \in 1 .. Len(P11) + Len(Q12) :
             P12[i] = IF i <= Len(P11) THEN P11[i] ELSE Q12[i - Len(P11)]
  <2>1. P11 \in Seq(StatusReads) /\ Q12 \in Seq(StatusReads)
    BY <1>b11, <1>a12
  <2> QED
    BY <2>1, Concatenated
<1> HIDE DEF P12
<1>c12. /\ Len(P12) = 40 /\ \A i \in 1 .. 38 : P12[i] = P11[i]
        /\ P12[39] = Q12[1] /\ P12[40] = Q12[2]
  BY <1>c11, <1>a12, <1>b12
<1>b13. /\ P13 \in Seq(StatusReads) /\ Len(P13) = Len(P12) + Len(Q13)
        /\ \A i \in 1 .. Len(P12) + Len(Q13) :
             P13[i] = IF i <= Len(P12) THEN P12[i] ELSE Q13[i - Len(P12)]
  <2>1. P12 \in Seq(StatusReads) /\ Q13 \in Seq(StatusReads)
    BY <1>b12, <1>a13
  <2> QED
    BY <2>1, Concatenated
<1> HIDE DEF P13
<1>c13. /\ Len(P13) = 41 /\ \A i \in 1 .. 40 : P13[i] = P12[i]
        /\ P13[41] = Q13[1]
  BY <1>c12, <1>a13, <1>b13
<1>d. Status = P13 /\ Status \in Seq(StatusReads) /\ Len(Status) = 41
  BY <1>0, <1>b13, <1>c13
<1>e1. /\ P13[1] = Step("vendor")
  BY <1>a1, <1>c2, <1>c3, <1>c4, <1>c5, <1>c6, <1>c7, <1>c8, <1>c9, <1>c10, <1>c11, <1>c12, <1>c13
<1>e2. /\ P13[2] = Step("part_number")
  BY <1>a2, <1>c2, <1>c3, <1>c4, <1>c5, <1>c6, <1>c7, <1>c8, <1>c9, <1>c10, <1>c11, <1>c12, <1>c13
<1>e3. /\ P13[3] = Step("serial_number")
  BY <1>a3, <1>c3, <1>c4, <1>c5, <1>c6, <1>c7, <1>c8, <1>c9, <1>c10, <1>c11, <1>c12, <1>c13
<1>e4. /\ P13[4] = Step("ddm_shown")
  BY <1>a4, <1>c4, <1>c5, <1>c6, <1>c7, <1>c8, <1>c9, <1>c10, <1>c11, <1>c12, <1>c13
<1>e5. /\ P13[5] = Step("swap_shown")
  BY <1>a5, <1>c5, <1>c6, <1>c7, <1>c8, <1>c9, <1>c10, <1>c11, <1>c12, <1>c13
<1>e6.
        /\ P13[6] = Step("ddm_support") /\ P13[7] = Step("address_swap")
        /\ P13[8] = ReadsRaw("Temperature") /\ P13[9] = Step("ddm_support")
        /\ P13[10] = Step("address_swap") /\ P13[11] = Calibrates("Temperature")
  BY <1>a6, <1>c6, <1>c7, <1>c8, <1>c9, <1>c10, <1>c11, <1>c12, <1>c13
<1>e7.
        /\ P13[12] = Step("ddm_support") /\ P13[13] = Step("address_swap")
        /\ P13[14] = ReadsRaw("Voltage") /\ P13[15] = Step("ddm_support")
        /\ P13[16] = Step("address_swap") /\ P13[17] = Calibrates("Voltage")
  BY <1>a7, <1>c7, <1>c8, <1>c9, <1>c10, <1>c11, <1>c12, <1>c13
<1>e8.
        /\ P13[18] = Step("ddm_support") /\ P13[19] = Step("address_swap")
        /\ P13[20] = ReadsRaw("RxPower") /\ P13[21] = ReadsRx(0) /\ P13[22] = ReadsRx(1)
        /\ P13[23] = ReadsRx(2) /\ P13[24] = ReadsRx(3) /\ P13[25] = ReadsRx(4)
  BY <1>a8, <1>c8, <1>c9, <1>c10, <1>c11, <1>c12, <1>c13
<1>e9.
        /\ P13[26] = Step("ddm_support") /\ P13[27] = Step("address_swap")
        /\ P13[28] = ReadsRaw("TxPower") /\ P13[29] = Step("ddm_support")
        /\ P13[30] = Step("address_swap") /\ P13[31] = Calibrates("TxPower")
  BY <1>a9, <1>c9, <1>c10, <1>c11, <1>c12, <1>c13
<1>e10.
        /\ P13[32] = Step("ddm_support") /\ P13[33] = Step("address_swap")
        /\ P13[34] = ReadsRaw("Current") /\ P13[35] = Step("ddm_support")
        /\ P13[36] = Step("address_swap") /\ P13[37] = Calibrates("Current")
  BY <1>a10, <1>c10, <1>c11, <1>c12, <1>c13
<1>e11. /\ P13[38] = Step("soft_shown")
  BY <1>a11, <1>c11, <1>c12, <1>c13
<1>e12.
        /\ P13[39] = Step("ddm_support") /\ P13[40] = Step("address_swap")
  BY <1>a12, <1>c12, <1>c13
<1>e13. /\ P13[41] = Step("tx_disable_pin")
  BY <1>a13, <1>c13
<1> QED
  BY <1>d, <1>e1, <1>e2, <1>e3, <1>e4, <1>e5, <1>e6, <1>e7, <1>e8,
     <1>e9, <1>e10, <1>e11, <1>e12, <1>e13

(* How it ends for an SFP that has soft control.                           *)
SoftEnd == DdmAvailable \o Do("tx_disable_bit") \o DdmAvailable \o Do("tx_disable_pin")

LEMMA SoftEndInFull ==
  /\ SoftEnd \in Seq(StatusReads) /\ Len(SoftEnd) = 6
  /\ SoftEnd[1] = Step("ddm_support") /\ SoftEnd[2] = Step("address_swap")
  /\ SoftEnd[3] = Step("tx_disable_bit") /\ SoftEnd[4] = Step("ddm_support")
  /\ SoftEnd[5] = Step("address_swap") /\ SoftEnd[6] = Step("tx_disable_pin")
<1> DEFINE Q1 == DdmAvailable
           Q2 == Do("tx_disable_bit")
           Q3 == DdmAvailable
           Q4 == Do("tx_disable_pin")
           P2 == Cat(Q1, Q2)
           P3 == Cat(P2, Q3)
           P4 == Cat(P3, Q4)
<1>0. SoftEnd = P4
  BY DEF SoftEnd, Cat
<1>a1. /\ Q1 \in Seq(StatusReads) /\ Len(Q1) = 2
       /\ Q1[1] = Step("ddm_support") /\ Q1[2] = Step("address_swap")
  BY DdmInFull
<1>a2. /\ Q2 \in Seq(StatusReads) /\ Len(Q2) = 1
       /\ Q2[1] = Step("tx_disable_bit")
  <2>1. Step("tx_disable_bit") \in StatusReads
    BY DEF StatusReads
  <2> QED
    BY <2>1, DoInFull
<1>a3. /\ Q3 \in Seq(StatusReads) /\ Len(Q3) = 2
       /\ Q3[1] = Step("ddm_support") /\ Q3[2] = Step("address_swap")
  BY DdmInFull
<1>a4. /\ Q4 \in Seq(StatusReads) /\ Len(Q4) = 1
       /\ Q4[1] = Step("tx_disable_pin")
  <2>1. Step("tx_disable_pin") \in StatusReads
    BY DEF StatusReads
  <2> QED
    BY <2>1, DoInFull
<1> HIDE DEF Q1, Q2, Q3, Q4
<1>b2. /\ P2 \in Seq(StatusReads) /\ Len(P2) = Len(Q1) + Len(Q2)
       /\ \A i \in 1 .. Len(Q1) + Len(Q2) :
            P2[i] = IF i <= Len(Q1) THEN Q1[i] ELSE Q2[i - Len(Q1)]
  <2>1. Q1 \in Seq(StatusReads) /\ Q2 \in Seq(StatusReads)
    BY <1>a1, <1>a2
  <2> QED
    BY <2>1, Concatenated
<1> HIDE DEF P2
<1>c2. /\ Len(P2) = 3 /\ \A i \in 1 .. 2 : P2[i] = Q1[i]
       /\ P2[3] = Q2[1]
  BY <1>a1, <1>a2, <1>b2
<1>b3. /\ P3 \in Seq(StatusReads) /\ Len(P3) = Len(P2) + Len(Q3)
       /\ \A i \in 1 .. Len(P2) + Len(Q3) :
            P3[i] = IF i <= Len(P2) THEN P2[i] ELSE Q3[i - Len(P2)]
  <2>1. P2 \in Seq(StatusReads) /\ Q3 \in Seq(StatusReads)
    BY <1>b2, <1>a3
  <2> QED
    BY <2>1, Concatenated
<1> HIDE DEF P3
<1>c3. /\ Len(P3) = 5 /\ \A i \in 1 .. 3 : P3[i] = P2[i]
       /\ P3[4] = Q3[1] /\ P3[5] = Q3[2]
  BY <1>c2, <1>a3, <1>b3
<1>b4. /\ P4 \in Seq(StatusReads) /\ Len(P4) = Len(P3) + Len(Q4)
       /\ \A i \in 1 .. Len(P3) + Len(Q4) :
            P4[i] = IF i <= Len(P3) THEN P3[i] ELSE Q4[i - Len(P3)]
  <2>1. P3 \in Seq(StatusReads) /\ Q4 \in Seq(StatusReads)
    BY <1>b3, <1>a4
  <2> QED
    BY <2>1, Concatenated
<1> HIDE DEF P4
<1>c4. /\ Len(P4) = 6 /\ \A i \in 1 .. 5 : P4[i] = P3[i]
       /\ P4[6] = Q4[1]
  BY <1>c3, <1>a4, <1>b4
<1>d. SoftEnd = P4 /\ SoftEnd \in Seq(StatusReads) /\ Len(SoftEnd) = 6
  BY <1>0, <1>b4, <1>c4
<1>e1.
        /\ P4[1] = Step("ddm_support") /\ P4[2] = Step("address_swap")
  BY <1>a1, <1>c2, <1>c3, <1>c4
<1>e2. /\ P4[3] = Step("tx_disable_bit")
  BY <1>a2, <1>c2, <1>c3, <1>c4
<1>e3.
        /\ P4[4] = Step("ddm_support") /\ P4[5] = Step("address_swap")
  BY <1>a3, <1>c3, <1>c4
<1>e4. /\ P4[6] = Step("tx_disable_pin")
  BY <1>a4, <1>c4
<1> QED
  BY <1>d, <1>e1, <1>e2, <1>e3, <1>e4

-----------------------------------------------------------------------------
(* What the transactions fetch is at the addresses they have.              *)
LEMMA RawAt ==
  ASSUME NEW m, IsSFP(m), NEW q \in StraightLines \cup {"RxPower"}
  PROVE  RawBytes(m, RawAddress[q]) = m.raw[q]
<1>1. DOMAIN m.raw = StraightLines \cup {"RxPower"}
  BY DEF IsSFP
<1>2. \A p \in StraightLines \cup {"RxPower"} : RawAddress[p] = RawAddress[q] => p = q
  BY DEF RawAddress, StraightLines
<1>3. (CHOOSE p \in DOMAIN m.raw : RawAddress[p] = RawAddress[q]) = q
  BY <1>1, <1>2
<1> QED
  BY <1>3 DEF RawBytes

LEMMA CalibrationAt ==
  ASSUME NEW m, NEW q \in StraightLines
  PROVE  CalibrationBytes(m, CalibrationAddress(CalibrationId[q])) = m.cal[q]
<1>1. /\ CalibrationId["Current"] = 0 /\ CalibrationId["TxPower"] = 1
      /\ CalibrationId["Temperature"] = 2 /\ CalibrationId["Voltage"] = 3
  BY DEF CalibrationId
<1>2. /\ CalibrationAddress(0) = 76 /\ CalibrationAddress(1) = 80
      /\ CalibrationAddress(2) = 84 /\ CalibrationAddress(3) = 88
  BY DEF CalibrationAddress
<1>3. /\ CalibrationBytes(m, 76) = m.cal["Current"] /\ CalibrationBytes(m, 80) = m.cal["TxPower"]
      /\ CalibrationBytes(m, 84) = m.cal["Temperature"] /\ CalibrationBytes(m, 88) = m.cal["Voltage"]
  BY DEF CalibrationBytes
<1> QED
  BY <1>1, <1>2, <1>3 DEF StraightLines

LEMMA RxAt ==
  ASSUME NEW m, NEW p \in 0 .. 4
  PROVE  RxParameter(m, RxParameterAddress(p)) = m.rx[p]
<1>1. \A power \in 0 .. 4 : 72 - (4 * p) = 72 - (4 * power) => power = p
  OBVIOUS
<1>2. (CHOOSE power \in 0 .. 4 : 72 - (4 * p) = 72 - (4 * power)) = p
  BY <1>1
<1> QED
  BY <1>2 DEF RxParameter, RxParameterAddress

(* A quantity computed by the code is the one measured ...                 *)
LEMMA StraightReading ==
  ASSUME NEW m, IsSFP(m), NEW q \in StraightLines, Plain(m, q)
  PROVE  Calibrated(q, RawValue(q, m.raw[q]), m.cal[q]) = Reading(m, q)
<1> DEFINE b == m.raw[q]
           k == m.cal[q]
           h == Byte \div 2
<1>1. q # "RxPower"
  BY DEF StraightLines
<1>2. /\ b[1] \in Nat /\ k[3] \in Nat /\ h \in Nat
      /\ k[3] < h /\ (q = "Temperature" => b[1] < h)
  BY <1>1, SFPAssumption DEF IsSFP, Plain
<1>3. ~ (q = "Temperature" /\ b[1] >= h) /\ ~ (k[3] >= h)
  BY <1>2
<1>4. k[3] % h = k[3]
  BY <1>2
<1>5. RawValue(q, b) = (Byte * b[1]) + b[2]
  BY <1>3, Zenon DEF RawValue
<1>6. Offset(k) = (Byte * k[3]) + k[4]
  BY <1>3, <1>4, Zenon DEF Offset
<1>7. CASE q = "Temperature"
  <2>1. k[3] = 0 /\ k[4] = 0
    BY <1>7 DEF Plain
  <2>2. (Byte * k[3]) + k[4] = 0
    BY <2>1, SFPAssumption
  <2>3. Offset(k) * Byte * Byte = 0 /\ ((Byte * k[3]) + k[4]) * Byte = 0
    BY <1>6, <2>2, SFPAssumption
  <2> QED
    BY <1>1, <1>5, <1>7, <2>3, Zenon DEF Calibrated, Slope, Reading
<1>8. CASE q # "Temperature"
  <2>1. Byte * 1 = Byte
    BY SFPAssumption
  <2>2. Offset(k) * Byte * 1 = ((Byte * k[3]) + k[4]) * Byte
    <3>1. Byte \in Nat /\ k[3] \in Nat /\ k[4] \in Nat
      BY <1>1, SFPAssumption DEF IsSFP
    <3> DEFINE o == (Byte * k[3]) + k[4]
    <3>2. o \in Nat
      BY <3>1
    <3> HIDE DEF o
    <3>3. o * Byte \in Nat
      BY <3>1, <3>2
    <3>4. (o * Byte) * 1 = o * Byte
      BY <3>3
    <3> QED
      BY <1>6, <3>4 DEF o
  <2> QED
    BY <1>1, <1>5, <1>8, <2>2, Zenon DEF Calibrated, Slope, Reading
<1> QED
  BY <1>7, <1>8

(* ... and for the received power, term by term.                           *)
Term(m, p) == RxTerm(m, RxParameterAddress(p), p, RawValue("RxPower", m.raw["RxPower"]))

Partial(m, n) ==
  IF n = 1 THEN m.rx[0]
  ELSE IF n = 2 THEN m.rx[0] + Term(m, 1)
  ELSE IF n = 3 THEN m.rx[0] + Term(m, 1) + Term(m, 2)
  ELSE IF n = 4 THEN m.rx[0] + Term(m, 1) + Term(m, 2) + Term(m, 3)
  ELSE m.rx[0] + Term(m, 1) + Term(m, 2) + Term(m, 3) + Term(m, 4)

LEMMA RxReading == \A m : Partial(m, 5) = Reading(m, "RxPower")
<1> TAKE m
<1> DEFINE x == (Byte * m.raw["RxPower"][1]) + m.raw["RxPower"][2]
<1>1. RawValue("RxPower", m.raw["RxPower"]) = x
  BY Zenon DEF RawValue
<1>2. \A p \in 0 .. 4 : Term(m, p) = m.rx[p] * x ^ p
  <2> TAKE p \in 0 .. 4
  <2>1. RxParameter(m, RxParameterAddress(p)) = m.rx[p]
    BY RxAt
  <2> QED
    BY <1>1, <2>1, Zenon DEF Term, RxTerm
<1>3. /\ Term(m, 1) = m.rx[1] * x ^ 1 /\ Term(m, 2) = m.rx[2] * x ^ 2
      /\ Term(m, 3) = m.rx[3] * x ^ 3 /\ Term(m, 4) = m.rx[4] * x ^ 4
  <2>1. 1 \in 0 .. 4 /\ 2 \in 0 .. 4 /\ 3 \in 0 .. 4 /\ 4 \in 0 .. 4
    OBVIOUS
  <2> HIDE DEF x
  <2> QED
    BY <1>2, <2>1, Zenon
<1>4. Partial(m, 5) = m.rx[0] + Term(m, 1) + Term(m, 2) + Term(m, 3) + Term(m, 4)
  BY DEF Partial
<1>5. Reading(m, "RxPower") = Polynomial(m.rx, x)
  BY Zenon DEF Reading
<1> QED
  BY <1>3, <1>4, <1>5, Zenon DEF Polynomial

-----------------------------------------------------------------------------
(* s is what remains of f from its element k on.                           *)
IsRest(s, f, k) ==
  /\ s \in Seq(StatusReads) /\ Len(s) = Len(f) + 1 - k
  /\ \A i \in 1 .. Len(s) : s[i] = f[k - 1 + i]

(* The transactions of a status are counted through both endings: 39 to 41 *)
(* are made only for an SFP with soft control, 42 to 44 for all.           *)
Transaction(k) == IF k <= 38 THEN Status[k] ELSE SoftEnd[k - 38]

Position(s, k) == IF k <= 38 THEN IsRest(s, Status, k) ELSE IsRest(s, SoftEnd, k - 38)

LEMMA RestGoesOn ==
  ASSUME NEW f \in Seq(StatusReads), NEW n \in Nat, n = Len(f), NEW k \in 1 .. n, NEW s,
         IsRest(s, f, k)
  PROVE  /\ Head(s) = f[k] /\ IsRest(Tail(s), f, k + 1)
         /\ Tail(s) = <<>> <=> k = n
<1>1. PICK r \in Seq(StatusReads) : r = s
  BY DEF IsRest
<1>2. Len(r) = n + 1 - k /\ \A i \in 1 .. n + 1 - k : r[i] = f[k - 1 + i]
  BY <1>1 DEF IsRest
<1>3. Len(r) > 0 /\ Len(r) - 1 = n - k
  BY <1>2
<1>4. /\ Tail(r) \in Seq(StatusReads) /\ Len(Tail(r)) = n - k /\ Head(r) = r[1]
      /\ \A i \in 1 .. n - k : Tail(r)[i] = r[i + 1]
  BY <1>3, TailOf
<1>5. r[1] = f[k]
  <2>1. 1 \in 1 .. n + 1 - k /\ k - 1 + 1 = k
    OBVIOUS
  <2> QED
    BY <1>2, <2>1
<1>6. \A i \in 1 .. n - k : Tail(r)[i] = f[(k + 1) - 1 + i]
  <2> TAKE i \in 1 .. n - k
  <2>1. i + 1 \in 1 .. n + 1 - k /\ k - 1 + (i + 1) = (k + 1) - 1 + i
    OBVIOUS
  <2> QED
    BY <1>2, <1>4, <2>1
<1>7. n + 1 - (k + 1) = n - k
  OBVIOUS
<1>8. IsRest(Tail(r), f, k + 1)
  BY <1>4, <1>6, <1>7 DEF IsRest
<1>9. Tail(r) = <<>> <=> k = n
  <2>1. PICK u \in Seq(StatusReads) : u = Tail(r)
    BY <1>4
  <2>2. u = <<>> <=> Len(u) = 0
    OBVIOUS
  <2>3. n - k = 0 <=> k = n
    OBVIOUS
  <2> QED
    BY <1>4, <2>1, <2>2, <2>3
<1> QED
  BY <1>1, <1>4, <1>5, <1>8, <1>9

LEMMA PositionGoesOn ==
  ASSUME NEW s, NEW k \in 1 .. 44, Position(s, k)
  PROVE  /\ Head(s) = Transaction(k)
         /\ Tail(s) = <<>> <=> k = 44
         /\ k \notin {38, 44} => Position(Tail(s), k + 1)
<1>1. CASE k <= 38
  <2> DEFINE n == 41
  <2>1. /\ Status \in Seq(StatusReads) /\ n = Len(Status) /\ n \in Nat
        /\ k \in 1 .. n
    <3>1. Status \in Seq(StatusReads) /\ n = Len(Status)
      BY StatusInFull
    <3>2. n \in Nat /\ k \in 1 .. n
      BY <1>1
    <3> QED
      BY <3>1, <3>2
  <2>2. IsRest(s, Status, k)
    BY <1>1 DEF Position
  <2> HIDE DEF n
  <2>3. /\ Head(s) = Status[k] /\ IsRest(Tail(s), Status, k + 1)
        /\ Tail(s) = <<>> <=> k = n
    BY <2>1, <2>2, RestGoesOn
  <2>4. k # n /\ k # 44 /\ (k # 38 => k + 1 <= 38)
    BY <1>1 DEF n
  <2> QED
    BY <1>1, <2>3, <2>4 DEF Position, Transaction
<1>2. CASE ~ (k <= 38)
  <2> DEFINE n == 6
             j == k - 38
  <2>1. SoftEnd \in Seq(StatusReads) /\ n = Len(SoftEnd) /\ n \in Nat /\ j \in 1 .. n
    BY <1>2, SoftEndInFull
  <2>2. IsRest(s, SoftEnd, j)
    BY <1>2 DEF Position
  <2>3. j = k - 38 /\ (j = n <=> k = 44) /\ j + 1 = (k + 1) - 38 /\ ~ (k + 1 <= 38)
    BY <1>2
  <2> HIDE DEF n, j
  <2>4. /\ Head(s) = SoftEnd[j] /\ IsRest(Tail(s), SoftEnd, j + 1)
        /\ Tail(s) = <<>> <=> j = n
    BY <2>1, <2>2, RestGoesOn
  <2>5. Head(s) = Transaction(k)
    BY <1>2, <2>3, <2>4 DEF Transaction
  <2>6. Position(Tail(s), k + 1)
    BY <2>3, <2>4 DEF Position
  <2> QED
    BY <2>3, <2>4, <2>5, <2>6
<1> QED
  BY <1>1, <1>2

(* The two ways on from the soft control.                                  *)
LEMMA Endings ==
  ASSUME NEW s, Position(s, 38)
  PROVE  /\ Position(Tail(s), 42) /\ Tail(s) # <<>>
         /\ Position(DdmAvailable \o Do("tx_disable_bit") \o Tail(s), 39)
         /\ DdmAvailable \o Do("tx_disable_bit") \o Tail(s) # <<>>
<1> DEFINE n == 41
           j == 38
<1>0. 38 <= 38 /\ j + 1 = 39 /\ j # n
  OBVIOUS
<1>1. IsRest(s, Status, j)
  BY <1>0 DEF Position
<1>2. Status \in Seq(StatusReads) /\ n = Len(Status) /\ n \in Nat /\ j \in 1 .. n
  BY StatusInFull
<1>3. IsRest(Tail(s), Status, 39) /\ Tail(s) # <<>>
  <2> HIDE DEF n, j
  <2> QED
    BY <1>0, <1>1, <1>2, RestGoesOn
<1>4. PICK r \in Seq(StatusReads) : r = Tail(s)
  BY <1>3 DEF IsRest
<1>5. Len(r) = 3 /\ r[1] = Status[39] /\ r[2] = Status[40] /\ r[3] = Status[41]
  <2>1. Len(r) = Len(Status) + 1 - 39 /\ \A i \in 1 .. Len(r) : r[i] = Status[39 - 1 + i]
    BY <1>3, <1>4, Zenon DEF IsRest
  <2>2. Len(r) = 3 /\ 39 - 1 + 1 = 39 /\ 39 - 1 + 2 = 40 /\ 39 - 1 + 3 = 41
    BY <1>2, <2>1
  <2>3. 1 \in 1 .. Len(r) /\ 2 \in 1 .. Len(r) /\ 3 \in 1 .. Len(r)
    BY <2>2
  <2>4. r[1] = Status[39 - 1 + 1] /\ r[2] = Status[39 - 1 + 2] /\ r[3] = Status[39 - 1 + 3]
    BY <2>1, <2>3, Zenon
  <2> QED
    BY <2>2, <2>4
<1>6. /\ r[1] = SoftEnd[4] /\ r[2] = SoftEnd[5] /\ r[3] = SoftEnd[6]
  BY <1>5, StatusInFull, SoftEndInFull
<1> DEFINE B == Do("tx_disable_bit")
           D == Cat(DdmAvailable, B)
           E == Cat(D, r)
<1>7. B \in Seq(StatusReads) /\ Len(B) = 1 /\ B[1] = Step("tx_disable_bit")
  <2>1. Step("tx_disable_bit") \in StatusReads
    BY DEF StatusReads
  <2> QED
    BY <2>1, DoInFull
<1>8. DdmAvailable \o Do("tx_disable_bit") \o Tail(s) = E
  BY <1>4 DEF Cat
<1> HIDE DEF B
<1>9. /\ D \in Seq(StatusReads) /\ Len(D) = Len(DdmAvailable) + Len(B)
      /\ \A i \in 1 .. Len(DdmAvailable) + Len(B) :
           D[i] = IF i <= Len(DdmAvailable) THEN DdmAvailable[i] ELSE B[i - Len(DdmAvailable)]
  <2>1. DdmAvailable \in Seq(StatusReads) /\ B \in Seq(StatusReads)
    BY <1>7, DdmInFull
  <2> QED
    BY <2>1, Concatenated
<1> HIDE DEF D
<1>10. /\ Len(D) = 3 /\ D[1] = DdmAvailable[1] /\ D[2] = DdmAvailable[2]
       /\ D[3] = B[1]
  BY <1>7, <1>9, DdmInFull
<1>11. /\ E \in Seq(StatusReads) /\ Len(E) = Len(D) + Len(r)
       /\ \A i \in 1 .. Len(D) + Len(r) : E[i] = IF i <= Len(D) THEN D[i] ELSE r[i - Len(D)]
  <2>1. D \in Seq(StatusReads) /\ r \in Seq(StatusReads)
    BY <1>9
  <2> QED
    BY <2>1, Concatenated
<1> HIDE DEF E
<1>12. /\ Len(E) = 6 /\ E[1] = D[1] /\ E[2] = D[2] /\ E[3] = D[3]
       /\ E[4] = r[1] /\ E[5] = r[2] /\ E[6] = r[3]
  BY <1>5, <1>10, <1>11
<1>13. /\ E[1] = SoftEnd[1] /\ E[2] = SoftEnd[2] /\ E[3] = SoftEnd[3]
       /\ E[4] = SoftEnd[4] /\ E[5] = SoftEnd[5] /\ E[6] = SoftEnd[6]
  BY <1>6, <1>7, <1>10, <1>12, SoftEndInFull, DdmInFull
<1>14. IsRest(E, SoftEnd, 1)
  <2>1. Len(SoftEnd) = 6
    BY SoftEndInFull
  <2>2. \A i \in 1 .. 6 : E[i] = SoftEnd[1 - 1 + i]
    BY <1>13
  <2>3. Len(E) = Len(SoftEnd) + 1 - 1
    BY <1>12, <2>1
  <2> QED
    BY <1>11, <1>12, <2>2, <2>3 DEF IsRest
<1>15. IsRest(r, SoftEnd, 4)
  <2>1. Len(SoftEnd) = 6
    BY SoftEndInFull
  <2>2. \A i \in 1 .. 3 : r[i] = SoftEnd[4 - 1 + i]
    BY <1>6
  <2>3. Len(r) = Len(SoftEnd) + 1 - 4
    BY <1>5, <2>1
  <2> QED
    BY <1>5, <2>2, <2>3 DEF IsRest
<1>16. E # <<>>
  <2>1. PICK u \in Seq(StatusReads) : u = E
    BY <1>11
  <2>2. Len(u) = 6
    BY <1>12, <2>1
  <2>3. u = <<>> <=> Len(u) = 0
    OBVIOUS
  <2> QED
    BY <2>1, <2>2, <2>3
<1>17. 39 - 38 = 1 /\ 42 - 38 = 4 /\ ~ (39 <= 38) /\ ~ (42 <= 38)
  OBVIOUS
<1> QED
  BY <1>3, <1>4, <1>8, <1>14, <1>15, <1>16, <1>17 DEF Position

-----------------------------------------------------------------------------
(* A table of n rows.                                                      *)
HasRows(rs, n) == n \in Nat /\ rs = [i \in 1 .. n |-> rs[i]]

(* The rows that a status has shown before its transaction k: three names, *)
(* five quantities, the soft disable bit and the disable pin.              *)
RowsBefore(k) ==
  CASE k <= 4             -> k - 1
    [] k \in 5 .. 11      -> 3
    [] k \in 12 .. 17     -> 4
    [] k \in 18 .. 21     -> 5
    [] k \in 22 .. 31     -> 6
    [] k \in 32 .. 37     -> 7
    [] k \in 38 .. 41     -> 8
    [] k \in 42 .. 44     -> 9
    [] OTHER              -> 10

(* The quantity whose raw value is held at transaction k.                  *)
HeldAt(k, q) ==
  \/ q = "Temperature" /\ k \in 9 .. 11
  \/ q = "Voltage" /\ k \in 15 .. 17
  \/ q = "RxPower" /\ k \in 21 .. 25
  \/ q = "TxPower" /\ k \in 29 .. 31
  \/ q = "Current" /\ k \in 35 .. 37

(* Row i is what the SFP m has for it.                                     *)
RightRow(row, i, m) ==
  /\ i \in 1 .. 3 => row[2] = m.name
  /\ i \in 4 .. 8 =>
       /\ row[1] = Quantities[i - 3]
       /\ Plain(m, Quantities[i - 3]) => row[2] = Reading(m, Quantities[i - 3])

(* A status of m, about to make transaction k, has the table and the raw   *)
(* value that it should have: row 6, the received power, is there as a     *)
(* partial sum first.                                                      *)
HasShown(rs, value, m, k) ==
  /\ HasRows(rs, RowsBefore(k))
  /\ \A i \in 1 .. RowsBefore(k) : RightRow(rs[i], i, m) \/ (i = 6 /\ k < 26)
  /\ k \in 22 .. 25 => rs[6] = <<"RxPower", Partial(m, k - 21)>>
  /\ \A q \in StraightLines \cup {"RxPower"} : HeldAt(k, q) => value = RawValue(q, m.raw[q])
  /\ k > 4 => m.ddm
  /\ k > 5 => ~ m.swap

LEMMA Appended ==
  ASSUME NEW S, NEW s \in Seq(S), NEW e \in S
  PROVE  /\ Append(s, e) \in Seq(S) /\ Len(Append(s, e)) = Len(s) + 1
         /\ Append(s, e)[Len(s) + 1] = e /\ \A i \in 1 .. Len(s) : Append(s, e)[i] = s[i]
OBVIOUS

Grown(rs, row) == Append(rs, row)

LEMMA TableGrows ==
  ASSUME NEW rs, NEW n \in Nat, HasRows(rs, n), NEW row
  PROVE  /\ HasRows(Grown(rs, row), n + 1) /\ Grown(rs, row)[n + 1] = row
         /\ \A i \in 1 .. n : Grown(rs, row)[i] = rs[i]
<1> DEFINE S == {rs[i] : i \in 1 .. n} \cup {row}
<1>0. row \in S
  OBVIOUS
<1>1. n \in Nat /\ rs \in [1 .. n -> S]
  BY DEF HasRows
<1> HIDE DEF S
<1>2. PICK t \in Seq(S) : t = rs /\ Len(t) = n
  <2>1. rs \in Seq(S) /\ Len(rs) = n
    BY <1>1
  <2> QED
    BY <2>1
<1>4. /\ Append(t, row) \in Seq(S) /\ Len(Append(t, row)) = n + 1
      /\ Append(t, row)[n + 1] = row /\ \A i \in 1 .. n : Append(t, row)[i] = t[i]
  BY <1>0, <1>2, Appended
<1>5. HasRows(Append(t, row), n + 1)
  <2>1. PICK u \in Seq(S) : u = Append(t, row) /\ Len(u) = n + 1
    BY <1>4
  <2>2. u = [i \in 1 .. Len(u) |-> u[i]]
    OBVIOUS
  <2>3. n + 1 \in Nat
    BY <1>1
  <2> QED
    BY <2>1, <2>2, <2>3 DEF HasRows
<1> QED
  BY <1>2, <1>4, <1>5 DEF Grown

Changed(rs, new) == [rs EXCEPT ![Len(rs)][2] = new]

LEMMA RowChanges ==
  ASSUME NEW rs, NEW n \in Nat, HasRows(rs, n), n > 0, NEW label, NEW value, NEW new,
         rs[n] = <<label, value>>
  PROVE  /\ Len(rs) = n
         /\ HasRows(Changed(rs, new), n)
         /\ Changed(rs, new)[n] = <<label, new>>
         /\ \A i \in 1 .. n - 1 : Changed(rs, new)[i] = rs[i]
<1> DEFINE S == {rs[i] : i \in 1 .. n}
<1>1. n \in Nat /\ rs \in [1 .. n -> S] /\ DOMAIN rs = 1 .. n /\ n \in 1 .. n
  BY DEF HasRows
<1>2. Len(rs) = n
  BY <1>1
<1> HIDE DEF S
<1>3. [rs[n] EXCEPT ![2] = new] = <<label, new>>
  OBVIOUS
<1> DEFINE u == [rs EXCEPT ![n] = [rs[n] EXCEPT ![2] = new]]
<1>4. [rs EXCEPT ![Len(rs)][2] = new] = u
  BY <1>2
<1>5. u = [i \in 1 .. n |-> IF i = n THEN <<label, new>> ELSE rs[i]]
  BY <1>1, <1>3
<1> HIDE DEF u
<1>6. /\ HasRows(u, n) /\ u[n] = <<label, new>>
      /\ \A i \in 1 .. n - 1 : u[i] = rs[i]
  BY <1>1, <1>5 DEF HasRows
<1> QED
  BY <1>2, <1>4, <1>6 DEF Changed

-----------------------------------------------------------------------------
(* What each kind of transaction does to the table.  Most do nothing.      *)
LEMMA ShowsOn ==
  ASSUME NEW rs, NEW value, NEW m,
         NEW k \in {4, 5, 6, 7, 9, 10, 12, 13, 15, 16, 18, 19, 26, 27, 29, 30, 32, 33, 35, 36,
                    39, 40, 42, 43},
         k = 4 => m.ddm, k = 5 => ~ m.swap, HasShown(rs, value, m, k)
  PROVE  HasShown(rs, value, m, k + 1)
<1>1. RowsBefore(k + 1) = RowsBefore(k) /\ (k < 26 <=> k + 1 < 26) /\ ~ (k + 1 \in 22 .. 25)
  BY DEF RowsBefore
<1>2. \A q \in StraightLines \cup {"RxPower"} : HeldAt(k + 1, q) => HeldAt(k, q)
  BY DEF HeldAt
<1>3. (k + 1 > 4 => m.ddm) /\ (k + 1 > 5 => ~ m.swap)
  BY DEF HasShown
<1> QED
  BY <1>1, <1>2, <1>3 DEF HasShown

LEMMA RawShown ==
  ASSUME NEW rs, NEW value, NEW m, NEW k \in {8, 14, 20, 28, 34}, NEW q, HeldAt(k + 1, q),
         HasShown(rs, value, m, k)
  PROVE  HasShown(rs, RawValue(q, m.raw[q]), m, k + 1)
<1>1. RowsBefore(k + 1) = RowsBefore(k) /\ (k < 26 <=> k + 1 < 26) /\ ~ (k + 1 \in 22 .. 25)
  BY DEF RowsBefore
<1>2. \A p \in StraightLines \cup {"RxPower"} : HeldAt(k + 1, p) => p = q
  BY DEF HeldAt
<1>3. m.ddm /\ ~ m.swap
  BY DEF HasShown
<1> QED
  BY <1>1, <1>2, <1>3 DEF HasShown

LEMMA RowShown ==
  ASSUME NEW rs, NEW value, NEW m, NEW k \in {1, 2, 3, 11, 17, 31, 37, 38, 41, 44}, NEW j,
         j = IF k = 38 THEN 42 ELSE k + 1,
         NEW row, RightRow(row, RowsBefore(k) + 1, m), HasShown(rs, value, m, k)
  PROVE  HasShown(Grown(rs, row), value, m, j)
<1> DEFINE n == RowsBefore(k)
           new == Grown(rs, row)
<1>1. HasRows(rs, n) /\ n \in Nat
  BY DEF HasShown, HasRows
<1>2. RowsBefore(j) = n + 1
  BY DEF RowsBefore
<1>3. /\ (k < 26 <=> j < 26) /\ ~ (j \in 22 .. 25)
      /\ (k > 4 <=> j > 4) /\ (k > 5 <=> j > 5)
  OBVIOUS
<1>4. \A q \in StraightLines \cup {"RxPower"} : ~ HeldAt(j, q)
  BY DEF HeldAt
<1>5. RightRow(row, n + 1, m) /\ \A i \in 1 .. n : RightRow(rs[i], i, m) \/ (i = 6 /\ k < 26)
  BY DEF HasShown
<1> HIDE DEF n
<1>6. /\ HasRows(new, n + 1) /\ new[n + 1] = row
      /\ \A i \in 1 .. n : new[i] = rs[i]
  <2>1. HasRows(rs, n) /\ n \in Nat
    BY <1>1
  <2> QED
    BY <2>1, TableGrows
<1> HIDE DEF new
<1>7. \A i \in 1 .. n + 1 : RightRow(new[i], i, m) \/ (i = 6 /\ j < 26)
  <2> TAKE i \in 1 .. n + 1
  <2>1. CASE i = n + 1
    BY <1>5, <1>6, <2>1
  <2>2. CASE i # n + 1
    <3>1. i \in 1 .. n
      BY <1>1, <2>2
    <3> QED
      BY <1>3, <1>5, <1>6, <3>1
  <2> QED
    BY <2>1, <2>2
<1>8. HasShown(new, value, m, j)
  BY <1>2, <1>3, <1>4, <1>6, <1>7 DEF HasShown
<1> QED
  BY <1>8 DEF new

LEMMA RowCount == ASSUME NEW rs, NEW n \in Nat, HasRows(rs, n) PROVE Len(rs) = n
BY DEF HasRows

LEMMA RxStarts ==
  ASSUME NEW rs, NEW value, NEW m, HasShown(rs, value, m, 21)
  PROVE  HasShown(Grown(rs, <<"RxPower", m.rx[0]>>), value, m, 22)
<1> DEFINE row == <<"RxPower", m.rx[0]>>
           new == Grown(rs, row)
<1>1. /\ HasRows(rs, 5) /\ \A i \in 1 .. 5 : RightRow(rs[i], i, m)
      /\ \A q \in StraightLines \cup {"RxPower"} : HeldAt(21, q) => value = RawValue(q, m.raw[q])
      /\ m.ddm /\ ~ m.swap
  BY DEF HasShown, RowsBefore
<1>2. HasRows(new, 6) /\ new[6] = row /\ \A i \in 1 .. 5 : new[i] = rs[i]
  <2>1. HasRows(rs, 5) /\ 5 \in Nat /\ 5 + 1 = 6
    BY <1>1
  <2> HIDE DEF row
  <2> QED
    BY <2>1, TableGrows
<1>3. row = <<"RxPower", Partial(m, 22 - 21)>>
  BY DEF Partial
<1>4. RowsBefore(22) = 6 /\ \A q : HeldAt(22, q) => HeldAt(21, q)
  BY DEF RowsBefore, HeldAt
<1> HIDE DEF row, new
<1>5. HasShown(new, value, m, 22)
  BY <1>1, <1>2, <1>3, <1>4 DEF HasShown
<1> QED
  BY <1>5 DEF new, row

LEMMA RxGoesOn ==
  ASSUME NEW rs, NEW value, NEW m, NEW k \in 22 .. 25, HasShown(rs, value, m, k)
  PROVE  HasShown(Changed(rs, rs[Len(rs)][2] + Term(m, k - 21)), value, m, k + 1)
<1> DEFINE part == Partial(m, k - 21)
           sum == part + Term(m, k - 21)
           new == Changed(rs, sum)
<1>1. /\ HasRows(rs, 6) /\ \A i \in 1 .. 5 : RightRow(rs[i], i, m)
      /\ rs[6] = <<"RxPower", part>>
      /\ \A q \in StraightLines \cup {"RxPower"} : HeldAt(k, q) => value = RawValue(q, m.raw[q])
      /\ m.ddm /\ ~ m.swap
  BY DEF HasShown, RowsBefore
<1>2. Len(rs) = 6 /\ rs[6][2] = part
  <2>1. HasRows(rs, 6) /\ 6 \in Nat
    BY <1>1
  <2>2. Len(rs) = 6
    BY <2>1, RowCount
  <2> HIDE DEF part
  <2> QED
    BY <1>1, <2>2
<1>3. HasRows(new, 6) /\ new[6] = <<"RxPower", sum>> /\ \A i \in 1 .. 5 : new[i] = rs[i]
  <2>1. HasRows(rs, 6) /\ 6 \in Nat /\ 6 > 0 /\ 6 - 1 = 5 /\ rs[6] = <<"RxPower", part>>
    BY <1>1
  <2> HIDE DEF sum, part
  <2> QED
    BY <2>1, RowChanges
<1>4. sum = Partial(m, (k + 1) - 21)
  <2>1. CASE k = 22
    <3>1. part = m.rx[0] /\ sum = m.rx[0] + Term(m, 1)
      BY <2>1 DEF Partial
    <3>2. Partial(m, 2) = m.rx[0] + Term(m, 1)
      BY DEF Partial
    <3> QED
      BY <2>1, <3>1, <3>2
  <2>2. CASE k = 23
    <3>1. sum = m.rx[0] + Term(m, 1) + Term(m, 2)
      BY <2>2 DEF Partial
    <3>2. Partial(m, 3) = m.rx[0] + Term(m, 1) + Term(m, 2)
      BY DEF Partial
    <3> QED
      BY <2>2, <3>1, <3>2
  <2>3. CASE k = 24
    <3>1. sum = m.rx[0] + Term(m, 1) + Term(m, 2) + Term(m, 3)
      BY <2>3 DEF Partial
    <3>2. Partial(m, 4) = m.rx[0] + Term(m, 1) + Term(m, 2) + Term(m, 3)
      BY DEF Partial
    <3> QED
      BY <2>3, <3>1, <3>2
  <2>4. CASE k = 25
    <3>1. sum = m.rx[0] + Term(m, 1) + Term(m, 2) + Term(m, 3) + Term(m, 4)
      BY <2>4 DEF Partial
    <3>2. Partial(m, 5) = m.rx[0] + Term(m, 1) + Term(m, 2) + Term(m, 3) + Term(m, 4)
      BY DEF Partial
    <3> QED
      BY <2>4, <3>1, <3>2
  <2> QED
    BY <2>1, <2>2, <2>3, <2>4
<1>5. /\ RowsBefore(k + 1) = 6 /\ \A q : HeldAt(k + 1, q) => HeldAt(k, q)
  BY DEF RowsBefore, HeldAt
<1>6. k = 25 => RightRow(new[6], 6, m)
  <2>1. Quantities[6 - 3] = "RxPower"
    BY DEF Quantities
  <2>2. k = 25 => sum = Reading(m, "RxPower")
    <3>1. k = 25 => (k + 1) - 21 = 5
      OBVIOUS
    <3> HIDE DEF sum
    <3> QED
      BY <1>4, <3>1, RxReading
  <2>3. ~ (6 \in 1 .. 3)
    OBVIOUS
  <2> HIDE DEF sum, new
  <2> QED
    BY <1>3, <2>1, <2>2, <2>3 DEF RightRow
<1>7. new = Changed(rs, rs[Len(rs)][2] + Term(m, k - 21))
  BY <1>2
<1> HIDE DEF sum, new, part
<1>8. \A i \in 1 .. 6 : RightRow(new[i], i, m) \/ (i = 6 /\ k + 1 < 26)
  BY <1>1, <1>3, <1>6
<1>9. HasShown(new, value, m, k + 1)
  BY <1>1, <1>3, <1>4, <1>5, <1>8 DEF HasShown
<1> QED
  BY <1>7, <1>9

-----------------------------------------------------------------------------
(* The table that get_status returns for m.                                *)
IsStatusOf(rs, m) ==
  /\ Len(rs) = IF m.ddm /\ ~ m.swap THEN 10 ELSE 3
  /\ \A i \in 1 .. 3 : rs[i][2] = m.name
  /\ m.ddm /\ ~ m.swap =>
       \A i \in 1 .. 5 :
         /\ rs[i + 3][1] = Quantities[i]
         /\ Plain(m, Quantities[i]) => rs[i + 3][2] = Reading(m, Quantities[i])

LEMMA Completed ==
  ASSUME NEW rs, NEW value, NEW m,
         \/ HasShown(rs, value, m, 45)
         \/ HasShown(rs, value, m, 4) /\ ~ m.ddm
         \/ HasShown(rs, value, m, 5) /\ m.swap
  PROVE  IsStatusOf(rs, m)
<1>1. CASE HasShown(rs, value, m, 45)
  <2>1. HasRows(rs, 10) /\ (\A i \in 1 .. 10 : RightRow(rs[i], i, m)) /\ m.ddm /\ ~ m.swap
    BY <1>1 DEF HasShown, RowsBefore
  <2>2. Len(rs) = 10
    BY <2>1, RowCount
  <2>3. \A i \in 1 .. 3 : rs[i][2] = m.name
    BY <2>1 DEF RightRow
  <2>4. \A i \in 1 .. 5 :
          /\ rs[i + 3][1] = Quantities[i]
          /\ Plain(m, Quantities[i]) => rs[i + 3][2] = Reading(m, Quantities[i])
    <3> TAKE i \in 1 .. 5
    <3>1. RightRow(rs[i + 3], i + 3, m) /\ i + 3 \in 4 .. 8 /\ (i + 3) - 3 = i
      BY <2>1
    <3> QED
      BY <3>1 DEF RightRow
  <2> QED
    BY <2>1, <2>2, <2>3, <2>4 DEF IsStatusOf
<1>2. ASSUME NEW k \in {4, 5}, HasShown(rs, value, m, k), ~ (m.ddm /\ ~ m.swap)
      PROVE  IsStatusOf(rs, m)
  <2>1. HasRows(rs, 3) /\ \A i \in 1 .. 3 : RightRow(rs[i], i, m)
    BY <1>2 DEF HasShown, RowsBefore
  <2>2. Len(rs) = 3
    BY <2>1, RowCount
  <2>3. \A i \in 1 .. 3 : rs[i][2] = m.name
    BY <2>1 DEF RightRow
  <2> QED
    BY <1>2, <2>2, <2>3 DEF IsStatusOf
<1> QED
  BY <1>1, <1>2

-----------------------------------------------------------------------------
Quiet == {6, 7, 9, 10, 12, 13, 15, 16, 18, 19, 26, 27, 29, 30, 32, 33, 35, 36, 39, 40, 42, 43}
RawReads == {8, 14, 20, 28, 34}
Calibrations == {11, 17, 31, 37}

(* Which transaction is which.                                             *)
LEMMA TransactionsOfStatus ==
  /\ Transaction(1) = Step("vendor") /\ Transaction(2) = Step("part_number")
  /\ Transaction(3) = Step("serial_number") /\ Transaction(4) = Step("ddm_shown")
  /\ Transaction(5) = Step("swap_shown") /\ Transaction(38) = Step("soft_shown")
  /\ Transaction(41) = Step("tx_disable_bit") /\ Transaction(44) = Step("tx_disable_pin")
  /\ \A k \in Quiet : Transaction(k) \in {Step("ddm_support"), Step("address_swap")}
  /\ \A k \in RawReads :
       \E q \in StraightLines \cup {"RxPower"} : Transaction(k) = ReadsRaw(q) /\ HeldAt(k + 1, q)
  /\ \A k \in Calibrations :
       \E q \in StraightLines :
         Transaction(k) = Calibrates(q) /\ HeldAt(k, q) /\ q = Quantities[RowsBefore(k) - 2]
  /\ \A k \in 21 .. 25 : Transaction(k) = ReadsRx(k - 21)
<1>1. /\ Transaction(1) = Step("vendor") /\ Transaction(2) = Step("part_number")
      /\ Transaction(3) = Step("serial_number") /\ Transaction(4) = Step("ddm_shown")
      /\ Transaction(5) = Step("swap_shown") /\ Transaction(38) = Step("soft_shown")
  BY StatusInFull DEF Transaction
<1>2. Transaction(41) = Step("tx_disable_bit") /\ Transaction(44) = Step("tx_disable_pin")
  BY SoftEndInFull DEF Transaction
<1>3. \A k \in Quiet : Transaction(k) \in {Step("ddm_support"), Step("address_swap")}
  <2>1. \A k \in {39, 40, 42, 43} : Transaction(k) \in {Step("ddm_support"), Step("address_swap")}
    BY SoftEndInFull DEF Transaction
  <2>2. \A k \in 1 .. 38 : Transaction(k) = Status[k]
    BY DEF Transaction
  <2>3. \A k \in {6, 9, 12, 15, 18, 26, 29, 32, 35} : Status[k] = Step("ddm_support")
    BY StatusInFull
  <2>4. \A k \in {7, 10, 13, 16, 19, 27, 30, 33, 36} : Status[k] = Step("address_swap")
    BY StatusInFull
  <2>5. \A k \in Quiet : k \in {6, 9, 12, 15, 18, 26, 29, 32, 35}
          \/ k \in {7, 10, 13, 16, 19, 27, 30, 33, 36} \/ k \in {39, 40, 42, 43}
    BY DEF Quiet
  <2>6. Quiet \subseteq 1 .. 44 /\ \A k \in Quiet : k \notin {39, 40, 42, 43} => k \in 1 .. 38
    BY DEF Quiet
  <2> QED
    BY <2>1, <2>2, <2>3, <2>4, <2>5, <2>6
<1>4. /\ Transaction(8) = ReadsRaw("Temperature") /\ Transaction(14) = ReadsRaw("Voltage")
      /\ Transaction(20) = ReadsRaw("RxPower") /\ Transaction(28) = ReadsRaw("TxPower")
      /\ Transaction(34) = ReadsRaw("Current")
      /\ Transaction(11) = Calibrates("Temperature") /\ Transaction(17) = Calibrates("Voltage")
      /\ Transaction(31) = Calibrates("TxPower") /\ Transaction(37) = Calibrates("Current")
  BY StatusInFull DEF Transaction
<1>5. \A k \in RawReads :
        \E q \in StraightLines \cup {"RxPower"} : Transaction(k) = ReadsRaw(q) /\ HeldAt(k + 1, q)
  <2>1. /\ HeldAt(8 + 1, "Temperature") /\ HeldAt(14 + 1, "Voltage") /\ HeldAt(20 + 1, "RxPower")
        /\ HeldAt(28 + 1, "TxPower") /\ HeldAt(34 + 1, "Current")
    BY DEF HeldAt
  <2> QED
    BY <1>4, <2>1 DEF RawReads, StraightLines
<1>6. \A k \in Calibrations :
        \E q \in StraightLines :
          Transaction(k) = Calibrates(q) /\ HeldAt(k, q) /\ q = Quantities[RowsBefore(k) - 2]
  <2>1. /\ HeldAt(11, "Temperature") /\ HeldAt(17, "Voltage") /\ HeldAt(31, "TxPower")
        /\ HeldAt(37, "Current")
    BY DEF HeldAt
  <2>2. /\ RowsBefore(11) - 2 = 1 /\ RowsBefore(17) - 2 = 2
        /\ RowsBefore(31) - 2 = 4 /\ RowsBefore(37) - 2 = 5
    BY DEF RowsBefore
  <2>3. /\ Quantities[1] = "Temperature" /\ Quantities[2] = "Voltage"
        /\ Quantities[4] = "TxPower" /\ Quantities[5] = "Current"
    BY DEF Quantities
  <2> QED
    BY <1>4, <2>1, <2>2, <2>3 DEF Calibrations, StraightLines
<1>7. \A k \in 21 .. 25 : Transaction(k) = ReadsRx(k - 21)
  <2>1. /\ Transaction(21) = ReadsRx(0) /\ Transaction(22) = ReadsRx(1)
        /\ Transaction(23) = ReadsRx(2) /\ Transaction(24) = ReadsRx(3)
        /\ Transaction(25) = ReadsRx(4)
    BY StatusInFull DEF Transaction
  <2>2. 21 - 21 = 0 /\ 22 - 21 = 1 /\ 23 - 21 = 2 /\ 24 - 21 = 3 /\ 25 - 21 = 4
    OBVIOUS
  <2> QED
    BY <2>1, <2>2
<1> QED
  BY <1>1, <1>2, <1>3, <1>5, <1>6, <1>7

(* What a transaction shows, and how it goes on.                           *)
LEMMA ShownIs ==
  ASSUME NEW c \in Callers, rows = [d \in Callers |-> rows[d]], NEW t, Shown(c, t)
  PROVE  /\ t.do \in {"vendor", "part_number", "serial_number"} =>
              rows'[c] = Grown(rows[c], <<t.do, cage.name>>)
         /\ t.do = "calibrate" =>
              rows'[c] = Grown(rows[c],
                               <<t.q, Calibrated(t.q, raw[c], CalibrationBytes(cage, t.adr))>>)
         /\ t.do = "rx_parameter" /\ t.power = 0 =>
              rows'[c] = Grown(rows[c], <<"RxPower", RxParameter(cage, t.adr)>>)
         /\ t.do = "rx_parameter" /\ t.power > 0 =>
              rows'[c] = Changed(rows[c], rows[c][Len(rows[c])][2]
                                            + RxTerm(cage, t.adr, t.power, raw[c]))
         /\ t.do = "tx_disable_bit" => rows'[c] = Grown(rows[c], <<"Tx disable bit", tx_dis>>)
         /\ t.do = "soft_shown" =>
              rows'[c] = IF cage.soft THEN rows[c]
                         ELSE Grown(rows[c], <<"Soft Tx disable", "unsupported">>)
         /\ t.do = "tx_disable_pin" => rows'[c] = Grown(rows[c], <<"Tx disable pin", cage.pin>>)
         /\ t.do \in {"ddm_shown", "swap_shown", "ddm_support", "address_swap", "raw"} =>
              rows'[c] = rows[c]
<1>1. \A label, value : Row(c, label, value) => rows'[c] = Grown(rows[c], <<label, value>>)
  BY DEF Row, Grown
<1>2. NoRow => rows'[c] = rows[c]
  BY DEF NoRow
<1>3. t.do \in {"vendor", "part_number", "serial_number"} =>
        rows'[c] = Grown(rows[c], <<t.do, cage.name>>)
  BY <1>1, Zenon DEF Shown
<1>4. t.do = "calibrate" =>
        rows'[c] = Grown(rows[c], <<t.q, Calibrated(t.q, raw[c], CalibrationBytes(cage, t.adr))>>)
  BY <1>1, Zenon DEF Shown
<1>5. t.do = "rx_parameter" /\ t.power = 0 =>
        rows'[c] = Grown(rows[c], <<"RxPower", RxParameter(cage, t.adr)>>)
  BY <1>1 DEF Shown
<1>6. t.do = "rx_parameter" /\ t.power > 0 =>
        rows'[c] = Changed(rows[c], rows[c][Len(rows[c])][2]
                                      + RxTerm(cage, t.adr, t.power, raw[c]))
  BY DEF Shown, Changed
<1>7. t.do = "tx_disable_bit" => rows'[c] = Grown(rows[c], <<"Tx disable bit", tx_dis>>)
  BY <1>1, Zenon DEF Shown
<1>8. t.do = "soft_shown" =>
        rows'[c] = IF cage.soft THEN rows[c]
                   ELSE Grown(rows[c], <<"Soft Tx disable", "unsupported">>)
  BY <1>1, <1>2, Zenon DEF Shown
<1>9. t.do = "tx_disable_pin" => rows'[c] = Grown(rows[c], <<"Tx disable pin", cage.pin>>)
  BY <1>1, Zenon DEF Shown
<1>10. t.do \in {"ddm_shown", "swap_shown", "ddm_support", "address_swap", "raw"} =>
         rows'[c] = rows[c]
  BY <1>2, Zenon DEF Shown
<1> QED
  BY <1>3, <1>4, <1>5, <1>6, <1>7, <1>8, <1>9, <1>10, Zenon

LEMMA RemainingIs ==
  ASSUME NEW c, NEW t
  PROVE  /\ t.do \notin {"ddm_shown", "swap_shown", "soft_shown"} =>
              Remaining(c, t) = Tail(reads[c])
         /\ t.do = "ddm_shown" =>
              Remaining(c, t) = IF cage.ddm THEN Tail(reads[c]) ELSE <<>>
         /\ t.do = "swap_shown" =>
              Remaining(c, t) = IF cage.swap THEN <<>> ELSE Tail(reads[c])
         /\ t.do = "soft_shown" =>
              Remaining(c, t) = IF cage.soft
                                THEN DdmAvailable \o Do("tx_disable_bit") \o Tail(reads[c])
                                ELSE Tail(reads[c])
<1>1. t.do \notin {"ddm_shown", "swap_shown", "soft_shown"} =>
        Remaining(c, t) = Tail(reads[c])
  BY Zenon DEF Remaining
<1>2. t.do = "ddm_shown" => Remaining(c, t) = IF cage.ddm THEN Tail(reads[c]) ELSE <<>>
  BY Zenon DEF Remaining
<1>3. t.do = "swap_shown" => Remaining(c, t) = IF cage.swap THEN <<>> ELSE Tail(reads[c])
  BY Zenon DEF Remaining
<1>4. t.do = "soft_shown" =>
        Remaining(c, t) = IF cage.soft
                          THEN DdmAvailable \o Do("tx_disable_bit") \o Tail(reads[c])
                          ELSE Tail(reads[c])
  BY Zenon DEF Remaining
<1> QED
  BY <1>1, <1>2, <1>3, <1>4

LEMMA CalibrationRows == \A k \in Calibrations : RowsBefore(k) \in {3, 4, 6, 7}
<1>1. /\ RowsBefore(11) = 3 /\ RowsBefore(17) = 4
      /\ RowsBefore(31) = 6 /\ RowsBefore(37) = 7
  BY DEF RowsBefore
<1> QED
  BY <1>1 DEF Calibrations

LEMMA CalibratedRow ==
  ASSUME NEW m, IsSFP(m), NEW rs, NEW value, NEW k \in Calibrations, NEW q \in StraightLines,
         HeldAt(k, q), q = Quantities[RowsBefore(k) - 2], HasShown(rs, value, m, k),
         NEW row, row = <<q, Calibrated(q, value, m.cal[q])>>
  PROVE  RightRow(row, RowsBefore(k) + 1, m)
<1> DEFINE i == RowsBefore(k) + 1
<1>1. i \in 4 .. 8 /\ i - 3 = RowsBefore(k) - 2
  BY CalibrationRows
<1>2. value = RawValue(q, m.raw[q])
  BY DEF HasShown
<1>3. Plain(m, q) => row[2] = Reading(m, q)
  BY <1>2, StraightReading
<1>4. row[1] = q /\ Quantities[i - 3] = q
  BY <1>1
<1> HIDE DEF i
<1>5. ~ (i \in 1 .. 3)
  BY <1>1
<1>6. RightRow(row, i, m)
  BY <1>3, <1>4, <1>5 DEF RightRow
<1> QED
  BY <1>6 DEF i

(* A transaction of a status that shows what it should, until it is all    *)
(* there, with the SFP it is about in the cage.                            *)
StatusOnward(c, m) ==
  \/ /\ at'[c] = "sfp_read"
     /\ \E k \in 1 .. 44 : Position(reads'[c], k) /\ HasShown(rows'[c], raw'[c], m, k)
  \/ at'[c] = "idle" /\ IsStatusOf(rows'[c], m)

LEMMA StatusGoesOn ==
  ASSUME NEW c \in Callers, at = [d \in Callers |-> at[d]], rows = [d \in Callers |-> rows[d]],
         raw = [d \in Callers |-> raw[d]], reads = [d \in Callers |-> reads[d]],
         NEW m, m = cage, IsSFP(m), ReadSFP(c),
         NEW k \in 1 .. 44, Position(reads[c], k), HasShown(rows[c], raw[c], m, k)
  PROVE  StatusOnward(c, m)
<1> DEFINE t == Head(reads[c])
           rest == Tail(reads[c])
<1>1. t = Transaction(k) /\ (rest = <<>> <=> k = 44)
      /\ (k \notin {38, 44} => Position(rest, k + 1))
  BY PositionGoesOn
<1>2. /\ Shown(c, t) /\ reads'[c] = Remaining(c, t)
      /\ at'[c] = IF Remaining(c, t) = <<>> THEN "idle" ELSE "sfp_read"
      /\ raw'[c] = IF t.do = "raw" THEN RawValue(t.q, RawBytes(cage, t.adr)) ELSE raw[c]
  BY DEF ReadSFP, GoOn
<1>3. /\ t.do \in {"vendor", "part_number", "serial_number"} =>
           rows'[c] = Grown(rows[c], <<t.do, m.name>>)
      /\ t.do = "calibrate" =>
           rows'[c] = Grown(rows[c], <<t.q, Calibrated(t.q, raw[c], CalibrationBytes(m, t.adr))>>)
      /\ t.do = "rx_parameter" /\ t.power = 0 =>
           rows'[c] = Grown(rows[c], <<"RxPower", RxParameter(m, t.adr)>>)
      /\ t.do = "rx_parameter" /\ t.power > 0 =>
           rows'[c] = Changed(rows[c], rows[c][Len(rows[c])][2]
                                         + RxTerm(m, t.adr, t.power, raw[c]))
      /\ t.do = "tx_disable_bit" => rows'[c] = Grown(rows[c], <<"Tx disable bit", tx_dis>>)
      /\ t.do = "soft_shown" =>
           rows'[c] = IF m.soft THEN rows[c]
                      ELSE Grown(rows[c], <<"Soft Tx disable", "unsupported">>)
      /\ t.do = "tx_disable_pin" => rows'[c] = Grown(rows[c], <<"Tx disable pin", m.pin>>)
      /\ t.do \in {"ddm_shown", "swap_shown", "ddm_support", "address_swap", "raw"} =>
           rows'[c] = rows[c]
  BY <1>2, ShownIs, Zenon
<1>4. /\ t.do \notin {"ddm_shown", "swap_shown", "soft_shown"} => reads'[c] = rest
      /\ t.do = "ddm_shown" => reads'[c] = IF m.ddm THEN rest ELSE <<>>
      /\ t.do = "swap_shown" => reads'[c] = IF m.swap THEN <<>> ELSE rest
      /\ t.do = "soft_shown" =>
           reads'[c] = IF m.soft THEN DdmAvailable \o Do("tx_disable_bit") \o rest ELSE rest
  BY <1>2, RemainingIs, Zenon
<1>5. at'[c] = IF reads'[c] = <<>> THEN "idle" ELSE "sfp_read"
  BY <1>2
<1> HIDE DEF rest
<1>6. ASSUME k # 38, reads'[c] = rest, HasShown(rows'[c], raw'[c], m, k + 1)
      PROVE  StatusOnward(c, m)
  <2>1. CASE k = 44
    <3>1. HasShown(rows'[c], raw'[c], m, 45)
      BY <1>6, <2>1
    <3>2. IsStatusOf(rows'[c], m)
      BY <3>1, Completed
    <3> QED
      BY <1>1, <1>5, <1>6, <2>1, <3>2 DEF StatusOnward
  <2>2. CASE k # 44
    <3>1. k \notin {38, 44} /\ k + 1 \in 1 .. 44
      BY <1>6, <2>2
    <3>2. Position(rest, k + 1) /\ rest # <<>>
      BY <1>1, <2>2, <3>1, Zenon
    <3> QED
      BY <1>5, <1>6, <3>1, <3>2, Zenon DEF StatusOnward
  <2> QED
    BY <2>1, <2>2
<1> HIDE DEF t
<1>7. CASE k \in {1, 2, 3}
  <2>1. t.do \in {"vendor", "part_number", "serial_number"}
    BY <1>1, <1>7, TransactionsOfStatus DEF Step
  <2> DEFINE row == <<t.do, m.name>>
  <2>2. rows'[c] = Grown(rows[c], row) /\ raw'[c] = raw[c] /\ reads'[c] = rest
    <3>1. rows'[c] = Grown(rows[c], row)
      BY <1>3, <2>1, Zenon
    <3>2. raw'[c] = raw[c] /\ reads'[c] = rest
      BY <1>2, <1>4, <2>1, Zenon
    <3> QED
      BY <3>1, <3>2
  <2>3. RightRow(row, RowsBefore(k) + 1, m)
    <3>1. RowsBefore(k) + 1 = k
      BY <1>7 DEF RowsBefore
    <3>2. row[2] = m.name /\ ~ (k \in 4 .. 8)
      BY <1>7
    <3> QED
      BY <3>1, <3>2 DEF RightRow
  <2>4. HasShown(Grown(rows[c], row), raw[c], m, k + 1)
    <3>1. /\ k \in {1, 2, 3, 11, 17, 31, 37, 38, 41, 44}
          /\ k + 1 = IF k = 38 THEN 42 ELSE k + 1
      BY <1>7
    <3> HIDE DEF row
    <3> QED
      BY <2>3, <3>1, RowShown
  <2> QED
    BY <1>6, <1>7, <2>2, <2>4
<1>8. CASE k \in {4, 5}
  <2>1. /\ k = 4 => t.do = "ddm_shown"
        /\ k = 5 => t.do = "swap_shown"
    BY <1>1, <1>8, TransactionsOfStatus DEF Step
  <2>2. rows'[c] = rows[c] /\ raw'[c] = raw[c]
    <3>1. t.do \in {"ddm_shown", "swap_shown"}
      BY <1>8, <2>1
    <3> QED
      BY <1>2, <1>3, <3>1, Zenon
  <2>3. CASE (k = 4 => m.ddm) /\ (k = 5 => ~ m.swap)
    <3>1. reads'[c] = rest
      BY <1>4, <1>8, <2>1, <2>3
    <3>2. HasShown(rows[c], raw[c], m, k + 1)
      <4>1. k \in {4, 5, 6, 7, 9, 10, 12, 13, 15, 16, 18, 19, 26, 27, 29, 30, 32, 33, 35, 36,
                   39, 40, 42, 43}
        BY <1>8
      <4> QED
        BY <2>3, <4>1, ShowsOn
    <3> QED
      BY <1>6, <1>8, <2>2, <3>1, <3>2
  <2>4. CASE (k = 4 /\ ~ m.ddm) \/ (k = 5 /\ m.swap)
    <3>1. reads'[c] = <<>>
      BY <1>4, <2>1, <2>4
    <3>2. IsStatusOf(rows[c], m)
      BY <2>4, Completed
    <3> QED
      BY <1>5, <2>2, <3>1, <3>2 DEF StatusOnward
  <2> QED
    BY <1>8, <2>3, <2>4
<1>9. CASE k \in Quiet
  <2>1. t.do \in {"ddm_support", "address_swap"}
    BY <1>1, <1>9, TransactionsOfStatus DEF Step
  <2>2. rows'[c] = rows[c] /\ raw'[c] = raw[c] /\ reads'[c] = rest
    BY <1>2, <1>3, <1>4, <2>1, Zenon
  <2>3. k \in {4, 5, 6, 7, 9, 10, 12, 13, 15, 16, 18, 19, 26, 27, 29, 30, 32, 33, 35, 36,
               39, 40, 42, 43} /\ k # 38 /\ k # 4 /\ k # 5
    BY <1>9 DEF Quiet
  <2>4. HasShown(rows[c], raw[c], m, k + 1)
    BY <2>3, ShowsOn
  <2> QED
    BY <1>6, <2>2, <2>3, <2>4
<1>10. CASE k \in RawReads
  <2>1. PICK q \in StraightLines \cup {"RxPower"} : t = ReadsRaw(q) /\ HeldAt(k + 1, q)
    BY <1>1, <1>10, TransactionsOfStatus
  <2>2. t.do = "raw" /\ t.q = q /\ t.adr = RawAddress[q]
    BY <2>1 DEF ReadsRaw
  <2>3. RawBytes(m, RawAddress[q]) = m.raw[q]
    BY RawAt
  <2>4. rows'[c] = rows[c] /\ reads'[c] = rest /\ raw'[c] = RawValue(q, m.raw[q])
    BY <1>2, <1>3, <1>4, <2>2, <2>3
  <2>5. k \in {8, 14, 20, 28, 34} /\ k # 38
    BY <1>10 DEF RawReads
  <2>6. HasShown(rows[c], RawValue(q, m.raw[q]), m, k + 1)
    BY <2>1, <2>5, RawShown
  <2> QED
    BY <1>6, <2>4, <2>5, <2>6
<1>11. CASE k \in Calibrations
  <2>1. PICK q \in StraightLines :
          t = Calibrates(q) /\ HeldAt(k, q) /\ q = Quantities[RowsBefore(k) - 2]
    BY <1>1, <1>11, TransactionsOfStatus
  <2>2. t.do = "calibrate" /\ t.q = q /\ t.adr = CalibrationAddress(CalibrationId[q])
    BY <2>1 DEF Calibrates
  <2>3. CalibrationBytes(m, CalibrationAddress(CalibrationId[q])) = m.cal[q]
    BY CalibrationAt
  <2> DEFINE row == <<q, Calibrated(q, raw[c], m.cal[q])>>
  <2>4. rows'[c] = Grown(rows[c], row) /\ reads'[c] = rest /\ raw'[c] = raw[c]
    BY <1>2, <1>3, <1>4, <2>2, <2>3
  <2>5. RightRow(row, RowsBefore(k) + 1, m)
    BY <1>11, <2>1, CalibratedRow
  <2>6. /\ k \in {1, 2, 3, 11, 17, 31, 37, 38, 41, 44} /\ k # 38
        /\ k + 1 = IF k = 38 THEN 42 ELSE k + 1
    BY <1>11 DEF Calibrations
  <2> HIDE DEF row
  <2>7. HasShown(Grown(rows[c], row), raw[c], m, k + 1)
    BY <2>5, <2>6, RowShown
  <2> QED
    BY <1>6, <2>4, <2>6, <2>7
<1>12. CASE k \in 21 .. 25
  <2>1. t = ReadsRx(k - 21)
    BY <1>1, <1>12, TransactionsOfStatus
  <2>2. t.do = "rx_parameter" /\ t.power = k - 21 /\ t.adr = RxParameterAddress(k - 21)
    BY <2>1 DEF ReadsRx
  <2>3. reads'[c] = rest /\ raw'[c] = raw[c] /\ k # 38
    BY <1>2, <1>4, <1>12, <2>2
  <2>4. CASE k = 21
    <3>1. rows'[c] = Grown(rows[c], <<"RxPower", RxParameter(m, RxParameterAddress(0))>>)
      BY <1>3, <2>2, <2>4
    <3>2. RxParameter(m, RxParameterAddress(0)) = m.rx[0]
      BY RxAt
    <3>3. HasShown(rows'[c], raw[c], m, 22)
      BY <2>4, <3>1, <3>2, RxStarts
    <3> QED
      BY <1>6, <2>3, <2>4, <3>3
  <2>5. CASE k \in 22 .. 25
    <3> DEFINE p == k - 21
    <3>1. t.power = p /\ t.adr = RxParameterAddress(p) /\ p > 0
      BY <2>2, <2>5
    <3>2. raw[c] = RawValue("RxPower", m.raw["RxPower"])
      <4>1. HeldAt(k, "RxPower")
        BY <2>5 DEF HeldAt
      <4> QED
        BY <4>1 DEF HasShown
    <3>3. RxTerm(m, t.adr, t.power, raw[c]) = Term(m, p)
      <4> HIDE DEF p
      <4> QED
        BY <3>1, <3>2, Zenon DEF Term
    <3>4. rows'[c] = Changed(rows[c], rows[c][Len(rows[c])][2] + Term(m, p))
      <4> HIDE DEF p
      <4> QED
        BY <1>3, <2>2, <3>1, <3>3
    <3>5. HasShown(Changed(rows[c], rows[c][Len(rows[c])][2] + Term(m, p)), raw[c], m, k + 1)
      BY <2>5, RxGoesOn
    <3> HIDE DEF p
    <3> QED
      BY <1>6, <2>3, <3>4, <3>5
  <2> QED
    BY <1>12, <2>4, <2>5
<1>13. CASE k = 38
  <2>1. t.do = "soft_shown"
    BY <1>1, <1>13, TransactionsOfStatus DEF Step
  <2>2. /\ Position(rest, 42) /\ rest # <<>>
        /\ Position(DdmAvailable \o Do("tx_disable_bit") \o rest, 39)
        /\ DdmAvailable \o Do("tx_disable_bit") \o rest # <<>>
    BY <1>13, Endings DEF rest
  <2>3. raw'[c] = raw[c]
    BY <1>2, <2>1
  <2>4. CASE m.soft
    <3>1. /\ reads'[c] = DdmAvailable \o Do("tx_disable_bit") \o rest
          /\ rows'[c] = rows[c]
      BY <1>3, <1>4, <2>1, <2>4, Zenon
    <3>2. HasShown(rows[c], raw[c], m, 39)
      <4>1. HasShown(rows[c], raw[c], m, 38)
        BY <1>13
      <4>2. RowsBefore(38) = 8 /\ RowsBefore(39) = 8 /\ \A q : ~ HeldAt(39, q)
        BY DEF RowsBefore, HeldAt
      <4> QED
        BY <4>1, <4>2 DEF HasShown
    <3>3. Position(reads'[c], 39) /\ reads'[c] # <<>>
      BY <2>2, <3>1, Zenon
    <3>4. 39 \in 1 .. 44
      OBVIOUS
    <3> QED
      BY <1>5, <2>3, <3>1, <3>2, <3>3, <3>4, Zenon DEF StatusOnward
  <2>5. CASE ~ m.soft
    <3> DEFINE row == <<"Soft Tx disable", "unsupported">>
    <3>1. reads'[c] = rest /\ rows'[c] = Grown(rows[c], row)
      BY <1>3, <1>4, <2>1, <2>5, Zenon
    <3>2. RightRow(row, RowsBefore(38) + 1, m)
      <4>1. ~ (RowsBefore(38) + 1 \in 1 .. 3) /\ ~ (RowsBefore(38) + 1 \in 4 .. 8)
        BY DEF RowsBefore
      <4> QED
        BY <4>1, Zenon DEF RightRow
    <3>3. HasShown(Grown(rows[c], row), raw[c], m, 42)
      <4>1. 38 \in {1, 2, 3, 11, 17, 31, 37, 38, 41, 44} /\ 42 = IF 38 = 38 THEN 42 ELSE 38 + 1
        OBVIOUS
      <4>2. HasShown(rows[c], raw[c], m, 38)
        BY <1>13
      <4> HIDE DEF row
      <4> QED
        BY <3>2, <4>1, <4>2, RowShown
    <3>4. 42 \in 1 .. 44
      OBVIOUS
    <3> QED
      BY <1>5, <2>2, <2>3, <3>1, <3>3, <3>4, Zenon DEF StatusOnward
  <2> QED
    BY <2>4, <2>5
<1>14. CASE k \in {41, 44}
  <2>1. t.do \in {"tx_disable_bit", "tx_disable_pin"}
    BY <1>1, <1>14, TransactionsOfStatus DEF Step
  <2>2. PICK row : rows'[c] = Grown(rows[c], row)
    BY <1>3, <2>1, Zenon
  <2>3. raw'[c] = raw[c] /\ reads'[c] = rest
    BY <1>2, <1>4, <2>1
  <2>4. RightRow(row, RowsBefore(k) + 1, m)
    <3>1. ~ (RowsBefore(k) + 1 \in 1 .. 3) /\ ~ (RowsBefore(k) + 1 \in 4 .. 8)
      BY <1>14 DEF RowsBefore
    <3> QED
      BY <3>1 DEF RightRow
  <2>5. /\ k \in {1, 2, 3, 11, 17, 31, 37, 38, 41, 44} /\ k # 38
        /\ k + 1 = IF k = 38 THEN 42 ELSE k + 1
    BY <1>14
  <2>6. HasShown(Grown(rows[c], row), raw[c], m, k + 1)
    BY <2>4, <2>5, RowShown
  <2> QED
    BY <1>6, <2>2, <2>3, <2>5, <2>6
<1>15. \/ k \in {1, 2, 3} \/ k \in {4, 5} \/ k \in Quiet \/ k \in RawReads \/ k \in Calibrations
       \/ k \in 21 .. 25 \/ k = 38 \/ k \in {41, 44}
  BY DEF Quiet, RawReads, Calibrations
<1> QED
  BY <1>7, <1>8, <1>9, <1>10, <1>11, <1>12, <1>13, <1>14, <1>15

-----------------------------------------------------------------------------
(* A status that is being read, of an SFP that was not replaced, has shown *)
(* what it should of that SFP; one that was returned is that SFP's.        *)
Faithful(c) ==
  at[c] # "idle" /\ asks[c].op = "get_status" /\ met[c] # NoSFP =>
    /\ cage = met[c]
    /\ \E k \in 1 .. 44 : Position(reads[c], k) /\ HasShown(rows[c], raw[c], met[c], k)

Returned(c) ==
  at[c] = "idle" /\ fate[c] = "ok" /\ asks[c].op = "get_status" /\ met[c] # NoSFP =>
    IsStatusOf(rows[c], met[c])

SFPTypeOK ==
  /\ CallsInv
  /\ node = "sfp"
  /\ cage \in SFPs \cup {NoSFP}
  /\ reads = [c \in Callers |-> reads[c]]
  /\ raw = [c \in Callers |-> raw[c]]
  /\ rows = [c \in Callers |-> rows[c]]
  /\ met = [c \in Callers |-> met[c]]
  /\ \A c \in Callers : at[c] \in {"idle", "sfp_read"}

SFPInv == SFPTypeOK /\ \A c \in Callers : Faithful(c) /\ Returned(c)

(* What a step leaves of another caller.                                   *)
Untouched(d) ==
  /\ at'[d] = at[d] /\ asks'[d] = asks[d] /\ fate'[d] = fate[d]
  /\ met'[d] = met[d] /\ reads'[d] = reads[d] /\ raw'[d] = raw[d] /\ rows'[d] = rows[d]

LEMMA UntouchedStays ==
  ASSUME NEW d \in Callers, Untouched(d), cage' = cage, Faithful(d), Returned(d)
  PROVE  Faithful(d)' /\ Returned(d)'
BY DEF Untouched, Faithful, Returned

LEMMA CallKeepsSFP ==
  ASSUME SFPInv, NEW c \in Callers, NEW r \in Asks[node][c], SFPCall(c, r)
  PROVE  SFPInv'
<1>1. CallsInv'
  BY BeginKeepsCalls DEF SFPInv, SFPTypeOK, SFPCall
<1>2. SFPTypeOK'
  BY <1>1 DEF SFPInv, SFPTypeOK, CallsInv, SFPCall, Begin
<1>3. ASSUME NEW d \in Callers, d # c
      PROVE  Faithful(d)' /\ Returned(d)'
  <2>1. Untouched(d) /\ cage' = cage
    BY <1>3 DEF SFPInv, SFPTypeOK, CallsInv, SFPCall, Begin, Untouched
  <2> QED
    BY <2>1, UntouchedStays DEF SFPInv
<1>4. Returned(c)'
  BY DEF SFPInv, SFPTypeOK, CallsInv, SFPCall, Begin, Returned
<1>5. Faithful(c)'
  <2>1. /\ cage' = cage /\ met'[c] = cage /\ rows'[c] = <<>> /\ asks'[c] = r
        /\ reads'[c] = IF r.op = "get_status" THEN Status ELSE Switch
    BY DEF SFPInv, SFPTypeOK, CallsInv, SFPCall, Begin
  <2>2. Position(Status, 1)
    <3>1. Status \in Seq(StatusReads)
      BY StatusInFull
    <3>2. PICK s \in Seq(StatusReads) : s = Status
      BY <3>1
    <3>3. IsRest(s, s, 1)
      BY DEF IsRest
    <3> QED
      BY <3>2, <3>3 DEF Position
  <2>3. \A value, m : HasShown(<<>>, value, m, 1)
    <3>1. RowsBefore(1) = 0 /\ \A q : ~ HeldAt(1, q)
      BY DEF RowsBefore, HeldAt
    <3>2. HasRows(<<>>, 0)
      BY DEF HasRows
    <3> QED
      BY <3>1, <3>2 DEF HasShown
  <2>4. asks'[c].op = "get_status" =>
          Position(reads'[c], 1) /\ HasShown(rows'[c], raw'[c], met'[c], 1)
    BY <2>1, <2>2, <2>3
  <2>5. 1 \in 1 .. 44
    OBVIOUS
  <2> QED
    BY <2>1, <2>4, <2>5, Zenon DEF Faithful
<1> QED
  BY <1>2, <1>3, <1>4, <1>5 DEF SFPInv

LEMMA ShownToOne ==
  ASSUME NEW c \in Callers, rows = [d \in Callers |-> rows[d]], NEW t, Shown(c, t)
  PROVE  rows' = [d \in Callers |-> rows'[d]] /\ \A d \in Callers \ {c} : rows'[d] = rows[d]
<1>1. \A label, value : Row(c, label, value) => \E z : rows' = [rows EXCEPT ![c] = z]
  BY DEF Row
<1>2. \/ \E label, value : Row(c, label, value)
      \/ NoRow
      \/ rows' = [rows EXCEPT ![c][Len(rows[c])][2] = @ + RxTerm(cage, t.adr, t.power, raw[c])]
  BY Zenon DEF Shown
<1>3. (\E z : rows' = [rows EXCEPT ![c] = z]) \/ rows' = rows
  <2>1. CASE rows' = [rows EXCEPT ![c][Len(rows[c])][2]
                                    = @ + RxTerm(cage, t.adr, t.power, raw[c])]
    BY <2>1, Zenon
  <2> QED
    BY <1>1, <1>2, <2>1 DEF NoRow
<1> QED
  BY <1>3

LEMMA ReadKeepsSFP ==
  ASSUME SFPInv, NEW c \in Callers, ReadSFP(c)
  PROVE  SFPInv'
<1>1. PICK l \in {"idle", "sfp_read"} : GoOn(c, l)
  BY DEF ReadSFP
<1>2. SFPTypeOK'
  <2>1. CallsInv'
    <3>1. CallsInv /\ at[c] # "idle"
      BY DEF SFPInv, SFPTypeOK, ReadSFP
    <3> QED
      BY <1>1, <3>1, GoOnKeepsCalls
  <2>2. cage' = cage /\ met' = met /\ reads' = [d \in Callers |-> reads'[d]]
    BY DEF SFPInv, SFPTypeOK, ReadSFP
  <2>3. raw' = [d \in Callers |-> raw'[d]]
    BY DEF SFPInv, SFPTypeOK, ReadSFP
  <2>4. rows' = [d \in Callers |-> rows'[d]]
    <3>1. PICK t : Shown(c, t)
      BY DEF ReadSFP
    <3> QED
      BY <3>1, ShownToOne DEF SFPInv, SFPTypeOK
  <2>5. node' = node /\ \A d \in Callers : at'[d] \in {"idle", "sfp_read"}
    BY <1>1 DEF SFPInv, SFPTypeOK, CallsInv, GoOn
  <2> QED
    BY <2>1, <2>2, <2>3, <2>4, <2>5 DEF SFPInv, SFPTypeOK
<1>3. ASSUME NEW d \in Callers, d # c
      PROVE  Faithful(d)' /\ Returned(d)'
  <2>1. rows'[d] = rows[d]
    <3>1. PICK t : Shown(c, t)
      BY DEF ReadSFP
    <3> QED
      BY <1>3, <3>1, ShownToOne DEF SFPInv, SFPTypeOK
  <2>2. reads'[d] = reads[d] /\ raw'[d] = raw[d]
    BY <1>3 DEF SFPInv, SFPTypeOK, ReadSFP
  <2>3. cage' = cage /\ met' = met
    BY DEF ReadSFP
  <2>4. at'[d] = at[d] /\ asks' = asks /\ fate' = fate
    BY <1>1, <1>3 DEF SFPInv, SFPTypeOK, CallsInv, GoOn
  <2>5. Untouched(d)
    BY <2>1, <2>2, <2>3, <2>4 DEF Untouched
  <2> QED
    BY <2>3, <2>5, UntouchedStays DEF SFPInv
<1>4. Faithful(c)' /\ Returned(c)'
  <2>1. asks' = asks /\ fate' = fate /\ cage' = cage /\ met' = met /\ at[c] # "idle"
    BY <1>1 DEF ReadSFP, GoOn
  <2>2. ASSUME asks[c].op = "get_status", met[c] # NoSFP
        PROVE  StatusOnward(c, met[c])
    <3>1. PICK k \in 1 .. 44 : Position(reads[c], k) /\ HasShown(rows[c], raw[c], met[c], k)
      BY <2>1, <2>2 DEF SFPInv, Faithful
    <3>2. PICK m : m = met[c] /\ m = cage
      BY <2>1, <2>2 DEF SFPInv, Faithful
    <3>3. IsSFP(m)
      BY <2>2, <3>2, SFPAssumption DEF SFPInv, SFPTypeOK
    <3>4. /\ at = [d \in Callers |-> at[d]] /\ rows = [d \in Callers |-> rows[d]]
          /\ raw = [d \in Callers |-> raw[d]] /\ reads = [d \in Callers |-> reads[d]]
      BY DEF SFPInv, SFPTypeOK, CallsInv
    <3>5. StatusOnward(c, m)
      BY <3>1, <3>2, <3>3, <3>4, StatusGoesOn
    <3> QED
      BY <3>2, <3>5
  <2>3. asks[c].op = "get_status" /\ met[c] # NoSFP => cage = met[c]
    BY <2>1 DEF SFPInv, Faithful
  <2>4. Faithful(c)'
    BY <2>1, <2>2, <2>3, Zenon DEF StatusOnward, Faithful
  <2>5. Returned(c)'
    BY <2>1, <2>2 DEF StatusOnward, Returned
  <2> QED
    BY <2>4, <2>5
<1> QED
  BY <1>2, <1>3, <1>4 DEF SFPInv

LEMMA FailureKeepsSFP ==
  ASSUME SFPInv, NEW c \in Callers, at[c] # "idle", NEW how \in {"SFPDDMUnsupported",
           "SFPDDMI2CAddressSwapUnsupported", "SoftTxLaserControlUnsupported", "SFPUnreachable",
           "I2CException", "bus_error"}, Fail(c, how), Abandons(c)
  PROVE  SFPInv'
<1>1. CallsInv'
  BY FailKeepsCalls DEF SFPInv, SFPTypeOK
<1>2. SFPTypeOK'
  BY <1>1 DEF SFPInv, SFPTypeOK, CallsInv, Fail, Abandons
<1>3. ASSUME NEW d \in Callers, d # c
      PROVE  Faithful(d)' /\ Returned(d)'
  <2>1. Untouched(d) /\ cage' = cage
    BY <1>3 DEF SFPInv, SFPTypeOK, CallsInv, Fail, Abandons, Untouched
  <2> QED
    BY <2>1, UntouchedStays DEF SFPInv
<1>4. at'[c] = "idle" /\ fate'[c] # "ok"
  BY DEF SFPInv, SFPTypeOK, CallsInv, Fail
<1>5. Faithful(c)' /\ Returned(c)'
  BY <1>4 DEF Faithful, Returned
<1> QED
  BY <1>2, <1>3, <1>5 DEF SFPInv

LEMMA ReplugKeepsSFP ==
  ASSUME SFPInv, Replug
  PROVE  SFPInv'
<1>1. CallsInv'
  BY StutterKeepsCalls DEF SFPInv, SFPTypeOK, Replug
<1>2. SFPTypeOK'
  BY <1>1 DEF SFPInv, SFPTypeOK, CallsInv, Replug, callerVars
<1>3. ASSUME NEW d \in Callers
      PROVE  Faithful(d)' /\ Returned(d)'
  <2>1. /\ at' = at /\ asks' = asks /\ fate' = fate
        /\ rows' = rows /\ raw' = raw /\ reads' = reads
        /\ met'[d] = IF at[d] = "idle" THEN met[d] ELSE NoSFP
    BY DEF Replug, callerVars
  <2> QED
    BY <2>1 DEF SFPInv, Faithful, Returned
<1> QED
  BY <1>2, <1>3 DEF SFPInv

(* A status that get_status returns shows the SFP that is in the cage,     *)
(* with each quantity as the SFP measures it, whatever other callers do to *)
(* the laser in between, for any SFPs and any calls.                       *)
THEOREM StatusesAreFaithful == SFPSpec => []ReadingsAsMeasured
<1>1. CallsInit({"sfp"}) /\ SFPInit => SFPInv
  <2> SUFFICES ASSUME CallsInit({"sfp"}), SFPInit
               PROVE  SFPInv
    OBVIOUS
  <2>1. CallsInv
    BY CallsStart
  <2>2. SFPTypeOK
    BY <2>1, SFPAssumption DEF SFPTypeOK, CallsInit, SFPInit
  <2>3. ASSUME NEW c \in Callers
        PROVE  Faithful(c) /\ Returned(c)
    BY DEF CallsInit, SFPInit, Faithful, Returned
  <2> QED
    BY <2>2, <2>3 DEF SFPInv
<1>2. SFPInv /\ [SFPNext]_<<callerVars, sfpVars>> => SFPInv'
  <2> SUFFICES ASSUME SFPInv, [SFPNext]_<<callerVars, sfpVars>>
               PROVE  SFPInv'
    OBVIOUS
  <2>1. ASSUME NEW c \in Callers, NEW r \in Asks[node][c], SFPCall(c, r)
        PROVE  SFPInv'
    BY <2>1, CallKeepsSFP
  <2>2. ASSUME NEW c \in Callers, ReadSFP(c)
        PROVE  SFPInv'
    BY <2>2, ReadKeepsSFP
  <2>3. ASSUME NEW c \in Callers, RefuseSFP(c)
        PROVE  SFPInv'
    <3>1. PICK how \in {"SFPDDMUnsupported", "SFPDDMI2CAddressSwapUnsupported",
                        "SoftTxLaserControlUnsupported"} : Fail(c, how)
      BY <2>3 DEF RefuseSFP, Refusal
    <3> QED
      BY <2>3, <3>1, FailureKeepsSFP DEF RefuseSFP
  <2>4. ASSUME NEW c \in Callers, Unreachable(c)
        PROVE  SFPInv'
    BY <2>4, FailureKeepsSFP DEF Unreachable
  <2>5. ASSUME NEW c \in Callers, SFPFails(c)
        PROVE  SFPInv'
    BY <2>5, FailureKeepsSFP DEF SFPFails, DispatchFails
  <2>6. CASE Replug
    BY <2>6, ReplugKeepsSFP
  <2>7. CASE UNCHANGED <<callerVars, sfpVars>>
    <3>1. CallsInv'
      BY <2>7, StutterKeepsCalls DEF SFPInv, SFPTypeOK
    <3>2. SFPTypeOK'
      BY <2>7, <3>1 DEF SFPInv, SFPTypeOK, callerVars, sfpVars
    <3>3. ASSUME NEW d \in Callers
          PROVE  Faithful(d)' /\ Returned(d)'
      <4>1. Untouched(d) /\ cage' = cage
        BY <2>7 DEF Untouched, callerVars, sfpVars
      <4> QED
        BY <4>1, UntouchedStays DEF SFPInv
    <3> QED
      BY <3>2, <3>3 DEF SFPInv
  <2> QED
    BY <2>1, <2>2, <2>3, <2>4, <2>5, <2>6, <2>7 DEF SFPNext, SFPStep
<1>3. SFPInv => ReadingsAsMeasured
  BY DEF SFPInv, Returned, IsStatusOf, ReadingsAsMeasured
<1> QED
  BY <1>1, <1>2, <1>3, PTL DEF SFPSpec

-----------------------------------------------------------------------------
(* Asynchronous packets.  Induction over Nat, since the library's theorem  *)
(* takes an operator.                                                      *)
LEMMA InductionOverNat ==
  ASSUME NEW S, 0 \in S, \A n \in Nat : n \in S => n + 1 \in S
  PROVE  Nat \subseteq S
<1> DEFINE R == OpToRel(<, Nat)
<1> SUFFICES ASSUME Nat \ S # {} PROVE FALSE
  OBVIOUS
<1>1. IsWellFoundedOn(R, Nat)
  BY NatLessThanWellFounded
<1> HIDE DEF R
<1>2. PICK m \in Nat \ S : \A k \in Nat \ S : ~ (<<k, m>> \in R)
  BY <1>1, WFMin
<1>3. \A k \in Nat : k < m => <<k, m>> \in R
  BY <1>2 DEF OpToRel, R
<1>4. m # 0 /\ m \in Nat /\ m \notin S
  BY <1>2
<1>5. m - 1 \in Nat /\ m - 1 < m
  BY <1>4
<1>6. m - 1 \in S
  BY <1>2, <1>3, <1>5
<1> QED
  BY <1>4, <1>5, <1>6

(* The endpoint's way through the words of a packet: where it goes on from *)
(* word i, and what a function from words on must satisfy to be it.        *)
After(w, i) == i + 2 + Len(TransactionAt(w, i).data)

Chained(t, rest) == <<t>> \o rest

Parses(w, f, m) ==
  f = [i \in m .. Len(w) + 65 |->
         IF i >= Len(w) THEN <<>> ELSE Chained(TransactionAt(w, i), f[After(w, i)])]

LEMMA AfterIsLater ==
  ASSUME NEW w \in Seq(Octets), NEW i \in 1 .. Len(w) - 1
  PROVE  After(w, i) \in i + 2 .. i + 65
<1>0. i \in Nat
  OBVIOUS
<1>1. w[i + 1] \in 0 .. 255
  <2>1. w[i + 1] \in Octets
    OBVIOUS
  <2> QED
    BY <2>1 DEF Octets
<1>2. PICK l \in 0 .. 63 : l = w[i + 1] % 64
  <2>1. \A b \in 0 .. 255 : b % 64 \in 0 .. 63
    OBVIOUS
  <2> QED
    BY <1>1, <2>1
<1>3. Len(SubSeq(w, i + 2, i + 1 + l)) = l /\ Len(<<>>) = 0
  <2>1. i + 2 \in Nat /\ i + 1 + l \in Nat /\ l \in Nat
    BY <1>0
  <2> QED
    BY <2>1
<1>4. TransactionAt(w, i).data \in {SubSeq(w, i + 2, i + 1 + l), <<>>}
  BY <1>2 DEF TransactionAt
<1>5. Len(TransactionAt(w, i).data) \in 0 .. 63
  <2>1. l \in 0 .. 63 /\ 0 \in 0 .. 63
    OBVIOUS
  <2> QED
    BY <1>3, <1>4, <2>1, Zenon
<1> QED
  <2>1. PICK k \in 0 .. 63 : k = Len(TransactionAt(w, i).data)
    BY <1>5, Zenon
  <2>2. After(w, i) = i + 2 + k
    BY <2>1, Zenon DEF After
  <2> QED
    BY <1>0, <2>2

LEMMA ParsesFromAnywhere ==
  ASSUME NEW w \in Seq(Octets)
  PROVE  \A k \in Nat : k < Len(w) => \E f : Parses(w, f, Len(w) - k)
<1> DEFINE n == Len(w)
           S == {k \in Nat : k < n => \E f : Parses(w, f, n - k)}
<1>1. n \in Nat
  OBVIOUS
<1>2. 0 \in S
  <2>1. Parses(w, [i \in n .. n + 65 |-> <<>>], n - 0)
    BY <1>1 DEF Parses
  <2> QED
    BY <2>1
<1>3. ASSUME NEW k \in Nat, k \in S PROVE k + 1 \in S
  <2> SUFFICES ASSUME k + 1 < n PROVE \E f : Parses(w, f, n - (k + 1))
    OBVIOUS
  <2>1. PICK g : Parses(w, g, n - k)
    BY <1>1, <1>3
  <2> DEFINE m == n - (k + 1)
             f == [i \in m .. n + 65 |-> IF i = m THEN Chained(TransactionAt(w, m), g[After(w, m)]) ELSE g[i]]
  <2>2. m \in Nat /\ m \in 1 .. n - 1 /\ n - k = m + 1
    BY <1>1
  <2> HIDE DEF m, n
  <2>3. \A i \in m .. n + 65 :
          f[i] = IF i >= n THEN <<>> ELSE Chained(TransactionAt(w, i), f[After(w, i)])
    <3> SUFFICES ASSUME NEW i \in m .. n + 65
                 PROVE  f[i] = IF i >= n THEN <<>> ELSE Chained(TransactionAt(w, i), f[After(w, i)])
      OBVIOUS
    <3>1. i < n => After(w, i) \in m + 1 .. n + 65
      <4>1. i < n => i \in 1 .. Len(w) - 1
        BY <1>1, <2>2 DEF n
      <4> QED
        BY <1>1, <2>2, <4>1, AfterIsLater
    <3>2. i < n => f[After(w, i)] = g[After(w, i)]
      BY <2>2, <3>1
    <3>3. CASE i = m
      BY <1>1, <2>2, <3>2, <3>3
    <3>4. CASE i # m
      <4>1. f[i] = g[i] /\ i \in n - k .. Len(w) + 65
        BY <1>1, <2>2, <3>4 DEF n
      <4>2. g[i] = IF i >= Len(w) THEN <<>> ELSE Chained(TransactionAt(w, i), g[After(w, i)])
        BY <2>1, <4>1 DEF Parses
      <4> HIDE DEF f
      <4> QED
        BY <1>1, <2>2, <3>2, <4>1, <4>2 DEF n
    <3> QED
      BY <3>3, <3>4
  <2>4. Parses(w, f, m)
    BY <2>3, Zenon DEF Parses, n
  <2> QED
    BY <2>4 DEF m
<1>4. Nat \subseteq S
  <2> HIDE DEF S
  <2> QED
    BY <1>2, <1>3, InductionOverNat
<1> QED
  BY <1>1, <1>4

(* Hence the endpoint gets through any packet, as Parsed says.             *)
LEMMA ParsedOnwards ==
  ASSUME NEW w \in Seq(Octets), Len(w) >= 4, NEW i \in 4 .. Len(w) + 65
  PROVE  Parsed(w)[i] = IF i >= Len(w) THEN <<>>
                        ELSE Chained(TransactionAt(w, i), Parsed(w)[After(w, i)])
<1>1. Len(w) \in Nat /\ Len(w) - 4 \in Nat /\ Len(w) - (Len(w) - 4) = 4
  OBVIOUS
<1>2. \E f : Parses(w, f, 4)
  BY <1>1, ParsesFromAnywhere
<1>3. Parsed(w) = CHOOSE f : Parses(w, f, 4)
  BY DEF Parsed, Parses, After, Chained
<1>4. Parses(w, Parsed(w), 4)
  BY <1>2, <1>3
<1> QED
  BY <1>4, Zenon DEF Parses

(* The mark on the last word is what the endpoint stops at; without it the *)
(* words are those before it was put.                                      *)
LEMMA MarkEnds ==
  ASSUME NEW p \in Seq(Octets), Len(p) >= 1
  PROVE  /\ Transactions(Closed(p)) = Parsed(p)[4]
         /\ Len(Closed(p)) = Len(p)
         /\ \A i \in 1 .. Len(p) - 1 : Closed(p)[i] = p[i]
<1> DEFINE n == Len(p)
           q == Closed(p)
<1>1. n \in Nat /\ n \in 1 .. n /\ p = [i \in 1 .. n |-> p[i]]
  OBVIOUS
<1>2. \A i \in 1 .. n : p[i] \in 0 .. 255
  <2>1. \A i \in 1 .. n : p[i] \in Octets
    OBVIOUS
  <2> QED
    BY <2>1 DEF Octets
<1> HIDE DEF n
<1>3. q = [i \in 1 .. n |-> IF i = n THEN p[i] + 256 ELSE p[i]]
  BY <1>1 DEF Closed, n
<1> HIDE DEF q
<1>4. /\ \A i \in 1 .. n : q[i] = IF i = n THEN p[i] + 256 ELSE p[i]
      /\ DOMAIN q = 1 .. n
  BY <1>3
<1>5. ASSUME NEW i \in 1 .. n
      PROVE  q[i] \in Int /\ (q[i] >= 256 <=> i = n) /\ q[i] % 256 = p[i]
  <2>1. PICK b \in 0 .. 255 : b = p[i]
    BY <1>2
  <2>2. q[i] = IF i = n THEN b + 256 ELSE b
    BY <1>4, <2>1
  <2>3. b % 256 = b /\ (b + 256) % 256 = b
    OBVIOUS
  <2>4. CASE i = n
    BY ONLY <2>1, <2>2, <2>3, <2>4
  <2>5. CASE i # n
    BY ONLY <2>1, <2>2, <2>3, <2>5
  <2> QED
    BY <2>4, <2>5
<1>6. q \in Seq(Int) /\ Len(q) = n
  <2>1. q = [i \in 1 .. n |-> q[i]]
    BY <1>3, <1>4, Zenon
  <2>2. q \in [1 .. n -> Int]
    BY <1>5, <2>1
  <2> QED
    BY <1>1, <2>2
<1>7. Marked(q) = {n}
  <2>1. \A i \in DOMAIN q : q[i] >= 256 <=> i = n
    BY <1>4, <1>5
  <2> QED
    BY <1>1, <1>4, <2>1 DEF Marked
<1>8. (CHOOSE i \in Marked(q) : \A j \in Marked(q) : i <= j) = n
  BY <1>1, <1>7
<1>9. DOMAIN UpToMark(q) = 1 .. n
  <2>1. UpToMark(q) = SubSeq(q, 1, n)
    BY <1>8 DEF UpToMark
  <2> QED
    BY <1>1, <1>6, <2>1
<1>10. [i \in DOMAIN UpToMark(q) |-> q[i] % 256] = p
  BY <1>1, <1>9, <1>5, Zenon
<1>11. \A i \in 1 .. n - 1 : i \in 1 .. n /\ i # n
  BY <1>1
<1> QED
  <2>1. Transactions(q) = Parsed(p)[4]
    BY <1>10 DEF Transactions
  <2> QED
    BY <1>4, <1>6, <1>11, <2>1 DEF q, n

-----------------------------------------------------------------------------
(* Writes of some transactions, likewise.                                  *)
Collects(ts, f, m) ==
  f = [n \in 0 .. m |-> IF n = 0 THEN <<>> ELSE Cat(f[n - 1], WritesIn(ts[n]))]

LEMMA CollectsAny ==
  ASSUME NEW ts
  PROVE  \A m \in Nat : \E f : Collects(ts, f, m)
<1> DEFINE S == {m \in Nat : \E f : Collects(ts, f, m)}
<1>1. 0 \in S
  <2>1. Collects(ts, [n \in 0 .. 0 |-> <<>>], 0)
    BY DEF Collects
  <2> QED
    BY <2>1
<1>2. ASSUME NEW m \in Nat, m \in S PROVE m + 1 \in S
  <2>1. PICK g : Collects(ts, g, m)
    BY <1>2
  <2> DEFINE f == [n \in 0 .. m + 1 |-> IF n = m + 1 THEN Cat(g[m], WritesIn(ts[m + 1])) ELSE g[n]]
  <2>2. \A n \in 0 .. m + 1 : f[n] = IF n = 0 THEN <<>> ELSE Cat(f[n - 1], WritesIn(ts[n]))
    <3> SUFFICES ASSUME NEW n \in 0 .. m + 1
                 PROVE  f[n] = IF n = 0 THEN <<>> ELSE Cat(f[n - 1], WritesIn(ts[n]))
      OBVIOUS
    <3>1. n # 0 => f[n - 1] = g[n - 1]
      OBVIOUS
    <3>2. CASE n = m + 1
      BY <3>1, <3>2
    <3>3. CASE n # m + 1
      <4>1. f[n] = g[n] /\ n \in 0 .. m
        BY <3>3
      <4>2. g[n] = IF n = 0 THEN <<>> ELSE Cat(g[n - 1], WritesIn(ts[n]))
        BY <2>1, <4>1 DEF Collects
      <4> HIDE DEF f
      <4> QED
        BY <3>1, <4>1, <4>2
    <3> QED
      BY <3>2, <3>3
  <2>3. Collects(ts, f, m + 1)
    BY <2>2, Zenon DEF Collects
  <2> QED
    BY <2>3
<1>3. Nat \subseteq S
  <2> HIDE DEF S
  <2> QED
    BY <1>1, <1>2, InductionOverNat
<1> QED
  BY <1>3

LEMMA WritesInTurn ==
  ASSUME NEW ts, Len(ts) \in Nat, NEW n \in 0 .. Len(ts)
  PROVE  WritesUpTo(ts)[n] = IF n = 0 THEN <<>> ELSE Cat(WritesUpTo(ts)[n - 1], WritesIn(ts[n]))
<1>1. \E f : Collects(ts, f, Len(ts))
  BY CollectsAny
<1>2. WritesUpTo(ts) = CHOOSE f : Collects(ts, f, Len(ts))
  BY DEF WritesUpTo, Collects, Cat
<1>3. Collects(ts, WritesUpTo(ts), Len(ts))
  BY <1>1, <1>2
<1> QED
  BY <1>3, Zenon DEF Collects

-----------------------------------------------------------------------------
(* What an endpoint makes of a write, and of a read, wherever it stands in *)
(* a packet.                                                               *)
WriteOf(reg, mode, data) ==
  [write |-> TRUE, reg |-> reg, mode |-> mode, len |-> Len(data), data |-> data]

ReadOf(reg, mode, len) ==
  [write |-> FALSE, reg |-> reg, mode |-> mode, len |-> len, data |-> <<>>]

(* The fields of the two words that say what a transaction is.            *)
Fields(reg, mode, len) ==
  /\ 128 + reg >= 128 /\ 128 + reg \in 0 .. 255 /\ (128 + reg) % 128 = reg /\ reg % 128 = reg
  /\ (128 * mode) + (len % 64) \in 0 .. 255
  /\ ((128 * mode) + (len % 64)) % 64 = len
  /\ ((128 * mode) + (len % 64)) \div 128 = mode

LEMMA FieldsOfWords ==
  ASSUME NEW reg \in 0 .. 127, NEW mode \in 0 .. 1, NEW len \in 0 .. 63
  PROVE  Fields(reg, mode, len)
<1>1. len % 64 = len
  OBVIOUS
<1>2. CASE mode = 0
  BY <1>1, <1>2 DEF Fields
<1>3. CASE mode = 1
  BY <1>1, <1>3 DEF Fields
<1> QED
  BY <1>2, <1>3

LEMMA PartOf ==
  ASSUME NEW w \in Seq(Octets), NEW i \in Nat, NEW k \in Nat, i + 1 + k <= Len(w)
  PROVE  LET s == SubSeq(w, i + 2, i + 1 + k)
         IN  DOMAIN s = 1 .. k /\ s = [j \in 1 .. k |-> s[j]] /\ \A j \in 1 .. k : s[j] = w[i + 1 + j]
OBVIOUS

LEMMA WriteUnderstood ==
  ASSUME NEW w, NEW i \in Nat,
         NEW reg \in 0 .. 127, NEW mode \in 0 .. 1, NEW data \in Seq(Octets),
         Len(data) \in 1 .. 63, w \in Seq(Octets), i >= 1, i + 1 + Len(data) <= Len(w),
         w[i] = 128 + reg, w[i + 1] = (128 * mode) + (Len(data) % 64),
         \A j \in 1 .. Len(data) : w[i + 1 + j] = data[j]
  PROVE  TransactionAt(w, i) = WriteOf(reg, mode, data) /\ After(w, i) = i + 2 + Len(data)
<1> DEFINE k == Len(data)
           sub == SubSeq(w, i + 2, i + 1 + k)
<1>1. k \in 1 .. 63 /\ k \in 0 .. 63 /\ data = [j \in 1 .. k |-> data[j]]
  OBVIOUS
<1>2. sub = data
  <2>1. k \in Nat /\ i + 1 + k <= Len(w)
    OBVIOUS
  <2> HIDE DEF k
  <2>2. DOMAIN sub = 1 .. k /\ sub = [j \in 1 .. k |-> sub[j]] /\ \A j \in 1 .. k : sub[j] = w[i + 1 + j]
    BY <2>1, PartOf
  <2>3. \A j \in 1 .. k : sub[j] = data[j]
    BY <2>2 DEF k
  <2> HIDE DEF sub
  <2> QED
    BY <1>1, <2>2, <2>3, Zenon
<1>3. /\ 128 + reg >= 128 /\ (128 + reg) % 128 = reg
      /\ ((128 * mode) + (k % 64)) % 64 = k /\ ((128 * mode) + (k % 64)) \div 128 = mode
  <2> HIDE DEF k
  <2>1. reg \in 0 .. 127 /\ mode \in 0 .. 1 /\ k \in 0 .. 63
    BY <1>1
  <2>2. Fields(reg, mode, k)
    BY ONLY <2>1, FieldsOfWords
  <2> QED
    BY <2>2, Zenon DEF Fields
<1> HIDE DEF k
<1>4. w[i] >= 128 /\ w[i] % 128 = reg /\ w[i + 1] % 64 = k /\ w[i + 1] \div 128 = mode
  BY <1>3 DEF k
<1>5. TransactionAt(w, i) = WriteOf(reg, mode, data)
  <2>1. (w[i] >= 128) = TRUE
    BY <1>4
  <2>2. TransactionAt(w, i) = [write |-> TRUE, reg |-> reg, mode |-> mode, len |-> k,
                               data |-> SubSeq(w, i + 2, i + 1 + k)]
    BY <1>4, <2>1, Zenon DEF TransactionAt
  <2> QED
    BY <1>2, <2>2, Zenon DEF WriteOf, k
<1> QED
  BY <1>5 DEF After, WriteOf

LEMMA ReadUnderstood ==
  ASSUME NEW w, NEW i \in Nat,
         NEW reg \in 0 .. 127, NEW mode \in 0 .. 1, NEW len \in 1 .. 63,
         w[i] = reg, w[i + 1] = (128 * mode) + (len % 64)
  PROVE  TransactionAt(w, i) = ReadOf(reg, mode, len) /\ After(w, i) = i + 2
<1>1. /\ reg % 128 = reg
      /\ ((128 * mode) + (len % 64)) % 64 = len /\ ((128 * mode) + (len % 64)) \div 128 = mode
  <2>1. reg \in 0 .. 127 /\ mode \in 0 .. 1 /\ len \in 0 .. 63
    OBVIOUS
  <2>2. Fields(reg, mode, len)
    BY ONLY <2>1, FieldsOfWords
  <2> QED
    BY <2>2, Zenon DEF Fields
<1>2. (w[i] >= 128) = FALSE
  OBVIOUS
<1>3. w[i] % 128 = reg /\ w[i + 1] % 64 = len /\ w[i + 1] \div 128 = mode
  BY <1>1
<1>4. TransactionAt(w, i) = ReadOf(reg, mode, len)
  BY <1>2, <1>3, Zenon DEF TransactionAt, ReadOf
<1>5. Len(<<>>) = 0
  OBVIOUS
<1> QED
  BY <1>4, <1>5 DEF After, ReadOf

(* Behind some words of a packet, a write is where it should be.           *)
PutBehind(p, s, n, reg, mode, data) ==
  /\ p \in Seq(Octets) /\ Len(p) = n + 2 + Len(data)
  /\ \A i \in 1 .. n : p[i] = s[i]
  /\ p[n + 1] = 128 + reg /\ p[n + 2] = (128 * mode) + (Len(data) % 64)
  /\ \A j \in 1 .. Len(data) : p[n + 2 + j] = data[j]

LEMMA WritePut ==
  ASSUME NEW s \in Seq(Octets),
         NEW reg \in 0 .. 127, NEW mode \in 0 .. 1, NEW data \in Seq(Octets),
         Len(data) \in 1 .. 63
  PROVE  PutBehind(Cat(s, WriteTo(reg, mode, data)), s, Len(s), reg, mode, data)
<1> DEFINE a == 128 + reg
           b == (128 * mode) + (Len(data) % 64)
           h == <<a, b>>
           t == Cat(h, data)
           n == Len(s)
           k == Len(data)
           p == Cat(s, t)
<1>1. a \in Octets /\ b \in Octets
  <2>1. a \in 0 .. 255 /\ b \in 0 .. 255
    <3>1. reg \in 0 .. 127 /\ mode \in 0 .. 1 /\ Len(data) \in 0 .. 63
      OBVIOUS
    <3>2. Fields(reg, mode, Len(data))
      BY ONLY <3>1, FieldsOfWords
    <3> QED
      BY <3>2, Zenon DEF Fields
  <2> QED
    BY <2>1 DEF Octets
<1> HIDE DEF a, b
<1>2. h \in Seq(Octets) /\ Len(h) = 2 /\ h[1] = a /\ h[2] = b
  BY <1>1
<1> HIDE DEF h
<1>3. /\ t \in Seq(Octets) /\ Len(t) = Len(h) + k
      /\ \A i \in 1 .. Len(h) + k : t[i] = IF i <= Len(h) THEN h[i] ELSE data[i - Len(h)]
  BY <1>2, Concatenated
<1>4. k \in 1 .. 63 /\ n \in Nat
  OBVIOUS
<1> HIDE DEF t, k
<1>5. /\ Len(t) = 2 + k /\ t[1] = a /\ t[2] = b
      /\ \A j \in 1 .. k : t[2 + j] = data[j]
  BY <1>2, <1>3, <1>4
<1>6. /\ p \in Seq(Octets) /\ Len(p) = n + Len(t)
      /\ \A i \in 1 .. n + Len(t) : p[i] = IF i <= n THEN s[i] ELSE t[i - n]
  BY <1>3, Concatenated
<1> HIDE DEF p, n
<1>7. /\ Len(p) = n + 2 + k
      /\ \A i \in 1 .. n : p[i] = s[i]
      /\ p[n + 1] = a /\ p[n + 2] = b
      /\ \A j \in 1 .. k : p[n + 2 + j] = data[j]
  <2>1. \A j \in 1 .. 2 + k : p[n + j] = t[j]
    <3> SUFFICES ASSUME NEW j \in 1 .. 2 + k PROVE p[n + j] = t[j]
      OBVIOUS
    <3>1. j \in Int /\ n + j \in 1 .. n + Len(t) /\ ~ (n + j <= n) /\ (n + j) - n = j
      BY <1>4, <1>5
    <3> QED
      BY <1>6, <3>1
  <2> QED
    BY <1>4, <1>5, <1>6, <2>1
<1>8. p = Cat(s, WriteTo(reg, mode, data))
  BY DEF p, t, h, a, b, WriteTo, Cat
<1> QED
  BY <1>6, <1>7, <1>8, Zenon DEF PutBehind, n, k, a, b

-----------------------------------------------------------------------------
(* Headers, and packets of one transaction.                                *)
LEMMA HeaderIs ==
  ASSUME NEW a \in Addresses
  PROVE  /\ Header(a) \in Seq(Octets) /\ Len(Header(a)) = 3
         /\ Header(a)[1] = a % 256 /\ Header(a)[2] = a \div 256
<1>1. a % 256 \in 0 .. 255 /\ a \div 256 \in 0 .. 255 /\ Sequence \in 0 .. 255
  <2>1. a % 256 \in 0 .. 255
    BY DEF Addresses
  <2>2. a \div 256 \in 0 .. 255
    <3>1. a \in Int /\ 0 <= a /\ a < 65536 /\ a \div 256 \in Int
      BY DEF Addresses
    <3>2. 0 <= a \div 256
      BY <3>1
    <3>3. a \div 256 < 256
      BY <3>1
    <3> QED
      BY <3>1, <3>2, <3>3
  <2>3. Sequence \in 0 .. 255
    BY DEF Sequence
  <2> QED
    BY <2>1, <2>2, <2>3
<1>2. a % 256 \in Octets /\ a \div 256 \in Octets /\ Sequence \in Octets
  BY <1>1 DEF Octets
<1> QED
  BY <1>2, Triple DEF Header

LEMMA OthersUnmarked ==
  \A p \in Seq(Octets) : Len(p) >= 1 => \A i \in 1 .. Len(p) - 1 : Closed(p)[i] = p[i]
BY ONLY MarkEnds, Zenon

LEMMA AddressedTo ==
  ASSUME NEW a \in Addresses, NEW w \in Seq(Octets), Len(w) >= 4,
         w[1] = a % 256, w[2] = a \div 256
  PROVE  Addressee(Closed(w)) = a
<1>1. 1 \in 1 .. Len(w) - 1 /\ 2 \in 1 .. Len(w) - 1 /\ Len(w) >= 1
  OBVIOUS
<1>2. Closed(w)[1] = w[1] /\ Closed(w)[2] = w[2]
  <2>1. \A i \in 1 .. Len(w) - 1 : Closed(w)[i] = w[i]
    <3>1. w \in Seq(Octets) /\ Len(w) >= 1
      OBVIOUS
    <3> QED
      BY ONLY <3>1, OthersUnmarked
  <2>2. 1 \in 1 .. Len(w) - 1 /\ 2 \in 1 .. Len(w) - 1
    BY <1>1
  <2> QED
    BY ONLY <2>1, <2>2
<1>3. (a % 256) + (256 * (a \div 256)) = a
  BY DEF Addresses
<1> QED
  BY <1>2, <1>3 DEF Addressee

LEMMA NothingFollows == ASSUME NEW t PROVE Chained(t, <<>>) = <<t>>
BY DEF Chained

LEMMA OneTransaction ==
  ASSUME NEW w \in Seq(Octets), Len(w) >= 5, After(w, 4) \in Len(w) .. Len(w) + 65
  PROVE  Transactions(Closed(w)) = << TransactionAt(w, 4) >>
<1>1. Len(w) \in Nat /\ 4 \in 4 .. Len(w) + 65 /\ ~ (4 >= Len(w)) /\ Len(w) >= 4 /\ Len(w) >= 1
  OBVIOUS
<1>2. Parsed(w)[4] = Chained(TransactionAt(w, 4), Parsed(w)[After(w, 4)])
  BY <1>1, ParsedOnwards
<1>3. After(w, 4) \in 4 .. Len(w) + 65 /\ After(w, 4) >= Len(w)
  BY <1>1
<1>4. Parsed(w)[After(w, 4)] = <<>>
  BY <1>1, <1>3, ParsedOnwards
<1>5. Transactions(Closed(w)) = Parsed(w)[4]
  BY <1>1, MarkEnds
<1> QED
  BY <1>2, <1>4, <1>5, NothingFollows

(* The writes a sequence of one transaction holds.                         *)
Values == Int \X Octets

LEMMA NothingBefore == ASSUME NEW S, NEW s \in Seq(S) PROVE Cat(<<>>, s) = s
BY DEF Cat

LEMMA WritesOfOne ==
  ASSUME NEW t, WritesIn(t) \in Seq(Values)
  PROVE  WritesOf(<<t>>) = WritesIn(t)
<1> DEFINE ts == <<t>>
<1>1. Len(ts) = 1 /\ ts[1] = t
  OBVIOUS
<1> HIDE DEF ts
<1>2. Len(ts) \in Nat /\ 0 \in 0 .. Len(ts) /\ 1 \in 0 .. Len(ts) /\ 1 - 1 = 0
  BY <1>1
<1>3. WritesUpTo(ts)[0] = <<>>
  BY <1>2, WritesInTurn
<1>4. WritesUpTo(ts)[1] = Cat(WritesUpTo(ts)[1 - 1], WritesIn(ts[1]))
  BY <1>2, WritesInTurn
<1>5. WritesOf(ts) = Cat(<<>>, WritesIn(t))
  BY <1>1, <1>2, <1>3, <1>4, Zenon DEF WritesOf
<1> QED
  BY <1>5, NothingBefore DEF ts

LEMMA WritesInWrite ==
  ASSUME NEW reg \in 0 .. 127, NEW mode \in 0 .. 1, NEW data \in Seq(Octets)
  PROVE  LET ws == WritesIn(WriteOf(reg, mode, data))
         IN  /\ ws = [i \in DOMAIN data |-> <<reg + (mode * (i - 1)), data[i]>>]
             /\ ws \in Seq(Values)
<1> DEFINE ws == [i \in DOMAIN data |-> <<reg + (mode * (i - 1)), data[i]>>]
<1>1. DOMAIN data = 1 .. Len(data) /\ Len(data) \in Nat /\ \A i \in 1 .. Len(data) : data[i] \in Octets
  OBVIOUS
<1>2. \A i \in 1 .. Len(data) : reg + (mode * (i - 1)) \in Int
  <2>1. mode \in Int /\ reg \in Int
    OBVIOUS
  <2> QED
    BY <2>1
<1>3. WritesIn(WriteOf(reg, mode, data)) = ws
  BY Zenon DEF WritesIn, WriteOf, Register
<1>4. DOMAIN ws = 1 .. Len(data)
      /\ \A i \in 1 .. Len(data) : ws[i] = <<reg + (mode * (i - 1)), data[i]>>
  BY <1>1, Zenon
<1>5. \A i \in 1 .. Len(data) : ws[i] \in Values
  <2> SUFFICES ASSUME NEW i \in 1 .. Len(data) PROVE ws[i] \in Values
    OBVIOUS
  <2> DEFINE x == reg + (mode * (i - 1))
             v == data[i]
  <2>1. x \in Int /\ v \in Octets /\ ws[i] = <<x, v>>
    BY <1>1, <1>2, <1>4
  <2> HIDE DEF x, v, ws
  <2> QED
    BY <2>1 DEF Values
<1>6. ws \in Seq(Values)
  <2> HIDE DEF ws
  <2>1. ws = [i \in 1 .. Len(data) |-> ws[i]]
    BY <1>1, Zenon DEF ws
  <2>2. ws \in [1 .. Len(data) -> Values]
    BY <1>5, <2>1
  <2> QED
    BY <1>1, <2>2
<1> QED
  BY <1>3, <1>4, <1>5, <1>6, Zenon

-----------------------------------------------------------------------------
(* A packet with one write, and one with a read.                           *)
OneWritePacket(p, a, reg, mode, data) ==
  /\ Addressee(p) = a
  /\ Transactions(p) = << WriteOf(reg, mode, data) >>
  /\ WritesOf(Transactions(p)) = [i \in DOMAIN data |-> <<reg + (mode * (i - 1)), data[i]>>]
  /\ WritesOf(Transactions(p)) \in Seq(Values)

LEMMA SingleWrite ==
  ASSUME NEW a \in Addresses, NEW reg \in 0 .. 127, NEW mode \in 0 .. 1,
         NEW data \in Seq(Octets), Len(data) \in 1 .. 63
  PROVE  OneWritePacket(Closed(Header(a) \o WriteTo(reg, mode, data)), a, reg, mode, data)
<1> DEFINE h == Header(a)
           p == Cat(h, WriteTo(reg, mode, data))
           k == Len(data)
           t == WriteOf(reg, mode, data)
<1>1. h \in Seq(Octets) /\ Len(h) = 3 /\ h[1] = a % 256 /\ h[2] = a \div 256
  BY HeaderIs
<1> HIDE DEF h
<1>2. PutBehind(p, h, 3, reg, mode, data)
  BY <1>1, WritePut
<1> HIDE DEF p
<1>3. k \in 1 .. 63 /\ k \in Nat /\ 1 \in 1 .. 3 /\ 2 \in 1 .. 3
  OBVIOUS
<1>4. /\ p \in Seq(Octets) /\ Len(p) = 3 + 2 + k /\ p[1] = h[1] /\ p[2] = h[2]
      /\ p[3 + 1] = 128 + reg /\ p[3 + 2] = (128 * mode) + (k % 64)
      /\ \A j \in 1 .. k : p[3 + 2 + j] = data[j]
  BY ONLY <1>2, <1>3, Zenon DEF PutBehind
<1> HIDE DEF k
<1>5. TransactionAt(p, 4) = t /\ After(p, 4) = 4 + 2 + k
  <2>1. 4 \in Nat /\ 4 >= 1 /\ 4 + 1 + k <= Len(p) /\ 3 + 1 = 4 /\ 3 + 2 = 4 + 1
    BY <1>3, <1>4
  <2>2. p[4] = 128 + reg /\ p[4 + 1] = (128 * mode) + (k % 64) /\ \A j \in 1 .. k : p[4 + 1 + j] = data[j]
    BY ONLY <1>4, <2>1, Zenon
  <2> QED
    BY <1>3, <1>4, <2>1, <2>2, WriteUnderstood, Zenon DEF k
<1>6. Len(p) >= 4 /\ Len(p) >= 5 /\ After(p, 4) \in Len(p) .. Len(p) + 65
  BY <1>3, <1>4, <1>5
<1>7. Transactions(Closed(p)) = <<t>>
  BY <1>4, <1>5, <1>6, OneTransaction
<1>8. Addressee(Closed(p)) = a
  <2>1. p[1] = a % 256 /\ p[2] = a \div 256 /\ p \in Seq(Octets) /\ Len(p) >= 4 /\ a \in Addresses
    BY <1>1, <1>4, <1>6, Zenon
  <2> QED
    BY ONLY <2>1, AddressedTo
<1>9. /\ WritesIn(t) = [i \in DOMAIN data |-> <<reg + (mode * (i - 1)), data[i]>>]
      /\ WritesIn(t) \in Seq(Values)
  BY WritesInWrite, Zenon
<1>10. WritesOf(<<t>>) = WritesIn(t)
  BY <1>9, WritesOfOne
<1>11. p = Header(a) \o WriteTo(reg, mode, data)
  BY DEF p, h, Cat
<1> QED
  <2>1. Transactions(Closed(p)) = <<t>> /\ WritesOf(Transactions(Closed(p))) = WritesIn(t)
    BY <1>7, <1>10, Zenon
  <2> HIDE DEF t
  <2>2. OneWritePacket(Closed(p), a, reg, mode, data)
    BY <1>8, <1>9, <2>1, Zenon DEF OneWritePacket, t
  <2> QED
    BY <1>11, <2>2, Zenon

LEMMA SingleRead ==
  ASSUME NEW a \in Addresses, NEW reg \in 0 .. 127, NEW mode \in 0 .. 1, NEW len \in 1 .. 63
  PROVE  LET p == Closed(Header(a) \o ReadFrom(reg, mode, len))
         IN  /\ Addressee(p) = a
             /\ Transactions(p) = << ReadOf(reg, mode, len) >>
             /\ WritesOf(Transactions(p)) = <<>>
<1> DEFINE h == Header(a)
           x == (128 * mode) + (len % 64)
           s == ReadFrom(reg, mode, len)
           p == Cat(h, s)
           t == ReadOf(reg, mode, len)
<1>1. h \in Seq(Octets) /\ Len(h) = 3 /\ h[1] = a % 256 /\ h[2] = a \div 256
  BY HeaderIs
<1>2. x \in Octets /\ reg \in Octets
  <2>1. reg \in 0 .. 127 /\ mode \in 0 .. 1 /\ len \in 0 .. 63 /\ reg \in 0 .. 255
    OBVIOUS
  <2>2. Fields(reg, mode, len)
    BY ONLY <2>1, FieldsOfWords
  <2> QED
    BY <2>1, <2>2, Zenon DEF Fields, Octets
<1>3. s \in Seq(Octets) /\ Len(s) = 2 /\ s[1] = reg /\ s[2] = x
  <2>1. s = <<reg, x>>
    BY DEF ReadFrom
  <2> HIDE DEF x, s
  <2> QED
    BY <1>2, <2>1
<1> HIDE DEF h, s, x
<1>4. /\ p \in Seq(Octets) /\ Len(p) = Len(h) + Len(s)
      /\ \A i \in 1 .. Len(h) + Len(s) : p[i] = IF i <= Len(h) THEN h[i] ELSE s[i - Len(h)]
  <2>1. h \in Seq(Octets) /\ s \in Seq(Octets)
    BY <1>1, <1>3, Zenon
  <2> QED
    BY ONLY <2>1, Concatenated
<1> HIDE DEF p
<1>5. Len(p) = 5 /\ p[1] = h[1] /\ p[2] = h[2] /\ p[4] = reg /\ p[4 + 1] = x
  BY ONLY <1>1, <1>3, <1>4
<1>6. TransactionAt(p, 4) = t /\ After(p, 4) = 4 + 2
  <2>1. p[4 + 1] = (128 * mode) + (len % 64) /\ 4 \in Nat
    BY <1>5, Zenon DEF x
  <2> QED
    BY <1>5, <2>1, ReadUnderstood, Zenon
<1>7. Len(p) >= 4 /\ Len(p) >= 5 /\ After(p, 4) \in Len(p) .. Len(p) + 65
  BY <1>5, <1>6
<1>8. Transactions(Closed(p)) = <<t>>
  BY <1>4, <1>6, <1>7, OneTransaction
<1>9. Addressee(Closed(p)) = a
  BY <1>1, <1>4, <1>5, <1>7, AddressedTo
<1>10. WritesIn(t) = <<>> /\ <<>> \in Seq(Values)
  <2>1. DOMAIN <<>> = {}
    OBVIOUS
  <2>2. t.data = <<>>
    BY DEF ReadOf
  <2>3. WritesIn(t) = [i \in {} |-> <<Register(t, i), t.data[i]>>]
    BY <2>1, <2>2, Zenon DEF WritesIn
  <2> HIDE DEF t
  <2> QED
    BY <2>3
<1>11. WritesOf(<<t>>) = <<>>
  BY <1>10, WritesOfOne
<1>12. p = Header(a) \o ReadFrom(reg, mode, len)
  BY DEF p, h, s, Cat
<1> QED
  BY <1>8, <1>9, <1>11, <1>12, Zenon

(* One word written.                                                       *)
LEMMA OneWordWritten ==
  ASSUME NEW reg \in Int, NEW v
  PROVE  [i \in DOMAIN <<v>> |-> <<reg + (1 * (i - 1)), <<v>>[i]>>] = << <<reg, v>> >>
<1>1. \A i \in 1 .. 1 : <<reg + (1 * (i - 1)), <<v>>[i]>> = <<reg, v>>
  OBVIOUS
<1>2. DOMAIN <<v>> = 1 .. 1
  OBVIOUS
<1> DEFINE f == [i \in DOMAIN <<v>> |-> <<reg + (1 * (i - 1)), <<v>>[i]>>]
<1>3. f = [i \in 1 .. 1 |-> <<reg, v>>]
  BY <1>1, <1>2, Zenon
<1> HIDE DEF f
<1>4. f = << <<reg, v>> >>
  BY <1>3
<1> QED
  BY <1>4 DEF f

-----------------------------------------------------------------------------
(* A packet with four writes of a word each.                               *)
LEMMA Joins ==
  ASSUME NEW S, NEW s \in Seq(S), NEW t \in Seq(S), NEW u \in Seq(S),
         Len(u) = Len(s) + Len(t),
         \A i \in 1 .. Len(s) : u[i] = s[i], \A i \in 1 .. Len(t) : u[Len(s) + i] = t[i]
  PROVE  Cat(s, t) = u
<1> DEFINE r == Cat(s, t)
           m == Len(s)
           n == Len(t)
<1>1. /\ r \in Seq(S) /\ Len(r) = m + n
      /\ \A i \in 1 .. m + n : r[i] = IF i <= m THEN s[i] ELSE t[i - m]
  BY Concatenated
<1>2. m \in Nat /\ n \in Nat /\ Len(u) = m + n
  OBVIOUS
<1>3. (\A i \in 1 .. m : u[i] = s[i]) /\ (\A i \in 1 .. n : u[m + i] = t[i])
  OBVIOUS
<1> HIDE DEF r, m, n
<1>4. ASSUME NEW i \in 1 .. m + n PROVE r[i] = u[i]
  <2>1. CASE i <= m
    <3>1. i \in 1 .. m
      BY <1>2, <2>1
    <3> QED
      BY ONLY <1>1, <1>3, <1>4, <2>1, <3>1, Zenon
  <2>2. CASE ~ (i <= m)
    <3>1. i - m \in 1 .. n /\ m + (i - m) = i
      BY <1>2, <2>2
    <3>2. r[i] = t[i - m] /\ u[m + (i - m)] = t[i - m]
      BY ONLY <1>1, <1>3, <1>4, <2>2, <3>1, Zenon
    <3> QED
      BY <3>1, <3>2, Zenon
  <2> QED
    BY <2>1, <2>2
<1>5. r = [i \in 1 .. m + n |-> r[i]] /\ u = [i \in 1 .. m + n |-> u[i]]
  BY <1>1, <1>2
<1>6. r = u
  BY <1>4, <1>5, Zenon
<1> QED
  BY <1>6 DEF r

LEMMA CatTwo == ASSUME NEW a, NEW b PROVE Cat(<<a>>, <<b>>) = <<a, b>>
<1> DEFINE s == <<a>>
           t == <<b>>
           u == <<a, b>>
           S == {a, b}
<1>1. s \in Seq(S) /\ t \in Seq(S) /\ u \in Seq(S) /\ Len(s) = 1 /\ Len(t) = 1 /\ Len(u) = 2
  OBVIOUS
<1>2. u[1] = s[1] /\ u[2] = t[1]
  OBVIOUS
<1> HIDE DEF s, t, u, S
<1>3. /\ \A i \in 1 .. Len(s) : u[i] = s[i]
      /\ \A i \in 1 .. Len(t) : u[Len(s) + i] = t[i]
      /\ Len(u) = Len(s) + Len(t)
  BY <1>1, <1>2
<1>4. Cat(s, t) = u
  BY <1>1, <1>3, Joins
<1> QED
  BY <1>4 DEF s, t, u

LEMMA CatThree ==
  ASSUME NEW a, NEW b, NEW c
  PROVE  Cat(<<a>>, <<b, c>>) = <<a, b, c>> /\ Cat(<<a, b>>, <<c>>) = <<a, b, c>>
<1> DEFINE s == <<a>>
           t == <<b, c>>
           v == <<a, b>>
           w == <<c>>
           u == <<a, b, c>>
           S == {a, b, c}
<1>1. /\ s \in Seq(S) /\ t \in Seq(S) /\ u \in Seq(S) /\ v \in Seq(S) /\ w \in Seq(S)
      /\ Len(s) = 1 /\ Len(t) = 2 /\ Len(v) = 2 /\ Len(w) = 1 /\ Len(u) = 3
  OBVIOUS
<1>2. /\ u[1] = s[1] /\ u[2] = t[1] /\ u[3] = t[2]
      /\ u[1] = v[1] /\ u[2] = v[2] /\ u[3] = w[1]
  OBVIOUS
<1> HIDE DEF s, t, u, v, w, S
<1>3. /\ \A i \in 1 .. Len(s) : u[i] = s[i]
      /\ \A i \in 1 .. Len(t) : u[Len(s) + i] = t[i]
      /\ Len(u) = Len(s) + Len(t)
  <2>1. /\ \A i \in 1 .. Len(s) : i = 1
        /\ \A i \in 1 .. Len(t) : i = 1 \/ i = 2
        /\ Len(s) + 1 = 2 /\ Len(s) + 2 = 3
        /\ Len(u) = Len(s) + Len(t)
    BY ONLY <1>1
  <2> QED
    BY ONLY <1>2, <2>1, Zenon
<1>4. /\ \A i \in 1 .. Len(v) : u[i] = v[i]
      /\ \A i \in 1 .. Len(w) : u[Len(v) + i] = w[i]
      /\ Len(u) = Len(v) + Len(w)
  <2>1. /\ \A i \in 1 .. Len(v) : i = 1 \/ i = 2
        /\ \A i \in 1 .. Len(w) : i = 1
        /\ Len(v) + 1 = 3
        /\ Len(u) = Len(v) + Len(w)
    BY ONLY <1>1
  <2> QED
    BY ONLY <1>2, <2>1, Zenon
<1>5. Cat(s, t) = u /\ Cat(v, w) = u
  BY <1>1, <1>3, <1>4, Joins
<1> QED
  BY <1>5 DEF s, t, u, v, w

LEMMA CatFour ==
  ASSUME NEW a, NEW b, NEW c, NEW d
  PROVE  Cat(<<a>>, <<b, c, d>>) = <<a, b, c, d>> /\ Cat(<<a, b, c>>, <<d>>) = <<a, b, c, d>>
<1> DEFINE s == <<a>>
           t == <<b, c, d>>
           v == <<a, b, c>>
           w == <<d>>
           u == <<a, b, c, d>>
           S == {a, b, c, d}
<1>1. /\ s \in Seq(S) /\ t \in Seq(S) /\ u \in Seq(S) /\ v \in Seq(S) /\ w \in Seq(S)
      /\ Len(s) = 1 /\ Len(t) = 3 /\ Len(v) = 3 /\ Len(w) = 1 /\ Len(u) = 4
  OBVIOUS
<1>2. /\ u[1] = s[1] /\ u[2] = t[1] /\ u[3] = t[2] /\ u[4] = t[3]
      /\ u[1] = v[1] /\ u[2] = v[2] /\ u[3] = v[3] /\ u[4] = w[1]
  OBVIOUS
<1> HIDE DEF s, t, u, v, w, S
<1>3. /\ \A i \in 1 .. Len(s) : u[i] = s[i]
      /\ \A i \in 1 .. Len(t) : u[Len(s) + i] = t[i]
      /\ Len(u) = Len(s) + Len(t)
  <2>1. /\ \A i \in 1 .. Len(s) : i = 1
        /\ \A i \in 1 .. Len(t) : i = 1 \/ i = 2 \/ i = 3
        /\ Len(s) + 1 = 2 /\ Len(s) + 2 = 3 /\ Len(s) + 3 = 4
        /\ Len(u) = Len(s) + Len(t)
    BY ONLY <1>1
  <2> QED
    BY ONLY <1>2, <2>1, Zenon
<1>4. /\ \A i \in 1 .. Len(v) : u[i] = v[i]
      /\ \A i \in 1 .. Len(w) : u[Len(v) + i] = w[i]
      /\ Len(u) = Len(v) + Len(w)
  <2>1. /\ \A i \in 1 .. Len(v) : i = 1 \/ i = 2 \/ i = 3
        /\ \A i \in 1 .. Len(w) : i = 1
        /\ Len(v) + 1 = 4
        /\ Len(u) = Len(v) + Len(w)
    BY ONLY <1>1
  <2> QED
    BY ONLY <1>2, <2>1, Zenon
<1>5. Cat(s, t) = u /\ Cat(v, w) = u
  BY <1>1, <1>3, <1>4, Joins
<1> QED
  BY <1>5 DEF s, t, u, v, w

LEMMA ChainOfFour ==
  ASSUME NEW a, NEW b, NEW c, NEW d
  PROVE  Chained(a, Chained(b, Chained(c, Chained(d, <<>>)))) = <<a, b, c, d>>
<1>1. Chained(d, <<>>) = <<d>>
  BY NothingFollows
<1>2. Chained(c, <<d>>) = <<c, d>>
  BY CatTwo, Zenon DEF Chained, Cat
<1>3. Chained(b, <<c, d>>) = <<b, c, d>>
  BY CatThree, Zenon DEF Chained, Cat
<1>4. Chained(a, <<b, c, d>>) = <<a, b, c, d>>
  BY CatFour, Zenon DEF Chained, Cat
<1> QED
  BY <1>1, <1>2, <1>3, <1>4, Zenon

LEMMA CatOfFour ==
  ASSUME NEW a, NEW b, NEW c, NEW d
  PROVE  Cat(Cat(Cat(Cat(<<>>, <<a>>), <<b>>), <<c>>), <<d>>) = <<a, b, c, d>>
<1>1. Cat(<<>>, <<a>>) = <<a>>
  BY DEF Cat
<1>2. Cat(<<a>>, <<b>>) = <<a, b>>
  BY CatTwo
<1>3. Cat(<<a, b>>, <<c>>) = <<a, b, c>>
  BY CatThree, Zenon
<1>4. Cat(<<a, b, c>>, <<d>>) = <<a, b, c, d>>
  BY CatFour, Zenon
<1> QED
  BY <1>1, <1>2, <1>3, <1>4, Zenon

LEMMA WritesOfFour ==
  ASSUME NEW a, NEW b, NEW c, NEW d, NEW u, NEW v, NEW w, NEW x,
         WritesIn(a) = <<u>>, WritesIn(b) = <<v>>, WritesIn(c) = <<w>>, WritesIn(d) = <<x>>
  PROVE  WritesOf(<<a, b, c, d>>) = <<u, v, w, x>>
<1> DEFINE ts == <<a, b, c, d>>
           f == WritesUpTo(ts)
<1>1. Len(ts) = 4 /\ ts[1] = a /\ ts[2] = b /\ ts[3] = c /\ ts[4] = d
  OBVIOUS
<1> HIDE DEF ts
<1>2. /\ Len(ts) \in Nat /\ 0 \in 0 .. Len(ts) /\ 1 \in 0 .. Len(ts) /\ 2 \in 0 .. Len(ts)
      /\ 3 \in 0 .. Len(ts) /\ 4 \in 0 .. Len(ts)
      /\ 1 - 1 = 0 /\ 2 - 1 = 1 /\ 3 - 1 = 2 /\ 4 - 1 = 3
  BY <1>1
<1>3. f[0] = <<>>
  BY <1>2, WritesInTurn
<1>4. f[1] = Cat(f[1 - 1], WritesIn(ts[1]))
  BY <1>2, WritesInTurn
<1>5. f[2] = Cat(f[2 - 1], WritesIn(ts[2]))
  BY <1>2, WritesInTurn
<1>6. f[3] = Cat(f[3 - 1], WritesIn(ts[3]))
  BY <1>2, WritesInTurn
<1>7. f[4] = Cat(f[4 - 1], WritesIn(ts[4]))
  BY <1>2, WritesInTurn
<1>8. WritesOf(ts) = f[4]
  BY <1>1, Zenon DEF WritesOf
<1> HIDE DEF f
<1>9. WritesOf(ts) = Cat(Cat(Cat(Cat(<<>>, <<u>>), <<v>>), <<w>>), <<x>>)
  BY <1>1, <1>2, <1>3, <1>4, <1>5, <1>6, <1>7, <1>8, Zenon
<1> QED
  BY <1>9, CatOfFour, Zenon DEF ts

(* The word v in register reg.                                             *)
OneWordAt(p, i, reg, v) == p[i] = 128 + reg /\ p[i + 1] = 128 + 1 /\ p[i + 2] = v

LEMMA WordUnderstood ==
  ASSUME NEW p \in Seq(Octets), NEW i \in Nat, i >= 1, i + 2 <= Len(p),
         NEW reg \in 0 .. 127, NEW v \in Octets, OneWordAt(p, i, reg, v)
  PROVE  TransactionAt(p, i) = WriteOf(reg, 1, <<v>>) /\ After(p, i) = i + 3
<1> DEFINE data == <<v>>
<1>1. data \in Seq(Octets) /\ Len(data) = 1 /\ data[1] = v
  OBVIOUS
<1> HIDE DEF data
<1>2. /\ p[i] = 128 + reg /\ p[i + 1] = (128 * 1) + (Len(data) % 64)
      /\ \A j \in 1 .. Len(data) : p[i + 1 + j] = data[j]
  <2>1. p[i] = 128 + reg /\ p[i + 1] = 128 + 1 /\ p[i + 2] = v
    BY DEF OneWordAt
  <2>2. (128 * 1) + (Len(data) % 64) = 128 + 1
    BY ONLY <1>1
  <2>3. \A j \in 1 .. Len(data) : j = 1 /\ i + 1 + j = i + 2
    BY <1>1
  <2> QED
    BY ONLY <1>1, <2>1, <2>2, <2>3, Zenon
<1>3. 1 \in 0 .. 1 /\ Len(data) \in 1 .. 63 /\ i + 1 + Len(data) <= Len(p)
  BY <1>1
<1>4. TransactionAt(p, i) = WriteOf(reg, 1, data) /\ After(p, i) = i + 2 + Len(data)
  BY <1>1, <1>2, <1>3, WriteUnderstood, Zenon
<1>5. i + 2 + Len(data) = i + 3
  BY <1>1
<1> QED
  BY <1>4, <1>5, Zenon DEF data

(* The words of a packet for a delay.                                      *)
DelayWords(p, a, u, v) ==
  /\ p \in Seq(Octets) /\ Len(p) = 15
  /\ p[1] = a % 256 /\ p[2] = a \div 256
  /\ OneWordAt(p, 4, 114, u) /\ OneWordAt(p, 7, 115, v)
  /\ OneWordAt(p, 10, 112, 3) /\ OneWordAt(p, 13, 112, 4)

LEMMA FourUnderstood ==
  ASSUME NEW p, NEW addr, NEW u \in Octets, NEW v \in Octets, DelayWords(p, addr, u, v)
  PROVE  Transactions(Closed(p)) =
           << WriteOf(114, 1, <<u>>), WriteOf(115, 1, <<v>>), WriteOf(112, 1, <<3>>), WriteOf(112, 1, <<4>>) >>
<1> DEFINE f == Parsed(p)
           n == Len(p)
           s == WriteOf(114, 1, <<u>>)
           t == WriteOf(115, 1, <<v>>)
           r == WriteOf(112, 1, <<3>>)
           q == WriteOf(112, 1, <<4>>)
<1> HIDE DEF s, t, r, q
<1>0. /\ p \in Seq(Octets) /\ Len(p) = 15
      /\ OneWordAt(p, 4, 114, u) /\ OneWordAt(p, 7, 115, v)
      /\ OneWordAt(p, 10, 112, 3) /\ OneWordAt(p, 13, 112, 4)
      /\ 114 \in 0 .. 127 /\ 115 \in 0 .. 127 /\ 112 \in 0 .. 127
      /\ 3 \in Octets /\ 4 \in Octets
  BY DEF DelayWords, Octets
<1>1. n = 15 /\ n >= 4 /\ n >= 1
  BY <1>0
<1>2. TransactionAt(p, 4) = s /\ After(p, 4) = 7
  <2>1. 4 \in Nat /\ 4 >= 1 /\ 4 + 2 <= Len(p) /\ 4 + 3 = 7
    BY <1>0
  <2>2. p \in Seq(Octets) /\ OneWordAt(p, 4, 114, u) /\ 114 \in 0 .. 127 /\ u \in Octets
    BY <1>0, Zenon
  <2>3. TransactionAt(p, 4) = s /\ After(p, 4) = 4 + 3
    BY ONLY <2>1, <2>2, WordUnderstood DEF s
  <2> QED
    BY ONLY <2>1, <2>3, Zenon
<1>3. TransactionAt(p, 7) = t /\ After(p, 7) = 10
  <2>1. 7 \in Nat /\ 7 >= 1 /\ 7 + 2 <= Len(p) /\ 7 + 3 = 10
    BY <1>0
  <2>2. p \in Seq(Octets) /\ OneWordAt(p, 7, 115, v) /\ 115 \in 0 .. 127 /\ v \in Octets
    BY <1>0, Zenon
  <2>3. TransactionAt(p, 7) = t /\ After(p, 7) = 7 + 3
    BY ONLY <2>1, <2>2, WordUnderstood DEF t
  <2> QED
    BY ONLY <2>1, <2>3, Zenon
<1>4. TransactionAt(p, 10) = r /\ After(p, 10) = 13
  <2>1. 10 \in Nat /\ 10 >= 1 /\ 10 + 2 <= Len(p) /\ 10 + 3 = 13
    BY <1>0
  <2>2. p \in Seq(Octets) /\ OneWordAt(p, 10, 112, 3) /\ 112 \in 0 .. 127 /\ 3 \in Octets
    BY <1>0, Zenon
  <2>3. TransactionAt(p, 10) = r /\ After(p, 10) = 10 + 3
    BY ONLY <2>1, <2>2, WordUnderstood DEF r
  <2> QED
    BY ONLY <2>1, <2>3, Zenon
<1>5. TransactionAt(p, 13) = q /\ After(p, 13) = 16
  <2>1. 13 \in Nat /\ 13 >= 1 /\ 13 + 2 <= Len(p) /\ 13 + 3 = 16
    BY <1>0
  <2>2. p \in Seq(Octets) /\ OneWordAt(p, 13, 112, 4) /\ 112 \in 0 .. 127 /\ 4 \in Octets
    BY <1>0, Zenon
  <2>3. TransactionAt(p, 13) = q /\ After(p, 13) = 13 + 3
    BY ONLY <2>1, <2>2, WordUnderstood DEF q
  <2> QED
    BY ONLY <2>1, <2>3, Zenon
<1>6. \A i \in 4 .. n + 65 : f[i] = IF i >= n THEN <<>> ELSE Chained(TransactionAt(p, i), f[After(p, i)])
  BY <1>0, <1>1, ParsedOnwards
<1> HIDE DEF n, f
<1>7. /\ f[4] = Chained(TransactionAt(p, 4), f[After(p, 4)])
      /\ f[7] = Chained(TransactionAt(p, 7), f[After(p, 7)])
      /\ f[10] = Chained(TransactionAt(p, 10), f[After(p, 10)])
      /\ f[13] = Chained(TransactionAt(p, 13), f[After(p, 13)])
      /\ f[16] = <<>>
  <2>1. /\ 4 \in 4 .. n + 65 /\ 7 \in 4 .. n + 65 /\ 10 \in 4 .. n + 65
        /\ 13 \in 4 .. n + 65 /\ 16 \in 4 .. n + 65
        /\ ~ (4 >= n) /\ ~ (7 >= n) /\ ~ (10 >= n) /\ ~ (13 >= n) /\ 16 >= n
    BY ONLY <1>1
  <2> QED
    BY ONLY <1>6, <2>1, Zenon
<1>8. f[4] = <<s, t, r, q>>
  <2>1. f[4] = Chained(s, Chained(t, Chained(r, Chained(q, <<>>))))
    BY ONLY <1>2, <1>3, <1>4, <1>5, <1>7, Zenon
  <2> QED
    BY ONLY <2>1, ChainOfFour, Zenon
<1>9. Transactions(Closed(p)) = f[4]
  BY <1>0, <1>1, MarkEnds DEF f, n
<1> QED
  BY <1>8, <1>9 DEF s, t, r, q

(* One word more is written behind s, which stays as it is.                *)
Grows(p, s, n, reg, v) ==
  /\ p \in Seq(Octets) /\ Len(p) = n + 3
  /\ \A i \in 1 .. n : p[i] = s[i]
  /\ OneWordAt(p, n + 1, reg, v)

LEMMA WordPut ==
  ASSUME NEW s \in Seq(Octets), NEW reg \in 0 .. 127, NEW v \in Octets
  PROVE  Grows(Cat(s, WriteTo(reg, 1, <<v>>)), s, Len(s), reg, v)
<1> DEFINE data == <<v>>
           p == Cat(s, WriteTo(reg, 1, data))
           n == Len(s)
<1>1. data \in Seq(Octets) /\ Len(data) = 1 /\ data[1] = v
  OBVIOUS
<1>2. n \in Nat
  OBVIOUS
<1> HIDE DEF data
<1>3. 1 \in 0 .. 1 /\ Len(data) \in 1 .. 63 /\ 1 \in 1 .. Len(data)
  BY <1>1
<1>4. PutBehind(p, s, n, reg, 1, data)
  <2>1. s \in Seq(Octets) /\ reg \in 0 .. 127
    OBVIOUS
  <2> QED
    BY ONLY <1>1, <1>3, <2>1, WritePut
<1> HIDE DEF p, n
<1>5. /\ p \in Seq(Octets) /\ Len(p) = n + 2 + Len(data)
      /\ \A i \in 1 .. n : p[i] = s[i]
      /\ p[n + 1] = 128 + reg /\ p[n + 2] = (128 * 1) + (Len(data) % 64)
      /\ p[n + 2 + 1] = data[1]
  BY ONLY <1>3, <1>4, Zenon DEF PutBehind
<1>6. /\ n + 1 + 1 = n + 2 /\ n + 1 + 2 = n + 2 + 1 /\ n + 2 + Len(data) = n + 3
      /\ (128 * 1) + (Len(data) % 64) = 128 + 1
  BY ONLY <1>1, <1>2
<1> QED
  BY ONLY <1>1, <1>5, <1>6, Zenon DEF Grows, OneWordAt, p, n, data

LEMMA DelayInWords ==
  ASSUME NEW a \in Addresses, NEW u \in Octets, NEW v \in Octets
  PROVE  DelayWords(Header(a) \o WriteTo(114, 1, <<u>>) \o WriteTo(115, 1, <<v>>)
                      \o WriteTo(112, 1, <<3>>) \o WriteTo(112, 1, <<4>>), a, u, v)
<1> DEFINE h == Header(a)
           p == Cat(h, WriteTo(114, 1, <<u>>))
           q == Cat(p, WriteTo(115, 1, <<v>>))
           r == Cat(q, WriteTo(112, 1, <<3>>))
           s == Cat(r, WriteTo(112, 1, <<4>>))
<1>1. h \in Seq(Octets) /\ Len(h) = 3 /\ h[1] = a % 256 /\ h[2] = a \div 256
  BY HeaderIs
<1>2. 114 \in 0 .. 127 /\ 115 \in 0 .. 127 /\ 112 \in 0 .. 127 /\ 3 \in Octets /\ 4 \in Octets
  BY DEF Octets
<1> HIDE DEF h
<1>3. Grows(p, h, Len(h), 114, u)
  BY <1>1, <1>2, WordPut
<1> HIDE DEF p
<1>4. p \in Seq(Octets) /\ Len(p) = 6
  BY ONLY <1>1, <1>3 DEF Grows
<1>5. Grows(q, p, Len(p), 115, v)
  BY <1>2, <1>4, WordPut
<1> HIDE DEF q
<1>6. q \in Seq(Octets) /\ Len(q) = 9
  BY ONLY <1>4, <1>5 DEF Grows
<1>7. Grows(r, q, Len(q), 112, 3)
  BY <1>2, <1>6, WordPut
<1> HIDE DEF r
<1>8. r \in Seq(Octets) /\ Len(r) = 12
  BY ONLY <1>6, <1>7 DEF Grows
<1>9. Grows(s, r, Len(r), 112, 4)
  BY <1>2, <1>8, WordPut
<1> HIDE DEF s
<1>10. s \in Seq(Octets) /\ Len(s) = 15
  BY ONLY <1>8, <1>9 DEF Grows
<1>11. /\ \A i \in 1 .. 3 : p[i] = h[i]
       /\ \A i \in 1 .. 6 : q[i] = p[i]
       /\ \A i \in 1 .. 9 : r[i] = q[i]
       /\ \A i \in 1 .. 12 : s[i] = r[i]
  BY ONLY <1>1, <1>3, <1>4, <1>5, <1>6, <1>7, <1>8, <1>9, Zenon DEF Grows
<1>12. /\ \A i \in 1 .. 3 : i \in 1 .. 6
       /\ \A i \in 1 .. 6 : i \in 1 .. 9
       /\ \A i \in 1 .. 9 : i \in 1 .. 12
  OBVIOUS
<1>13. /\ \A i \in 1 .. 3 : s[i] = h[i]
       /\ \A i \in 1 .. 6 : s[i] = p[i]
       /\ \A i \in 1 .. 9 : s[i] = q[i]
  BY ONLY <1>11, <1>12, Zenon
<1>14. s[1] = a % 256 /\ s[2] = a \div 256
  <2>1. 1 \in 1 .. 3 /\ 2 \in 1 .. 3
    OBVIOUS
  <2> QED
    BY ONLY <1>1, <1>13, <2>1, Zenon
<1>15. OneWordAt(s, 4, 114, u)
  <2>1. 3 + 1 = 4 /\ 4 + 1 = 5 /\ 4 + 2 = 6 /\ 4 \in 1 .. 6 /\ 5 \in 1 .. 6 /\ 6 \in 1 .. 6
    OBVIOUS
  <2>2. OneWordAt(p, 4, 114, u)
    BY ONLY <1>1, <1>3, <2>1, Zenon DEF Grows
  <2>3. s[4] = p[4] /\ s[5] = p[5] /\ s[6] = p[6]
    BY ONLY <1>13, <2>1, Zenon
  <2> QED
    BY ONLY <2>1, <2>2, <2>3, Zenon DEF OneWordAt
<1>16. OneWordAt(s, 7, 115, v)
  <2>1. 6 + 1 = 7 /\ 7 + 1 = 8 /\ 7 + 2 = 9 /\ 7 \in 1 .. 9 /\ 8 \in 1 .. 9 /\ 9 \in 1 .. 9
    OBVIOUS
  <2>2. OneWordAt(q, 7, 115, v)
    BY ONLY <1>4, <1>5, <2>1, Zenon DEF Grows
  <2>3. s[7] = q[7] /\ s[8] = q[8] /\ s[9] = q[9]
    BY ONLY <1>13, <2>1, Zenon
  <2> QED
    BY ONLY <2>1, <2>2, <2>3, Zenon DEF OneWordAt
<1>17. OneWordAt(s, 10, 112, 3)
  <2>1. /\ 9 + 1 = 10 /\ 10 + 1 = 11 /\ 10 + 2 = 12
        /\ 10 \in 1 .. 12 /\ 11 \in 1 .. 12 /\ 12 \in 1 .. 12
    OBVIOUS
  <2>2. OneWordAt(r, 10, 112, 3)
    BY ONLY <1>6, <1>7, <2>1, Zenon DEF Grows
  <2>3. s[10] = r[10] /\ s[11] = r[11] /\ s[12] = r[12]
    BY ONLY <1>11, <2>1, Zenon
  <2> QED
    BY ONLY <2>1, <2>2, <2>3, Zenon DEF OneWordAt
<1>18. OneWordAt(s, 13, 112, 4)
  <2>1. 12 + 1 = 13
    OBVIOUS
  <2> QED
    BY ONLY <1>8, <1>9, <2>1, Zenon DEF Grows
<1>19. s = Header(a) \o WriteTo(114, 1, <<u>>) \o WriteTo(115, 1, <<v>>)
             \o WriteTo(112, 1, <<3>>) \o WriteTo(112, 1, <<4>>)
  BY Zenon DEF s, r, q, p, h, Cat
<1> QED
  BY <1>10, <1>14, <1>15, <1>16, <1>17, <1>18, <1>19, Zenon DEF DelayWords

-----------------------------------------------------------------------------
(* What must be true of the packet of a call: who takes it for himself,    *)
(* that there is something in it, what the words are, and what they say.   *)
SaysAsked(r, ts) ==
  LET ws == WritesOf(ts)
  IN  /\ r.op = "apply_endpoint_delay" =>
           /\ Len(ws) = 4 /\ ws[1][1] = 114 /\ ws[2][1] = 115
           /\ r.coarse = ws[1][2] % 16
           /\ r.fine = (ws[1][2] \div 16) + (16 * ws[2][2])
           /\ ws[3] = <<112, 3>> /\ ws[4] = <<112, 4>>
      /\ r.op = "read_endpoint_data" =>
           /\ Len(ts) = 1 /\ ~ts[1].write
           /\ ts[1].reg = r.reg /\ ts[1].len = r.len /\ ts[1].mode = r.mode
      /\ r.op \notin {"apply_endpoint_delay", "read_endpoint_data"} => ws = AskedWrites(r)

Honest(r) ==
  LET ts == Transactions(Packet(r))
  IN  /\ Addressee(Packet(r)) = r.addr
      /\ ts # <<>>
      /\ WritesOf(ts) \in Seq(Values)
      /\ SaysAsked(r, ts)

LEMMA NotEmpty == ASSUME NEW t PROVE <<t>> # <<>> /\ Len(<<t>>) = 1 /\ <<t>>[1] = t
OBVIOUS

LEMMA HonestWrite ==
  ASSUME NEW r, NEW reg, NEW mode, NEW data,
         r.op \notin {"apply_endpoint_delay", "read_endpoint_data"},
         OneWritePacket(Packet(r), r.addr, reg, mode, data),
         AskedWrites(r) = [i \in DOMAIN data |-> <<reg + (mode * (i - 1)), data[i]>>]
  PROVE  Honest(r)
<1> DEFINE p == Packet(r)
           ts == Transactions(p)
           ws == WritesOf(ts)
<1>1. Addressee(p) = r.addr /\ ts # <<>> /\ ws = AskedWrites(r) /\ ws \in Seq(Values)
  BY NotEmpty, Zenon DEF OneWritePacket
<1> HIDE DEF ts
<1>2. SaysAsked(r, ts)
  BY <1>1, Zenon DEF SaysAsked
<1> QED
  BY <1>1, <1>2, Zenon DEF Honest, ts

LEMMA SwitchHonest ==
  ASSUME NEW r, AsyncRequest(r), r.op = "switch_endpoint_sfp" PROVE Honest(r)
<1> DEFINE v == IF r.on THEN 1 ELSE 0
           data == <<v>>
<1>1. r.addr \in Addresses
  BY Zenon DEF AsyncRequest
<1>2. Packet(r) = Closed(Header(r.addr) \o WriteTo(112, 1, data))
  BY Zenon DEF Packet, SwitchPacket
<1>3. AskedWrites(r) = << <<112, v>> >>
  BY Zenon DEF AskedWrites
<1>4. v \in Octets
  BY DEF Octets
<1> HIDE DEF v
<1>5. data \in Seq(Octets) /\ Len(data) = 1
  BY <1>4
<1>6. [i \in DOMAIN data |-> <<112 + (1 * (i - 1)), data[i]>>] = << <<112, v>> >>
  BY OneWordWritten
<1> HIDE DEF data
<1>7. 112 \in 0 .. 127 /\ 1 \in 0 .. 1 /\ Len(data) \in 1 .. 63
  BY <1>5
<1>8. OneWritePacket(Packet(r), r.addr, 112, 1, data)
  BY <1>1, <1>2, <1>5, <1>7, SingleWrite
<1>9. r.op \notin {"apply_endpoint_delay", "read_endpoint_data"}
  BY Zenon
<1>10. AskedWrites(r) = [i \in DOMAIN data |-> <<112 + (1 * (i - 1)), data[i]>>]
  BY <1>3, <1>6, Zenon
<1> QED
  BY <1>8, <1>9, <1>10, HonestWrite

LEMMA DecoderHonest ==
  ASSUME NEW r, AsyncRequest(r), r.op = "configure_endpoint_command_decoder" PROVE Honest(r)
<1> DEFINE v == r.command
           data == <<v>>
           reg == 96 + r.slot
<1>1. r.addr \in Addresses
  BY Zenon DEF AsyncRequest
<1>2. v \in Octets /\ r.slot \in 0 .. 31
  BY Zenon DEF AsyncRequest
<1>3. reg \in 0 .. 127 /\ reg \in Int
  BY <1>2
<1>4. Packet(r) = Closed(Header(r.addr) \o WriteTo(reg, 1, data))
  BY Zenon DEF Packet, DecoderPacket
<1>5. AskedWrites(r) = << <<reg, v>> >>
  BY Zenon DEF AskedWrites
<1> HIDE DEF v, reg
<1>6. data \in Seq(Octets) /\ Len(data) = 1
  BY <1>2
<1>7. [i \in DOMAIN data |-> <<reg + (1 * (i - 1)), data[i]>>] = << <<reg, v>> >>
  BY <1>3, OneWordWritten
<1> HIDE DEF data
<1>8. 1 \in 0 .. 1 /\ Len(data) \in 1 .. 63
  BY <1>6
<1>9. OneWritePacket(Packet(r), r.addr, reg, 1, data)
  BY <1>1, <1>3, <1>4, <1>6, <1>8, SingleWrite
<1>10. r.op \notin {"apply_endpoint_delay", "read_endpoint_data"}
  BY Zenon
<1>11. AskedWrites(r) = [i \in DOMAIN data |-> <<reg + (1 * (i - 1)), data[i]>>]
  BY <1>5, <1>7, Zenon
<1> QED
  BY ONLY <1>9, <1>10, <1>11, HonestWrite

LEMMA WriteHonest ==
  ASSUME NEW r, AsyncRequest(r), r.op = "write_endpoint_data" PROVE Honest(r)
<1>1. r.addr \in Addresses
  BY Zenon DEF AsyncRequest
<1>2. r.reg \in 0 .. 127 /\ r.mode \in 0 .. 1 /\ r.data \in Seq(Octets) /\ Len(r.data) \in 1 .. 63
  BY Zenon DEF AsyncRequest
<1>3. Packet(r) = Closed(Header(r.addr) \o WriteTo(r.reg, r.mode, r.data))
  BY Zenon DEF Packet, WritePacket
<1>4. AskedWrites(r) = [i \in DOMAIN r.data |-> <<r.reg + (r.mode * (i - 1)), r.data[i]>>]
  BY Zenon DEF AskedWrites
<1>5. OneWritePacket(Packet(r), r.addr, r.reg, r.mode, r.data)
  BY <1>1, <1>2, <1>3, SingleWrite
<1>6. r.op \notin {"apply_endpoint_delay", "read_endpoint_data"}
  BY Zenon
<1> QED
  BY ONLY <1>4, <1>5, <1>6, HonestWrite

LEMMA ReadHonest ==
  ASSUME NEW r, AsyncRequest(r), r.op = "read_endpoint_data" PROVE Honest(r)
<1> DEFINE t == ReadOf(r.reg, r.mode, r.len)
           p == Packet(r)
           ts == Transactions(p)
<1>1. r.addr \in Addresses
  BY Zenon DEF AsyncRequest
<1>2. r.reg \in 0 .. 127 /\ r.mode \in 0 .. 1 /\ r.len \in 1 .. 63
  BY Zenon DEF AsyncRequest
<1>3. p = Closed(Header(r.addr) \o ReadFrom(r.reg, r.mode, r.len))
  BY Zenon DEF Packet, ReadPacket
<1>4. Addressee(p) = r.addr /\ ts = <<t>> /\ WritesOf(ts) = <<>>
  <2> DEFINE q == Closed(Header(r.addr) \o ReadFrom(r.reg, r.mode, r.len))
  <2>1. Addressee(q) = r.addr /\ Transactions(q) = <<t>> /\ WritesOf(Transactions(q)) = <<>>
    BY <1>1, <1>2, SingleRead
  <2> HIDE DEF q, t
  <2> QED
    BY <1>3, <2>1, Zenon DEF q
<1>5. t.write = FALSE /\ t.reg = r.reg /\ t.mode = r.mode /\ t.len = r.len
  BY DEF ReadOf
<1> HIDE DEF p, ts, t
<1>6. ts # <<>> /\ Len(ts) = 1 /\ ts[1] = t
  BY <1>4, NotEmpty
<1>7. WritesOf(ts) \in Seq(Values)
  BY <1>4
<1>8. SaysAsked(r, ts)
  BY <1>5, <1>6, Zenon DEF SaysAsked
<1> QED
  BY <1>4, <1>6, <1>7, <1>8, Zenon DEF Honest, p, ts

(* The two parts of a delay.                                               *)
LEMMA DelayParts ==
  ASSUME NEW coarse \in 0 .. 15, NEW fine \in FineDelays,
         NEW u, u = (16 * (fine % 16)) + (coarse % 16),
         NEW v, v = (fine \div 16) % 256
  PROVE  /\ u \in Octets /\ v \in Octets
         /\ coarse = u % 16 /\ fine = (u \div 16) + (16 * v)
<1>1. fine \in Int /\ 0 <= fine /\ fine < 4096 /\ coarse % 16 = coarse
  BY DEF FineDelays
<1>2. PICK l \in 0 .. 15 : l = fine % 16
  <2>1. fine % 16 \in 0 .. 15
    BY <1>1
  <2> QED
    BY <2>1
<1>3. PICK h \in 0 .. 255 : h = fine \div 16 /\ fine = (16 * h) + l
  <2>1. fine \div 16 \in 0 .. 255
    BY <1>1
  <2>2. fine = (16 * (fine \div 16)) + (fine % 16)
    BY <1>1
  <2> QED
    BY ONLY <1>2, <2>1, <2>2
<1>4. u = (16 * l) + coarse /\ v = h
  <2>1. h % 256 = h
    OBVIOUS
  <2> QED
    <3>1. u = (16 * (fine % 16)) + (coarse % 16) /\ v = (fine \div 16) % 256
      OBVIOUS
    <3>2. u = (16 * l) + coarse
      BY ONLY <1>1, <1>2, <3>1
    <3>3. v = h
      BY ONLY <1>3, <2>1, <3>1
    <3> QED
      BY <3>2, <3>3
<1>5. (16 * l) + coarse \in 0 .. 255 /\ ((16 * l) + coarse) % 16 = coarse /\ ((16 * l) + coarse) \div 16 = l
  OBVIOUS
<1>6. (u \div 16) + (16 * v) = l + (16 * h) /\ l + (16 * h) = (16 * h) + l
  BY <1>4, <1>5
<1> QED
  <2>1. u \in 0 .. 255 /\ v \in 0 .. 255
    BY ONLY <1>3, <1>4, <1>5
  <2> QED
    BY ONLY <1>3, <1>4, <1>5, <1>6, <2>1 DEF Octets

LEMMA WordIn ==
  ASSUME NEW reg \in 0 .. 127, NEW v \in Octets
  PROVE  WritesIn(WriteOf(reg, 1, <<v>>)) = << <<reg, v>> >>
<1> DEFINE data == <<v>>
<1>1. data \in Seq(Octets) /\ 1 \in 0 .. 1 /\ reg \in Int
  OBVIOUS
<1>2. [i \in DOMAIN data |-> <<reg + (1 * (i - 1)), data[i]>>] = << <<reg, v>> >>
  BY <1>1, OneWordWritten
<1> HIDE DEF data
<1>3. WritesIn(WriteOf(reg, 1, data)) = [i \in DOMAIN data |-> <<reg + (1 * (i - 1)), data[i]>>]
  BY <1>1, WritesInWrite, Zenon
<1> QED
  BY <1>2, <1>3, Zenon DEF data

LEMMA DelayHonest ==
  ASSUME NEW r, AsyncRequest(r), r.op = "apply_endpoint_delay" PROVE Honest(r)
<1> DEFINE u == (16 * (r.fine % 16)) + (r.coarse % 16)
           v == (r.fine \div 16) % 256
           w == Header(r.addr) \o WriteTo(114, 1, <<u>>) \o WriteTo(115, 1, <<v>>)
                  \o WriteTo(112, 1, <<3>>) \o WriteTo(112, 1, <<4>>)
           p == Packet(r)
           ts == Transactions(p)
           ws == WritesOf(ts)
<1>1. r.addr \in Addresses /\ r.coarse \in 0 .. 15 /\ r.fine \in FineDelays
  BY Zenon DEF AsyncRequest
<1>2. p = Closed(w)
  BY Zenon DEF Packet, DelayPacket
<1> HIDE DEF p
<1>3. /\ u \in Octets /\ v \in Octets
      /\ r.coarse = u % 16 /\ r.fine = (u \div 16) + (16 * v)
  <2> HIDE DEF w
  <2> QED
    BY <1>1, DelayParts
<1> HIDE DEF u, v
<1>4. DelayWords(w, r.addr, u, v)
  BY <1>1, <1>3, DelayInWords
<1> HIDE DEF w
<1>5. /\ w \in Seq(Octets) /\ Len(w) = 15 /\ w[1] = r.addr % 256 /\ w[2] = r.addr \div 256
      /\ OneWordAt(w, 4, 114, u) /\ OneWordAt(w, 7, 115, v)
      /\ OneWordAt(w, 10, 112, 3) /\ OneWordAt(w, 13, 112, 4)
  BY <1>4, Zenon DEF DelayWords
<1>6. 114 \in 0 .. 127 /\ 115 \in 0 .. 127 /\ 112 \in 0 .. 127 /\ 3 \in Octets /\ 4 \in Octets /\ 15 >= 4
  BY DEF Octets
<1>7. Addressee(p) = r.addr
  <2>1. Len(w) >= 4
    BY <1>5, <1>6, Zenon
  <2>2. Addressee(Closed(w)) = r.addr
    BY ONLY <1>1, <1>5, <2>1, AddressedTo, Zenon
  <2> QED
    BY <1>2, <2>2, Zenon
<1>8. ts = << WriteOf(114, 1, <<u>>), WriteOf(115, 1, <<v>>), WriteOf(112, 1, <<3>>), WriteOf(112, 1, <<4>>) >>
  <2>1. Transactions(Closed(w)) =
          << WriteOf(114, 1, <<u>>), WriteOf(115, 1, <<v>>), WriteOf(112, 1, <<3>>), WriteOf(112, 1, <<4>>) >>
    BY ONLY <1>3, <1>4, FourUnderstood
  <2> QED
    BY <1>2, <2>1, Zenon
<1>9. ws = << <<114, u>>, <<115, v>>, <<112, 3>>, <<112, 4>> >>
  <2> HIDE DEF ts
  <2>1. /\ WritesIn(WriteOf(114, 1, <<u>>)) = << <<114, u>> >>
        /\ WritesIn(WriteOf(115, 1, <<v>>)) = << <<115, v>> >>
        /\ WritesIn(WriteOf(112, 1, <<3>>)) = << <<112, 3>> >>
        /\ WritesIn(WriteOf(112, 1, <<4>>)) = << <<112, 4>> >>
    BY <1>3, <1>6, WordIn, Zenon
  <2> QED
    <3> DEFINE a == WriteOf(114, 1, <<u>>)
               b == WriteOf(115, 1, <<v>>)
               c == WriteOf(112, 1, <<3>>)
               d == WriteOf(112, 1, <<4>>)
    <3>1. /\ WritesIn(a) = << <<114, u>> >> /\ WritesIn(b) = << <<115, v>> >>
          /\ WritesIn(c) = << <<112, 3>> >> /\ WritesIn(d) = << <<112, 4>> >>
      BY <2>1
    <3>2. ts = <<a, b, c, d>>
      BY <1>8
    <3> HIDE DEF a, b, c, d
    <3>3. WritesOf(<<a, b, c, d>>) = << <<114, u>>, <<115, v>>, <<112, 3>>, <<112, 4>> >>
      BY ONLY <3>1, WritesOfFour
    <3> QED
      BY <3>2, <3>3, Zenon
<1>10. ts # <<>>
  <2> DEFINE a == WriteOf(114, 1, <<u>>)
             b == WriteOf(115, 1, <<v>>)
             c == WriteOf(112, 1, <<3>>)
             d == WriteOf(112, 1, <<4>>)
  <2> HIDE DEF ts, a, b, c, d
  <2>1. ts = <<a, b, c, d>>
    BY <1>8 DEF a, b, c, d
  <2> QED
    BY <2>1
<1> HIDE DEF ts, ws
<1>11. /\ Len(ws) = 4 /\ DOMAIN ws = 1 .. 4
       /\ ws[1][1] = 114 /\ ws[2][1] = 115 /\ ws[1][2] = u /\ ws[2][2] = v
       /\ ws[3] = <<112, 3>> /\ ws[4] = <<112, 4>> /\ ws[3][2] = 3 /\ ws[4][2] = 4
  BY ONLY <1>9
<1>12. ws \in Seq(Values)
  <2>1. <<114, u>> \in Values /\ <<115, v>> \in Values /\ <<112, 3>> \in Values /\ <<112, 4>> \in Values
    BY <1>3, <1>6 DEF Values
  <2> QED
    BY ONLY <1>9, <2>1
<1>13. SaysAsked(r, ts)
  BY <1>3, <1>11, Zenon DEF SaysAsked, ws
<1> QED
  BY <1>7, <1>10, <1>12, <1>13, Zenon DEF Honest, ts, ws, p

LEMMA AllHonest == ASSUME NEW r, AsyncRequest(r) PROVE Honest(r)
<1>1. \/ r.op = "switch_endpoint_sfp" \/ r.op = "apply_endpoint_delay"
      \/ r.op = "write_endpoint_data" \/ r.op = "read_endpoint_data"
      \/ r.op = "configure_endpoint_command_decoder"
  BY Zenon DEF AsyncRequest
<1> QED
  BY <1>1, SwitchHonest, DelayHonest, WriteHonest, ReadHonest, DecoderHonest, Zenon

-----------------------------------------------------------------------------
(* The words of a reply to a read of len registers.                        *)
Carries(ws, answer, len) ==
  /\ answer = [i \in 1 .. len |-> answer[i]]
  /\ \A i \in 1 .. len : answer[i] \in Octets
  /\ Len(ws) = len + 3
  /\ \A i \in 1 .. len : ws[3 + i] = IF i = len THEN answer[i] + 256 ELSE answer[i]

LEMMA RepliesCarry ==
  ASSUME NEW len \in 1 .. 63, NEW answer, answer = [i \in 1 .. len |-> answer[i]],
         \A i \in 1 .. len : answer[i] \in Octets, NEW x
  PROVE  Carries(Cat(<<255, 255, x>>, Closed(answer)), answer, len)
<1> DEFINE h == <<255, 255, x>>
           s == Closed(answer)
           S == {255, x} \cup {s[i] : i \in 1 .. len}
           ws == Cat(h, s)
<1>1. len \in Nat /\ len >= 1 /\ len \in 1 .. len
  <2> HIDE DEF h, s, S, ws
  <2>1. len \in 1 .. 63
    OBVIOUS
  <2>2. len \in Nat /\ len >= 1
    BY ONLY <2>1
  <2> QED
    BY ONLY <2>2
<1>2. Len(answer) = len
  <2>1. answer \in Seq(Octets) /\ DOMAIN answer = 1 .. len
    BY <1>1
  <2> QED
    BY <1>1, <2>1
<1>3. s = [i \in 1 .. len |-> IF i = len THEN answer[i] + 256 ELSE answer[i]]
  BY <1>1, <1>2 DEF Closed
<1> HIDE DEF s
<1>4. s \in Seq(S) /\ Len(s) = len
  <2>1. s \in [1 .. len -> S]
    BY <1>3
  <2> QED
    BY <1>1, <2>1
<1>5. h \in Seq(S) /\ Len(h) = 3
  BY Triple
<1> HIDE DEF h, S
<1>6. /\ Len(ws) = Len(h) + Len(s)
      /\ \A i \in 1 .. Len(h) + Len(s) : ws[i] = IF i <= Len(h) THEN h[i] ELSE s[i - Len(h)]
  BY <1>4, <1>5, Concatenated
<1> HIDE DEF ws
<1>7. Len(ws) = len + 3
  BY <1>1, <1>4, <1>5, <1>6
<1>8. \A i \in 1 .. len : ws[3 + i] = s[i]
  <2> SUFFICES ASSUME NEW i \in 1 .. len PROVE ws[3 + i] = s[i]
    OBVIOUS
  <2>1. 3 + i \in 1 .. Len(h) + Len(s) /\ ~ (3 + i <= Len(h)) /\ (3 + i) - Len(h) = i
    BY <1>1, <1>4, <1>5
  <2> QED
    BY <1>6, <2>1, Zenon
<1>9. \A i \in 1 .. len : ws[3 + i] = IF i = len THEN answer[i] + 256 ELSE answer[i]
  BY <1>3, <1>8, Zenon
<1> QED
  BY <1>7, <1>9, Zenon DEF Carries, ws, h, s

(* What read_endpoint_data makes of them.                                  *)
WordAt(ws, i, m) ==
  CASE i > BufferWords -> m
    [] i <= BufferWords /\ i <= Len(ws) -> ws[i]
    [] OTHER -> 0

Taken(ws, len, m) ==
  [i \in 1 .. len |-> IF i = len THEN WordAt(ws, 3 + i, m) % 256 ELSE WordAt(ws, 3 + i, m)]

LEMMA TakenAsCarried ==
  ASSUME NEW len \in 1 .. BufferWords - 3, NEW ws, NEW answer, Carries(ws, answer, len), NEW m
  PROVE  Taken(ws, len, m) = answer
<1>1. ASSUME NEW i \in 1 .. len
      PROVE  (IF i = len THEN WordAt(ws, 3 + i, m) % 256 ELSE WordAt(ws, 3 + i, m)) = answer[i]
  <2>1. ~ (3 + i > BufferWords) /\ 3 + i <= BufferWords /\ 3 + i <= Len(ws)
    <3>1. Len(ws) = len + 3
      BY DEF Carries
    <3> QED
      BY <3>1 DEF BufferWords
  <2>2. WordAt(ws, 3 + i, m) = ws[3 + i]
    BY <2>1, Zenon DEF WordAt
  <2>3. ws[3 + i] = IF i = len THEN answer[i] + 256 ELSE answer[i]
    BY DEF Carries
  <2>4. PICK b \in 0 .. 255 : b = answer[i]
    <3>1. answer[i] \in Octets
      BY DEF Carries
    <3> QED
      BY <3>1 DEF Octets
  <2>5. (b + 256) % 256 = b
    OBVIOUS
  <2> QED
    BY <2>2, <2>3, <2>4, <2>5, Zenon
<1>2. answer = [i \in 1 .. len |-> answer[i]]
  BY Zenon DEF Carries
<1> QED
  BY <1>1, <1>2, Zenon DEF Taken

(* The last of some indices.                                               *)
LEMMA LastOfSome ==
  ASSUME NEW n \in Nat, NEW D, D # {}, \A i \in D : i \in 1 .. n
  PROVE  \E i \in D : \A j \in D : j <= i
<1> DEFINE R == OpToRel(<, Nat)
           E == {k \in Nat : n - k \in D}
<1>1. IsWellFoundedOn(R, Nat)
  BY NatLessThanWellFounded
<1> HIDE DEF R
<1>2. E # {} /\ E \subseteq Nat
  <2>1. PICK i \in D : i \in 1 .. n
    OBVIOUS
  <2>2. n - i \in Nat /\ n - (n - i) = i
    BY <2>1
  <2> QED
    BY <2>1, <2>2
<1> HIDE DEF E
<1>3. PICK m \in E : \A k \in E : ~ (<<k, m>> \in R)
  BY <1>1, <1>2, WFMin
<1>4. \A k \in E : ~ (k < m)
  BY <1>2, <1>3 DEF OpToRel, R
<1>5. m \in Nat /\ n - m \in D
  BY <1>3 DEF E
<1>6. ASSUME NEW j \in D PROVE j <= n - m
  <2>1. j \in 1 .. n
    OBVIOUS
  <2>2. n - j \in Nat /\ n - (n - j) = j
    BY <2>1
  <2>3. n - j \in E
    BY <2>2 DEF E
  <2>4. ~ (n - j < m)
    BY <1>4, <2>3
  <2> QED
    BY <1>5, <2>1, <2>2, <2>4
<1> QED
  BY <1>5, <1>6

(* The registers an endpoint has keep octets.                              *)
OctetsHeld(regs) == \A a \in RegSpace : regs[a] \in Octets

LEMMA WrittenHeld ==
  ASSUME NEW regs, NEW ws, OctetsHeld(regs), ws \in Seq(Values)
  PROVE  OctetsHeld(Written(regs, ws))
<1> SUFFICES ASSUME NEW a \in RegSpace PROVE Written(regs, ws)[a] \in Octets
  BY DEF OctetsHeld
<1> DEFINE to == {i \in DOMAIN ws : ws[i][1] = a}
<1>1. Written(regs, ws)[a] = IF to = {} THEN regs[a] ELSE ws[CHOOSE i \in to : \A j \in to : j <= i][2]
  BY Zenon DEF Written
<1>2. CASE to = {}
  BY <1>1, <1>2 DEF OctetsHeld
<1>3. CASE to # {}
  <2>1. \E i \in to : \A j \in to : j <= i
    <3>1. \A i \in to : i \in 1 .. Len(ws)
      OBVIOUS
    <3> HIDE DEF to
    <3> QED
      BY <1>3, <3>1, LastOfSome
  <2> QED
    <3>1. \A i \in to : ws[i] \in Values
      OBVIOUS
    <3>2. \A i \in to : ws[i][2] \in Octets
      BY <3>1 DEF Values
    <3> HIDE DEF to
    <3> QED
      BY <1>1, <1>3, <2>1, <3>2
<1> QED
  BY <1>2, <1>3

-----------------------------------------------------------------------------
(* Where the call of a caller has got to (next dispatch l, request r, fate *)
(* f, alone or not), who understood its packet for what, and what it       *)
(* returned, when the buffer has the words ws.                             *)
ReadInOne(r) == r.op = "read_endpoint_data" /\ r.len <= BufferWords - 3

Understood(l, r, u, f, al, rep, ws) ==
  /\ AsyncRequest(r) /\ u.ts = Transactions(Packet(r)) /\ u.by = r.addr
  /\ ReadInOne(r) /\ al =>
       /\ l \in {"acmd_poll", "acmd_rx"} => Carries(ws, u.answer, r.len)
       /\ l = "idle" /\ f = "ok" => rep = u.answer

Tells(l, r, u, f, al, rep, ws, calls) ==
  /\ l \in {"idle", "acmd_tx", "acmd_poll", "acmd_rx"}
  /\ l # "idle" => r \in calls
  /\ l = "acmd_tx" => u = NotHeard
  /\ u.ts # <<>> => Understood(l, r, u, f, al, rep, ws)

LEMMA NoneHeard == NotHeard.ts = <<>>
BY DEF NotHeard

LEMMA TellsAtFirst ==
  ASSUME NEW l \in {"idle", "acmd_tx", "acmd_poll"}, NEW r, NEW f, NEW al, NEW rep, NEW ws, NEW K,
         l # "idle" => r \in K
  PROVE  Tells(l, r, NotHeard, f, al, rep, ws, K)
BY NoneHeard, Zenon DEF Tells

(* What others do leaves it alone, unless they write to the buffer that it *)
(* has not read yet, and then it is not alone.                             *)
LEMMA TellsOn ==
  ASSUME NEW l, NEW r, NEW u, NEW f, NEW al, NEW rep, NEW ws, NEW K,
         Tells(l, r, u, f, al, rep, ws, K), NEW bl, NEW vs,
         bl => al, bl /\ l # "idle" => vs = ws
  PROVE  Tells(l, r, u, f, bl, rep, vs, K)
<1>1. Understood(l, r, u, f, al, rep, ws) => Understood(l, r, u, f, bl, rep, vs)
  <2> SUFFICES ASSUME Understood(l, r, u, f, al, rep, ws) PROVE Understood(l, r, u, f, bl, rep, vs)
    OBVIOUS
  <2>1. AsyncRequest(r) /\ u.ts = Transactions(Packet(r)) /\ u.by = r.addr
    BY Zenon DEF Understood
  <2>2. ASSUME ReadInOne(r), bl, l \in {"acmd_poll", "acmd_rx"} PROVE Carries(vs, u.answer, r.len)
    <3>1. al /\ l # "idle"
      BY <2>2
    <3>2. vs = ws
      BY <2>2, <3>1
    <3>3. Carries(ws, u.answer, r.len)
      BY <2>2, <3>1, Zenon DEF Understood
    <3> QED
      BY <3>2, <3>3
  <2>3. ASSUME ReadInOne(r), bl, l = "idle", f = "ok" PROVE rep = u.answer
    BY <2>3, Zenon DEF Understood
  <2> QED
    BY <2>1, <2>2, <2>3, Zenon DEF Understood
<1> QED
  BY <1>1, Zenon DEF Tells

(* The call fails.                                                         *)
LEMMA TellsAfterFailure ==
  ASSUME NEW l, NEW r, NEW u, NEW f, NEW al, NEW rep, NEW ws, NEW K,
         Tells(l, r, u, f, al, rep, ws, K), NEW g, g # "ok"
  PROVE  Tells("idle", r, u, g, al, rep, ws, K)
BY Zenon DEF Tells, Understood

(* Or a flag says that the reply is there.                                 *)
LEMMA TellsWhenReady ==
  ASSUME NEW r, NEW u, NEW f, NEW al, NEW rep, NEW ws, NEW K,
         Tells("acmd_poll", r, u, f, al, rep, ws, K)
  PROVE  Tells("acmd_rx", r, u, f, al, rep, ws, K)
BY Zenon DEF Tells, Understood

(* And is read.                                                            *)
LEMMA TellsAtLast ==
  ASSUME NEW r, NEW u, NEW f, NEW al, NEW rep, NEW ws, NEW K,
         Tells("acmd_rx", r, u, f, al, rep, ws, K), NEW m, NEW new,
         new = IF r.op = "read_endpoint_data" THEN Taken(ws, r.len, m) ELSE <<>>
  PROVE  Tells("idle", r, u, f, al, new, ws, K)
<1> SUFFICES ASSUME u.ts # <<>> PROVE Understood("idle", r, u, f, al, new, ws)
  BY Zenon DEF Tells
<1>1. Understood("acmd_rx", r, u, f, al, rep, ws)
  BY Zenon DEF Tells
<1>2. ASSUME ReadInOne(r), al PROVE new = u.answer
  <2>1. Carries(ws, u.answer, r.len)
    BY <1>1, <1>2, Zenon DEF Understood
  <2>2. r.len \in 1 .. BufferWords - 3
    <3>1. AsyncRequest(r) /\ r.op = "read_endpoint_data" /\ r.len <= BufferWords - 3
      BY <1>1, <1>2, Zenon DEF Understood, ReadInOne
    <3>2. r.len \in 1 .. 63
      BY <3>1, Zenon DEF AsyncRequest
    <3> QED
      BY ONLY <3>1, <3>2 DEF BufferWords
  <2>3. Taken(ws, r.len, m) = u.answer
    BY <2>1, <2>2, TakenAsCarried
  <2> QED
    BY <1>2, <2>3, Zenon DEF ReadInOne
<1> QED
  BY <1>1, <1>2, Zenon DEF Understood

(* An endpoint hears the packet, whose registers hold octets.              *)
LEMMA TellsWhenHeard ==
  ASSUME NEW r, NEW u, NEW f, NEW al, NEW rep, NEW ws, NEW K,
         Tells("acmd_tx", r, u, f, al, rep, ws, K), AsyncRequest(r), NEW regs, OctetsHeld(regs),
         NEW vs, NEW new,
         LET answer == Answered(regs, Transactions(Packet(r))[1])
         IN  /\ new.by = Addressee(Packet(r)) /\ new.ts = Transactions(Packet(r))
             /\ new.answer = answer
             /\ answer # <<>> => vs = Cat(<<255, 255, Packet(r)[3]>>, Closed(answer)),
         NEW l \in {"idle", "acmd_poll"}, l = "idle" => ~ ReadInOne(r)
  PROVE  Tells(l, r, new, f, al, rep, vs, K)
<1> DEFINE ts == Transactions(Packet(r))
           t == ts[1]
           x == Packet(r)[3]
<1>1. Honest(r)
  BY AllHonest
<1>2. Addressee(Packet(r)) = r.addr
  BY <1>1, Zenon DEF Honest
<1>3. ASSUME ReadInOne(r) PROVE Carries(vs, new.answer, r.len)
  <2>1. r.op = "read_endpoint_data"
    BY <1>3, Zenon DEF ReadInOne
  <2>2. SaysAsked(r, ts)
    BY <1>1, Zenon DEF Honest
  <2>3. ~ t.write /\ t.len = r.len
    BY <2>1, <2>2, Zenon DEF SaysAsked
  <2>4. r.len \in 1 .. 63
    BY <2>1, Zenon DEF AsyncRequest
  <2> HIDE DEF t, ts
  <2> DEFINE answer == Answered(regs, t)
  <2>5. answer = [i \in 1 .. r.len |->
                    IF Register(t, i) \in RegSpace THEN regs[Register(t, i)] ELSE 0]
    BY <2>3, Zenon DEF Answered
  <2>6. \A i \in 1 .. r.len : answer[i] \in Octets
    <3>1. 0 \in Octets
      BY DEF Octets
    <3> QED
      BY <2>5, <3>1, Zenon DEF OctetsHeld
  <2>7. answer = [i \in 1 .. r.len |-> answer[i]]
    BY <2>5, Zenon
  <2> HIDE DEF answer
  <2>8. answer # <<>>
    <3>1. 1 \in 1 .. r.len
      BY ONLY <2>4
    <3>2. DOMAIN answer = 1 .. r.len
      BY <2>7, Zenon
    <3>3. DOMAIN <<>> = {}
      OBVIOUS
    <3> QED
      BY <3>1, <3>2, <3>3, Zenon
  <2>9. Carries(Cat(<<255, 255, x>>, Closed(answer)), answer, r.len)
    <3> HIDE DEF x
    <3> QED
      BY <2>4, <2>6, <2>7, RepliesCarry
  <2>10. new.answer = answer /\ vs = Cat(<<255, 255, x>>, Closed(answer))
    BY <2>8, Zenon DEF answer, t, ts, x
  <2> QED
    BY <2>9, <2>10, Zenon
<1>4. Understood(l, r, new, f, al, rep, vs)
  BY <1>2, <1>3, Zenon DEF Understood
<1>5. l # "idle" => r \in K
  BY Zenon DEF Tells
<1>6. l # "acmd_tx" /\ l \in {"idle", "acmd_tx", "acmd_poll", "acmd_rx"}
  OBVIOUS
<1> QED
  BY <1>4, <1>5, <1>6, Zenon DEF Tells

(* The invariant.                                                          *)
AsyncTypes ==
  /\ node = "acmd" /\ CallsInv
  /\ understood = [c \in Callers |-> understood[c]]
  /\ reply = [c \in Callers |-> reply[c]]
  /\ acmd_buf = [stat |-> acmd_buf.stat, words |-> acmd_buf.words]
  /\ ep_regs = [a \in Present |-> ep_regs[a]]
  /\ \A a \in Present : OctetsHeld(ep_regs[a])

TellsTruth(c) ==
  Tells(at[c], asks[c], understood[c], fate[c], alone[c], reply[c], acmd_buf.words, Asks["acmd"][c])

AsyncInv == AsyncTypes /\ \A c \in Callers : TellsTruth(c)

LEMMA AsyncStarts ==
  ASSUME CallsInit({"acmd"}), AsyncInit
  PROVE  AsyncInv
<1>1. AsyncTypes
  <2>1. CallsInv
    BY CallsStart
  <2>2. 0 \in Octets
    BY DEF Octets
  <2>3. \A a \in Present : OctetsHeld(ep_regs[a])
    BY <2>2 DEF AsyncInit, OctetsHeld
  <2> QED
    BY <2>1, <2>3 DEF CallsInit, AsyncInit, AsyncTypes
<1>2. ASSUME NEW c \in Callers PROVE TellsTruth(c)
  <2>1. at[c] = "idle" /\ understood[c] = NotHeard
    BY DEF CallsInit, AsyncInit
  <2> QED
    BY <2>1, TellsAtFirst, Zenon DEF TellsTruth
<1> QED
  BY <1>1, <1>2 DEF AsyncInv

(* Another caller, whose own variables stay as they are.                   *)
LEMMA OthersTell ==
  ASSUME NEW d \in Callers, TellsTruth(d),
         at'[d] = at[d], asks'[d] = asks[d], fate'[d] = fate[d],
         understood'[d] = understood[d], reply'[d] = reply[d],
         alone'[d] => alone[d], alone'[d] /\ at[d] # "idle" => acmd_buf'.words = acmd_buf.words
  PROVE  TellsTruth(d)'
<1>1. Tells(at[d], asks[d], understood[d], fate[d], alone'[d], reply[d], acmd_buf'.words, Asks["acmd"][d])
  BY TellsOn DEF TellsTruth
<1> QED
  BY <1>1, Zenon DEF TellsTruth

LEMMA AsyncCallKeeps ==
  ASSUME AsyncInv, NEW c \in Callers, NEW r \in Asks[node][c], AsyncCall(c, r)
  PROVE  AsyncInv'
<1>1. CallsInv'
  BY BeginKeepsCalls DEF AsyncInv, AsyncTypes, AsyncCall
<1>2. AsyncTypes'
  BY <1>1 DEF AsyncInv, AsyncTypes, AsyncCall, Begin
<1>3. ASSUME NEW d \in Callers, d # c PROVE TellsTruth(d)'
  <2>1. /\ at'[d] = at[d] /\ asks'[d] = asks[d] /\ fate'[d] = fate[d]
        /\ understood'[d] = understood[d] /\ reply'[d] = reply[d]
        /\ (alone'[d] => alone[d]) /\ acmd_buf' = acmd_buf
    BY <1>3 DEF AsyncInv, AsyncTypes, CallsInv, AsyncCall, Begin
  <2>2. TellsTruth(d)
    BY DEF AsyncInv
  <2> QED
    BY <2>1, <2>2, OthersTell
<1>4. TellsTruth(c)'
  <2>1. at'[c] = "acmd_tx" /\ asks'[c] = r /\ understood'[c] = NotHeard /\ r \in Asks["acmd"][c]
    BY DEF AsyncInv, AsyncTypes, CallsInv, AsyncCall, Begin
  <2> QED
    BY <2>1, TellsAtFirst, Zenon DEF TellsTruth
<1> QED
  BY <1>2, <1>3, <1>4, Zenon DEF AsyncInv

LEMMA AsyncFailureKeeps ==
  ASSUME AsyncInv, NEW c \in Callers, at[c] # "idle", NEW how, how # "ok", Fail(c, how),
         UNCHANGED asyncBufVars
  PROVE  AsyncInv'
<1>1. CallsInv'
  BY FailKeepsCalls DEF AsyncInv, AsyncTypes
<1>2. AsyncTypes'
  BY <1>1 DEF AsyncInv, AsyncTypes, Fail, asyncBufVars
<1>3. ASSUME NEW d \in Callers, d # c PROVE TellsTruth(d)'
  <2>1. /\ at'[d] = at[d] /\ asks'[d] = asks[d] /\ fate'[d] = fate[d]
        /\ understood'[d] = understood[d] /\ reply'[d] = reply[d]
        /\ (alone'[d] => alone[d]) /\ acmd_buf' = acmd_buf
    BY <1>3 DEF AsyncInv, AsyncTypes, CallsInv, Fail, asyncBufVars
  <2>2. TellsTruth(d)
    BY DEF AsyncInv
  <2> QED
    BY <2>1, <2>2, OthersTell
<1>4. TellsTruth(c)'
  <2>1. /\ at'[c] = "idle" /\ asks' = asks /\ fate'[c] = how /\ alone' = alone
        /\ understood' = understood /\ reply' = reply /\ acmd_buf' = acmd_buf
    BY DEF AsyncInv, AsyncTypes, CallsInv, Fail, asyncBufVars
  <2>2. TellsTruth(c)
    BY DEF AsyncInv
  <2>3. Tells("idle", asks[c], understood[c], how, alone[c], reply[c], acmd_buf.words, Asks["acmd"][c])
    BY <2>2, TellsAfterFailure DEF TellsTruth
  <2> QED
    BY <2>1, <2>3, Zenon DEF TellsTruth
<1> QED
  BY <1>2, <1>3, <1>4, Zenon DEF AsyncInv

LEMMA ReplyReadyKeeps ==
  ASSUME AsyncInv, NEW c \in Callers, ReplyReady(c)
  PROVE  AsyncInv'
<1>1. CallsInv'
  BY GoOnKeepsCalls DEF AsyncInv, AsyncTypes, ReplyReady
<1>2. AsyncTypes'
  BY <1>1 DEF AsyncInv, AsyncTypes, ReplyReady, GoOn, asyncBufVars
<1>3. ASSUME NEW d \in Callers, d # c PROVE TellsTruth(d)'
  <2>1. /\ at'[d] = at[d] /\ asks'[d] = asks[d] /\ fate'[d] = fate[d]
        /\ understood'[d] = understood[d] /\ reply'[d] = reply[d]
        /\ (alone'[d] => alone[d]) /\ acmd_buf' = acmd_buf
    BY <1>3 DEF AsyncInv, AsyncTypes, CallsInv, ReplyReady, GoOn, asyncBufVars
  <2>2. TellsTruth(d)
    BY DEF AsyncInv
  <2> QED
    BY <2>1, <2>2, OthersTell
<1>4. TellsTruth(c)'
  <2>1. /\ at[c] = "acmd_poll" /\ at'[c] = "acmd_rx" /\ asks' = asks /\ fate' = fate /\ alone' = alone
        /\ understood' = understood /\ reply' = reply /\ acmd_buf' = acmd_buf
    BY DEF AsyncInv, AsyncTypes, CallsInv, ReplyReady, GoOn, asyncBufVars
  <2>2. Tells("acmd_poll", asks[c], understood[c], fate[c], alone[c], reply[c], acmd_buf.words, Asks["acmd"][c])
    BY <2>1, Zenon DEF AsyncInv, TellsTruth
  <2>3. Tells("acmd_rx", asks[c], understood[c], fate[c], alone[c], reply[c], acmd_buf.words, Asks["acmd"][c])
    BY ONLY <2>2, TellsWhenReady
  <2> QED
    BY <2>1, <2>3, Zenon DEF TellsTruth
<1> QED
  BY <1>2, <1>3, <1>4, Zenon DEF AsyncInv

LEMMA ReadReplyKeeps ==
  ASSUME AsyncInv, NEW c \in Callers, ReadReply(c)
  PROVE  AsyncInv'
<1>1. CallsInv'
  BY GoOnKeepsCalls DEF AsyncInv, AsyncTypes, ReadReply
<1>2. PICK m \in Leftovers :
        reply' = [reply EXCEPT ![c] =
          IF asks[c].op = "read_endpoint_data" THEN Taken(acmd_buf.words, asks[c].len, m) ELSE <<>>]
  BY Zenon DEF ReadReply, Taken, WordAt
<1> DEFINE new == IF asks[c].op = "read_endpoint_data" THEN Taken(acmd_buf.words, asks[c].len, m) ELSE <<>>
<1> HIDE DEF new
<1>3. reply' = [reply EXCEPT ![c] = new]
  BY <1>2, Zenon DEF new
<1>4. AsyncTypes'
  BY <1>1, <1>3 DEF AsyncInv, AsyncTypes, ReadReply, GoOn
<1>5. ASSUME NEW d \in Callers, d # c PROVE TellsTruth(d)'
  <2>1. /\ at'[d] = at[d] /\ asks'[d] = asks[d] /\ fate'[d] = fate[d]
        /\ understood'[d] = understood[d] /\ reply'[d] = reply[d]
        /\ (alone'[d] => alone[d]) /\ acmd_buf' = acmd_buf
    BY <1>3, <1>5 DEF AsyncInv, AsyncTypes, CallsInv, ReadReply, GoOn
  <2>2. TellsTruth(d)
    BY DEF AsyncInv
  <2> QED
    BY <2>1, <2>2, OthersTell
<1>6. TellsTruth(c)'
  <2>1. /\ at[c] = "acmd_rx" /\ at'[c] = "idle" /\ asks' = asks /\ fate' = fate /\ alone' = alone
        /\ understood' = understood /\ reply'[c] = new /\ acmd_buf' = acmd_buf
    BY <1>3 DEF AsyncInv, AsyncTypes, CallsInv, ReadReply, GoOn
  <2>2. Tells("acmd_rx", asks[c], understood[c], fate[c], alone[c], reply[c], acmd_buf.words, Asks["acmd"][c])
    BY <2>1, Zenon DEF AsyncInv, TellsTruth
  <2>3. Tells("idle", asks[c], understood[c], fate[c], alone[c], new, acmd_buf.words, Asks["acmd"][c])
    BY ONLY <2>2, TellsAtLast DEF new
  <2> QED
    BY <2>1, <2>3, Zenon DEF TellsTruth
<1> QED
  BY <1>4, <1>5, <1>6, Zenon DEF AsyncInv

(* A packet is sent: the endpoint hears it, or it is lost.                 *)
LEMMA HeardKeepsRegisters ==
  ASSUME AsyncInv, NEW c \in Callers, at[c] = "acmd_tx", Hears(c, Packet(asks[c]))
  PROVE  /\ ep_regs' = [a \in Present |-> ep_regs'[a]]
         /\ \A a \in Present : OctetsHeld(ep_regs'[a])
<1> DEFINE p == Packet(asks[c])
           b == Addressee(p)
           ws == WritesOf(Transactions(p))
<1>1. AsyncRequest(asks[c])
  <2>1. asks[c] \in Asks["acmd"][c]
    BY Zenon DEF AsyncInv, TellsTruth, Tells
  <2> QED
    BY <2>1, AsyncAssumption
<1>2. ws \in Seq(Values)
  BY <1>1, AllHonest, Zenon DEF Honest
<1>3. b \in Present /\ ep_regs' = [ep_regs EXCEPT ![b] = Written(@, ws)]
  BY Zenon DEF Hears
<1> HIDE DEF b, ws
<1>4. ep_regs = [a \in Present |-> ep_regs[a]] /\ \A a \in Present : OctetsHeld(ep_regs[a])
  BY DEF AsyncInv, AsyncTypes
<1>5. OctetsHeld(Written(ep_regs[b], ws))
  BY <1>2, <1>3, <1>4, WrittenHeld
<1>6. \A a \in Present : ep_regs'[a] = IF a = b THEN Written(ep_regs[b], ws) ELSE ep_regs[a]
  BY <1>3, <1>4
<1>7. ep_regs' = [a \in Present |-> ep_regs'[a]]
  BY <1>3, <1>4
<1> QED
  BY <1>4, <1>5, <1>6, <1>7, Zenon

LEMMA TransmitKeeps ==
  ASSUME AsyncInv, NEW c \in Callers, Transmit(c)
  PROVE  AsyncInv'
<1> DEFINE l == IF Awaits(asks[c]) THEN "acmd_poll" ELSE "idle"
           r == asks[c]
           p == Packet(r)
<1>0. at[c] = "acmd_tx" /\ GoOn(c, l) /\ reply' = reply
  BY DEF Transmit
<1> HIDE DEF l
<1>1. CallsInv'
  BY <1>0, GoOnKeepsCalls DEF AsyncInv, AsyncTypes
<1>2. /\ r \in Asks["acmd"][c] /\ AsyncRequest(r)
      /\ Tells("acmd_tx", r, understood[c], fate[c], alone[c], reply[c], acmd_buf.words, Asks["acmd"][c])
      /\ understood[c] = NotHeard
  <2>1. Tells("acmd_tx", r, understood[c], fate[c], alone[c], reply[c], acmd_buf.words, Asks["acmd"][c])
    BY <1>0, Zenon DEF AsyncInv, TellsTruth
  <2>2. r \in Asks["acmd"][c] /\ understood[c] = NotHeard
    BY <2>1, Zenon DEF Tells
  <2> QED
    BY <2>1, <2>2, AsyncAssumption
<1>3. /\ at'[c] = l /\ asks' = asks /\ fate' = fate /\ alone' = alone
      /\ \A d \in Callers : d # c => at'[d] = at[d]
  BY <1>0 DEF AsyncInv, AsyncTypes, CallsInv, GoOn
<1>4. l \in {"idle", "acmd_poll"} /\ l \in {"idle", "acmd_tx", "acmd_poll"} /\ (l = "idle" => ~ ReadInOne(r))
  BY Zenon DEF l, Awaits, ReadInOne
<1>5. \A d \in Callers : d # c /\ alone[d] => at[d] = "idle"
  BY <1>0 DEF AsyncInv, AsyncTypes, CallsInv
<1>6. ASSUME NEW d \in Callers, d # c, understood'[d] = understood[d] PROVE TellsTruth(d)'
  <2>1. /\ at'[d] = at[d] /\ asks'[d] = asks[d] /\ fate'[d] = fate[d] /\ reply'[d] = reply[d]
        /\ (alone'[d] => alone[d]) /\ (alone'[d] => at[d] = "idle")
    BY <1>0, <1>3, <1>5, <1>6
  <2>2. TellsTruth(d)
    BY DEF AsyncInv
  <2> QED
    BY <1>6, <2>1, <2>2, OthersTell
<1>7. CASE IsLost
  <2>1. /\ acmd_buf' = [stat |-> "busy", words |-> <<>>]
        /\ understood' = understood /\ ep_regs' = ep_regs
    BY <1>7 DEF IsLost
  <2>2. AsyncTypes'
    BY <1>0, <1>1, <2>1 DEF AsyncInv, AsyncTypes, GoOn
  <2>3. TellsTruth(c)'
    <3>1. l # "idle" => r \in Asks["acmd"][c]
      BY <1>2
    <3>2. Tells(l, r, NotHeard, fate[c], alone[c], reply[c], acmd_buf'.words, Asks["acmd"][c])
      BY ONLY <1>4, <3>1, TellsAtFirst
    <3>3. at'[c] = l /\ asks'[c] = r /\ fate'[c] = fate[c] /\ alone'[c] = alone[c]
          /\ understood'[c] = NotHeard /\ reply'[c] = reply[c]
      BY <1>0, <1>2, <1>3, <2>1
    <3> QED
      BY <3>2, <3>3, Zenon DEF TellsTruth
  <2> QED
    BY <1>6, <2>1, <2>2, <2>3, Zenon DEF AsyncInv
<1>8. CASE Hears(c, p)
  <2> DEFINE ts == Transactions(p)
             answer == Answered(ep_regs[Addressee(p)], ts[1])
             new == [by |-> Addressee(p), ts |-> ts, answer |-> answer]
             body == IF answer = <<>> THEN <<>> ELSE Closed(answer)
             vs == Cat(<<255, 255, p[3]>>, body)
  <2>1. /\ Addressee(p) \in Present
        /\ understood' = [understood EXCEPT ![c] = new]
        /\ acmd_buf' = [stat |-> "busy", words |-> vs]
    BY <1>8, Zenon DEF Hears, Cat
  <2>2. /\ ep_regs' = [a \in Present |-> ep_regs'[a]]
        /\ \A a \in Present : OctetsHeld(ep_regs'[a])
    BY <1>0, <1>8, HeardKeepsRegisters
  <2>3. new.by = Addressee(p) /\ new.ts = ts /\ new.answer = answer
        /\ (answer # <<>> => vs = Cat(<<255, 255, p[3]>>, Closed(answer)))
    BY Zenon
  <2>4. OctetsHeld(ep_regs[Addressee(p)])
    BY <2>1 DEF AsyncInv, AsyncTypes
  <2>5. Tells(l, r, new, fate[c], alone[c], reply[c], vs, Asks["acmd"][c])
    <3> HIDE DEF new, vs, p
    <3> QED
      BY <1>2, <1>4, <2>3, <2>4, TellsWhenHeard DEF p
  <2> HIDE DEF new, vs
  <2>6. /\ understood' = [d \in Callers |-> understood'[d]]
        /\ understood'[c] = new /\ \A d \in Callers : d # c => understood'[d] = understood[d]
    BY <2>1 DEF AsyncInv, AsyncTypes
  <2>7. AsyncTypes'
    BY <1>0, <1>1, <2>1, <2>2, <2>6 DEF AsyncInv, AsyncTypes, GoOn
  <2>8. TellsTruth(c)'
    <3>1. at'[c] = l /\ asks'[c] = r /\ fate'[c] = fate[c] /\ alone'[c] = alone[c]
          /\ understood'[c] = new /\ reply'[c] = reply[c] /\ acmd_buf'.words = vs
      BY <1>0, <1>3, <2>1, <2>6
    <3> QED
      BY <2>5, <3>1, Zenon DEF TellsTruth
  <2> QED
    BY <1>6, <2>6, <2>7, <2>8, Zenon DEF AsyncInv
<1> QED
  BY <1>7, <1>8 DEF Transmit

LEMMA BufferAnswersKeeps ==
  ASSUME AsyncInv, BufferAnswers
  PROVE  AsyncInv'
<1>1. CallsInv'
  BY StutterKeepsCalls DEF AsyncInv, AsyncTypes, BufferAnswers
<1>2. /\ acmd_buf' = [stat |-> acmd_buf'.stat, words |-> acmd_buf'.words]
      /\ acmd_buf'.words = acmd_buf.words
  <2> DEFINE s == IF acmd_buf.words = <<>> THEN "timeout" ELSE "ready"
  <2>1. acmd_buf' = [acmd_buf EXCEPT !.stat = s] /\ acmd_buf = [stat |-> acmd_buf.stat, words |-> acmd_buf.words]
    BY DEF AsyncInv, AsyncTypes, BufferAnswers
  <2> HIDE DEF s
  <2>2. acmd_buf' = [stat |-> s, words |-> acmd_buf.words]
    BY <2>1
  <2> QED
    BY <2>2
<1>3. AsyncTypes'
  BY <1>1, <1>2 DEF AsyncInv, AsyncTypes, BufferAnswers, callerVars
<1>4. ASSUME NEW d \in Callers PROVE TellsTruth(d)'
  <2>1. /\ at' = at /\ asks' = asks /\ fate' = fate /\ alone' = alone
        /\ understood' = understood /\ reply' = reply
    BY DEF BufferAnswers, callerVars
  <2>2. TellsTruth(d)
    BY DEF AsyncInv
  <2> QED
    BY <1>2, <2>1, <2>2, OthersTell
<1> QED
  BY <1>3, <1>4, Zenon DEF AsyncInv

LEMMA AsyncStutterKeeps ==
  ASSUME AsyncInv, UNCHANGED <<callerVars, asyncBufVars>>
  PROVE  AsyncInv'
<1>1. CallsInv'
  BY StutterKeepsCalls DEF AsyncInv, AsyncTypes
<1>2. AsyncTypes'
  BY <1>1 DEF AsyncInv, AsyncTypes, callerVars, asyncBufVars
<1>3. ASSUME NEW d \in Callers PROVE TellsTruth(d)'
  <2>1. /\ at' = at /\ asks' = asks /\ fate' = fate /\ alone' = alone
        /\ understood' = understood /\ reply' = reply /\ acmd_buf' = acmd_buf
    BY DEF callerVars, asyncBufVars
  <2>2. TellsTruth(d)
    BY DEF AsyncInv
  <2> QED
    BY <2>1, <2>2, OthersTell
<1> QED
  BY <1>2, <1>3, Zenon DEF AsyncInv

(* What is true of the packets of a caller.                                *)
LEMMA ToldAsAsked ==
  ASSUME AsyncInv
  PROVE  PacketsSayWhatWasAsked
<1> SUFFICES ASSUME NEW c \in Callers, understood[c].ts # <<>>
             PROVE  /\ understood[c].by = asks[c].addr
                    /\ SaysAsked(asks[c], understood[c].ts)
                    /\ asks[c].op = "read_endpoint_data" =>
                         (asks[c].len <= BufferWords - 3 => ReturnsAnswer(c))
  BY Zenon DEF PacketsSayWhatWasAsked, SaysAsked
<1>1. Understood(at[c], asks[c], understood[c], fate[c], alone[c], reply[c], acmd_buf.words)
  BY Zenon DEF AsyncInv, TellsTruth, Tells
<1>2. AsyncRequest(asks[c]) /\ understood[c].ts = Transactions(Packet(asks[c])) /\ understood[c].by = asks[c].addr
  BY <1>1, Zenon DEF Understood
<1>3. SaysAsked(asks[c], understood[c].ts)
  BY <1>2, AllHonest, Zenon DEF Honest
<1>4. asks[c].op = "read_endpoint_data" /\ asks[c].len <= BufferWords - 3 => ReturnsAnswer(c)
  BY <1>1, Zenon DEF Understood, ReadInOne, ReturnsAnswer
<1> QED
  BY <1>2, <1>3, <1>4

(* An endpoint that hears a packet is the one it was meant for and takes   *)
(* it for what was asked, and a read returns what the endpoint answered if *)
(* the buffer has room for it, for any endpoints, registers, callers and   *)
(* calls, whatever packets and replies get lost.                           *)
THEOREM PacketsAreUnderstood == AsyncSpec => []PacketsSayWhatWasAsked
<1>1. CallsInit({"acmd"}) /\ AsyncInit => AsyncInv
  BY AsyncStarts
<1>2. AsyncInv /\ [AsyncNext]_<<callerVars, asyncBufVars>> => AsyncInv'
  <2> SUFFICES ASSUME AsyncInv, [AsyncNext]_<<callerVars, asyncBufVars>>
               PROVE  AsyncInv'
    OBVIOUS
  <2>1. ASSUME NEW c \in Callers, NEW r \in Asks[node][c], AsyncCall(c, r)
        PROVE  AsyncInv'
    BY <2>1, AsyncCallKeeps
  <2>2. ASSUME NEW c \in Callers, Transmit(c)
        PROVE  AsyncInv'
    BY <2>2, TransmitKeeps
  <2>3. ASSUME NEW c \in Callers, PacketRefused(c)
        PROVE  AsyncInv'
    BY <2>3, AsyncFailureKeeps DEF PacketRefused
  <2>4. ASSUME NEW c \in Callers, ReplyReady(c)
        PROVE  AsyncInv'
    BY <2>4, ReplyReadyKeeps
  <2>5. ASSUME NEW c \in Callers, ReplyTimesOut(c)
        PROVE  AsyncInv'
    BY <2>5, AsyncFailureKeeps DEF ReplyTimesOut
  <2>6. ASSUME NEW c \in Callers, ReadReply(c)
        PROVE  AsyncInv'
    BY <2>6, ReadReplyKeeps
  <2>7. ASSUME NEW c \in Callers, AsyncFails(c)
        PROVE  AsyncInv'
    BY <2>7, AsyncFailureKeeps DEF AsyncFails, DispatchFails
  <2>8. CASE BufferAnswers
    BY <2>8, BufferAnswersKeeps
  <2>9. CASE UNCHANGED <<callerVars, asyncBufVars>>
    BY <2>9, AsyncStutterKeeps
  <2> QED
    BY <2>1, <2>2, <2>3, <2>4, <2>5, <2>6, <2>7, <2>8, <2>9 DEF AsyncNext, AsyncStep
<1>3. AsyncInv => PacketsSayWhatWasAsked
  BY ToldAsAsked
<1> QED
  BY <1>1, <1>2, <1>3, PTL DEF AsyncSpec
=============================================================================
