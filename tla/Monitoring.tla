----------------------------- MODULE Monitoring -----------------------------
(***************************************************************************)
(* The status tables of a master, which MasterNode::get_status_tables      *)
(* reads one after the other, of HSINode, which reads all it shows in one  *)
(* dispatch, and of IRIGTimestampNode.  The registers change between any   *)
(* two dispatches, and callers share the address register through which    *)
(* the counters of sent commands are read.                                 *)
(***************************************************************************)
EXTENDS NodeCalls

CONSTANTS
  LastCommand,  \* the commands are 0 .. LastCommand, 255 in the code
  WarnAt,       \* the HSI buffer warns when it holds so many words
  FullAt,       \* and is full when it holds so many
  MostSent,     \* bounds the counters
  LatestTime    \* bounds the time

MonitorNodes == {"master", "hsi", "irig"}

MonitorOps ==
  {"get_status_tables", "irig_status", "set_irig_epoch", "hsi_status", "read_buffer_state"}

ASSUME MonitorAssumption ==
  /\ LastCommand \in Nat \ {0}
  /\ WarnAt \in Nat /\ FullAt \in Nat
  /\ MostSent \in Nat /\ LatestTime \in Nat
  /\ \A n \in MonitorNodes : \A c \in Callers : \A r \in Asks[n][c] : r.op \in MonitorOps

VARIABLES
  now,       \* the time, as the IRIG decoder has it
  epoch,     \* csr.ctrl.irig_epoch, which it counts from
  sent_ctrs, \* per command: how often it was sent
  ctr_addr,  \* cmd_ctrs.addr, which moves on with every word read of cmd_ctrs.data
  hsi_buf,   \* the HSI buffer: count, warn and err
  parts,     \* per caller: the dispatches its call has still to make
  table      \* per caller: what it shows, by part

monitorVars == <<now, epoch, sent_ctrs, ctr_addr, hsi_buf, parts, table>>

HsiBuffer(n, overflowed) ==
  [count |-> n, warn |-> IF n >= WarnAt THEN 1 ELSE 0, err |-> IF overflowed THEN 1 ELSE 0]

MonitorInit ==
  /\ now = 0
  /\ epoch = 0
  /\ sent_ctrs = [k \in 0 .. LastCommand |-> 0]
  /\ ctr_addr = 0
  /\ hsi_buf = HsiBuffer(0, FALSE)
  /\ parts = [c \in Callers |-> <<>>]
  /\ table = [c \in Callers |-> <<>>]

-----------------------------------------------------------------------------
(* The dispatches of each call; those that matter here have a name.        *)
TimestampStatus == <<"timestamp", "start", "sw_init", "ctrl", "stat">>
GlobalStatus == <<"ctrl", "stat">>
StatusTables == TimestampStatus \o GlobalStatus \o <<"gen", "sent", "acmd_stat">>

IRIGStatus == <<"irig_timestamp", "ctrl", "stat", "date", "time", "pps_ctr", "seconds">>

Parts(r) == CASE r.op = "get_status_tables" -> StatusTables
              [] r.op = "irig_status"       -> IRIGStatus
              [] r.op = "set_irig_epoch"    -> <<"set_epoch">>
              [] r.op = "hsi_status"        -> <<"hsi">>
              [] r.op = "read_buffer_state" -> <<"buffer_state">>

MonitorCall(c, r) ==
  /\ node \in MonitorNodes
  /\ Begin(c, r, "monitor_read")
  /\ parts' = [parts EXCEPT ![c] = Parts(r)]
  /\ table' = [table EXCEPT ![c] = <<>>]
  /\ UNCHANGED <<now, epoch, sent_ctrs, ctr_addr, hsi_buf>>

Shows(c, value) == table' = [table EXCEPT ![c] = Append(@, value)]

(* All counters but the last are read, from the address register on, and   *)
(* those that are not zero shown with the number they have in what was     *)
(* read; as_it_was is the counters at that moment.                         *)
ReadCounters(c, from) ==
  LET read == [i \in 0 .. LastCommand - 1 |-> sent_ctrs[(from + i) % (LastCommand + 1)]]
  IN  /\ Shows(c, [rows |-> {<<i, read[i]>> : i \in {j \in DOMAIN read : read[j] > 0}},
                   as_it_was |-> sent_ctrs])
      /\ ctr_addr' = (from + LastCommand) % (LastCommand + 1)

(* Mutant of SentCounters: the address register is left where it is.       *)
SentCountersFromThere(c) == ReadCounters(c, ctr_addr)

(* The address register is set in the dispatch that reads the counters.    *)
SentCounters(c) == ReadCounters(c, 0)

(* HSINode::read_buffer_state packs count, warning and error in a word.    *)
BufferState == hsi_buf.err + (2 * hsi_buf.warn) + (65536 * hsi_buf.count)

ReadPart(c) ==
  /\ at[c] = "monitor_read"
  /\ CASE Head(parts[c]) = "sent"         -> SentCounters(c) /\ UNCHANGED epoch
       [] Head(parts[c]) = "hsi"          -> Shows(c, hsi_buf) /\ UNCHANGED <<epoch, ctr_addr>>
       [] Head(parts[c]) = "buffer_state" -> Shows(c, BufferState) /\ UNCHANGED <<epoch, ctr_addr>>
       [] Head(parts[c]) \in {"irig_timestamp", "seconds"} ->
            Shows(c, [since |-> epoch, seconds |-> now]) /\ UNCHANGED <<epoch, ctr_addr>>
       [] Head(parts[c]) = "set_epoch" ->
            epoch' = asks[c].epoch /\ UNCHANGED <<table, ctr_addr>>
       [] OTHER -> UNCHANGED <<table, epoch, ctr_addr>>
  /\ parts' = [parts EXCEPT ![c] = Tail(@)]
  /\ GoOn(c, IF Len(parts[c]) = 1 THEN "idle" ELSE "monitor_read")
  /\ UNCHANGED <<now, sent_ctrs, hsi_buf>>

MonitorFails(c) ==
  node \in MonitorNodes /\ DispatchFails(c) /\ UNCHANGED monitorVars

-----------------------------------------------------------------------------
(* A command is sent; a word is put into the HSI buffer, or finds it full, *)
(* or the buffer is emptied by a reset; time passes.                       *)
CommandSent ==
  /\ node = "master"
  /\ \E k \in 0 .. LastCommand :
       sent_ctrs[k] < MostSent /\ sent_ctrs' = [sent_ctrs EXCEPT ![k] = @ + 1]
  /\ UNCHANGED <<callerVars, now, epoch, ctr_addr, hsi_buf, parts, table>>

HsiWord ==
  /\ node = "hsi"
  /\ hsi_buf' \in
       {IF hsi_buf.count < FullAt THEN HsiBuffer(hsi_buf.count + 1, hsi_buf.err = 1)
                                  ELSE HsiBuffer(FullAt, TRUE),
        HsiBuffer(0, FALSE)}
  /\ UNCHANGED <<callerVars, now, epoch, sent_ctrs, ctr_addr, parts, table>>

TimePasses ==
  /\ node = "irig" /\ now < LatestTime
  /\ now' = now + 1
  /\ UNCHANGED <<callerVars, epoch, sent_ctrs, ctr_addr, hsi_buf, parts, table>>

MonitorNext ==
  \/ \E c \in Callers :
       (\E r \in Asks[node][c] : MonitorCall(c, r)) \/ ReadPart(c) \/ MonitorFails(c)
  \/ CommandSent \/ HsiWord \/ TimePasses

MonitorSpec ==
  CallsInit(MonitorNodes) /\ MonitorInit /\ [][MonitorNext]_<<callerVars, monitorVars>>

-----------------------------------------------------------------------------
(* What the entry i of the table of c has to do with what it stands for.   *)
Belongs(c, i) ==
  LET t == table[c][i] IN
  CASE asks[c].op = "get_status_tables" ->
         t.rows = {<<k, t.as_it_was[k]>> :
                     k \in {j \in 0 .. LastCommand - 1 : t.as_it_was[j] > 0}}
    [] asks[c].op = "hsi_status" -> t.warn = 1 <=> t.count >= WarnAt
    [] asks[c].op = "read_buffer_state" -> (t \div 2) % 2 = 1 <=> t \div 65536 >= WarnAt
    [] asks[c].op = "irig_status" ->
         alone[c] /\ i = 2 => /\ table[c][1].since = t.since
                              /\ table[c][1].seconds <= t.seconds

(* What the status calls show, whatever the firmware and other callers do  *)
(* between their dispatches: the counters of sent commands are those of    *)
(* one moment, each under its own command, although all callers read them  *)
(* through one address register that moves with every word; the warning of *)
(* the HSI buffer belongs to the occupancy it is shown with, packed into   *)
(* one word or not; and the seconds at the end of an IRIG status are not   *)
(* before the timestamp at its beginning, unless another caller sets the   *)
(* epoch in between.                                                       *)
ShownTogether == \A c \in Callers : \A i \in DOMAIN table[c] : Belongs(c, i)
=============================================================================
