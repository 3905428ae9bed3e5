--------------------------- MODULE TimestampSync ---------------------------
(***************************************************************************)
(* Setting the timestamp of a timing master: TimestampGeneratorNode::      *)
(* set_timestamp, MasterNode::sync_timestamp, and the switch of the        *)
(* timestamp broadcast.                                                    *)
(*                                                                         *)
(* A step of a client is one dispatch.  The generator loads its start      *)
(* value some time after it was told to: at once, with the next strobe or  *)
(* with the next timestamp from upstream, depending on the source; or it   *)
(* never does, or reports an error.                                        *)
(***************************************************************************)
EXTENDS Integers

CONSTANTS
  Clients,    \* callers of the library
  Requests,   \* the calls they may make
  Times,      \* what the clock of the machine, or upstream, may show
  Base        \* one more than what a register holds, 2^32 in the code

Sources == {"upstream", "software", "mixed"}

Request == [op : {"sync", "set", "on", "off"}, source : Sources]

ASSUME SyncAssumption ==
  /\ Requests \subseteq Request
  /\ Base \in Nat \ {0}
  /\ Times \subseteq 0 .. Base * Base - 1

VARIABLES
  pc,       \* per client: the next dispatch of its call
  req,      \* per client: its current or last call
  out,      \* per client: how the call ended
  asked,    \* per client: the timestamp it computed last
  sole,     \* the client of the last call, as long as no other overlaps it
  source,   \* tstamp_source_sel
  init,     \* tstamp_sw_init_l and _h
  gen,      \* the generator: held in reset, told to load, or loaded
  error,    \* tstamp_error
  start,    \* tstamp_start_l and _h, what the generator has loaded
  ts_en     \* is the timestamp broadcast?

vars == <<pc, req, out, asked, sole, source, init, gen, error, start, ts_en>>

(* A timestamp in two registers, and back.                                 *)
Split(t) == [l |-> t % Base, h |-> t \div Base]
Joined(w) == w.l + Base * w.h

Goto(c, l) == pc' = [pc EXCEPT ![c] = l]
Ends(c, outcome) == Goto(c, "idle") /\ out' = [out EXCEPT ![c] = outcome]

-----------------------------------------------------------------------------
Init ==
  /\ pc = [c \in Clients |-> "idle"]
  /\ req \in [Clients -> Requests]
  /\ out = [c \in Clients |-> "none"]
  /\ asked = [c \in Clients |-> 0]
  /\ sole = {}
  /\ source = "upstream" /\ init = Split(0)
  /\ gen = "reset" /\ error = FALSE /\ start = Split(0)
  /\ ts_en = FALSE

Call(c, r) ==
  /\ pc[c] = "idle"
  /\ req' = [req EXCEPT ![c] = r]
  /\ out' = [out EXCEPT ![c] = "none"]
  /\ Goto(c, IF r.op \in {"sync", "set"} THEN "read_old" ELSE "switch")
  /\ sole' = IF \A d \in Clients \ {c} : pc[d] = "idle" THEN {c} ELSE {}
  /\ asked' = [asked EXCEPT ![c] = 0]
  /\ UNCHANGED <<source, init, gen, error, start, ts_en>>

(* The old timestamp is read and reported.                                 *)
ReadOld(c) ==
  /\ pc[c] = "read_old"
  /\ Goto(c, "reset")
  /\ UNCHANGED <<req, out, asked, sole, source, init, gen, error, start, ts_en>>

(* Mutant of Reset: only the source is selected.                           *)
ResetSourceOnly(c) ==
  /\ pc[c] = "reset"
  /\ source' = req[c].source
  /\ Goto(c, "load")
  /\ UNCHANGED <<req, out, asked, sole, init, gen, error, start, ts_en>>

(* The generator is put into reset, which also takes its flags back, and   *)
(* its source selected.                                                    *)
Reset(c) ==
  /\ pc[c] = "reset"
  /\ gen' = "reset" /\ error' = FALSE
  /\ source' = req[c].source
  /\ Goto(c, "load")
  /\ UNCHANGED <<req, out, asked, sole, init, start, ts_en>>

(* Mutant of NewInit: the high register is only written when the low one   *)
(* would not do.                                                           *)
NewInitLowFirst(w) == IF w.h = 0 THEN [init EXCEPT !.l = w.l] ELSE w

(* Both registers of the software timestamp are written.                   *)
NewInit(w) == w

(* The clock of the machine is read unless the timestamp comes from        *)
(* upstream; registers, end of reset and load pulse go out in one          *)
(* dispatch.  A generator another client has told to load meanwhile may    *)
(* stay as it is.                                                          *)
Load(c) ==
  /\ pc[c] = "load"
  /\ IF req[c].source = "upstream"
     THEN UNCHANGED <<asked, init>>
     ELSE \E now \in Times :
            /\ asked' = [asked EXCEPT ![c] = now]
            /\ init' = NewInit(Split(now))
  /\ \/ gen' = "armed"
     \/ gen # "reset" /\ UNCHANGED gen
  /\ Goto(c, "poll")
  /\ UNCHANGED <<req, out, sole, source, error, start, ts_en>>

(* Mutant of Loaded: the poll is content as soon as there is no error.     *)
LoadedOrNoError == ~error

Loaded == gen = "loaded" /\ ~error

(* The flags are polled until the timestamp is loaded, and its start value *)
(* reported ...                                                            *)
Ready(c) ==
  /\ pc[c] = "poll"
  /\ Loaded
  /\ Goto(c, "read_start")
  /\ UNCHANGED <<req, out, asked, sole, source, init, gen, error, start, ts_en>>

(* Mutant of NotReady: the poll has no timeout.                            *)
NotReadyOnError(c) ==
  /\ pc[c] = "poll"
  /\ error
  /\ Ends(c, "not_ready")
  /\ UNCHANGED <<req, asked, sole, source, init, gen, error, start, ts_en>>

(* ... or, after a second, TimestampNotReady is thrown.                    *)
NotReady(c) ==
  /\ pc[c] = "poll"
  /\ ~Loaded
  /\ Ends(c, "not_ready")
  /\ UNCHANGED <<req, asked, sole, source, init, gen, error, start, ts_en>>

ReadStart(c) ==
  /\ pc[c] = "read_start"
  /\ Goto(c, "read_new")
  /\ UNCHANGED <<req, out, asked, sole, source, init, gen, error, start, ts_en>>

(* After the new timestamp is read and reported, sync_timestamp turns the  *)
(* broadcast on.                                                           *)
ReadNew(c) ==
  /\ pc[c] = "read_new"
  /\ IF req[c].op = "sync" THEN Goto(c, "switch") /\ UNCHANGED out ELSE Ends(c, "ok")
  /\ UNCHANGED <<req, asked, sole, source, init, gen, error, start, ts_en>>

Switch(c) ==
  /\ pc[c] = "switch"
  /\ ts_en' = (req[c].op # "off")
  /\ Ends(c, "ok")
  /\ UNCHANGED <<req, asked, sole, source, init, gen, error, start>>

(* A dispatch fails with a uhal exception, without effect.                 *)
BusError(c) ==
  /\ pc[c] # "idle"
  /\ Ends(c, "bus_error")
  /\ UNCHANGED <<req, asked, sole, source, init, gen, error, start, ts_en>>

-----------------------------------------------------------------------------
(* The generator takes its start value from upstream or from the software  *)
(* registers,                                                              *)
GeneratorLoads ==
  /\ gen = "armed"
  /\ gen' = "loaded"
  /\ IF source = "upstream"
     THEN \E t \in Times : start' = Split(t)
     ELSE start' = init
  /\ UNCHANGED <<pc, req, out, asked, sole, source, init, error, ts_en>>

(* or finds, then or later, that its timestamp and upstream do not agree.  *)
GeneratorFails ==
  /\ gen # "reset" /\ source # "software" /\ ~error
  /\ error' = TRUE
  /\ UNCHANGED <<pc, req, out, asked, sole, source, init, gen, start, ts_en>>

Step(c) ==
  \/ ReadOld(c) \/ Reset(c) \/ Load(c) \/ Ready(c) \/ NotReady(c)
  \/ ReadStart(c) \/ ReadNew(c) \/ Switch(c)

Next ==
  \/ \E c \in Clients : (\E r \in Requests : Call(c, r)) \/ Step(c) \/ BusError(c)
  \/ GeneratorLoads \/ GeneratorFails

Spec == Init /\ [][Next]_vars

(* A call that is running keeps running: its poll gives up after a second. *)
FairSpec == Spec /\ \A c \in Clients : WF_vars(Step(c))

-----------------------------------------------------------------------------
Labels == {"idle", "read_old", "reset", "load", "poll", "read_start", "read_new",
           "switch"}

Word == 0 .. Base - 1

TypeOK ==
  /\ pc \in [Clients -> Labels]
  /\ req \in [Clients -> Requests]
  /\ out \in [Clients -> {"none", "ok", "not_ready", "bus_error"}]
  /\ asked \in [Clients -> Times \cup {0}]
  /\ sole \in SUBSET Clients
  /\ source \in Sources
  /\ init \in [l : Word, h : Word]
  /\ gen \in {"reset", "armed", "loaded"}
  /\ error \in BOOLEAN
  /\ start \in [l : Word, h : Word]
  /\ ts_en \in BOOLEAN

(* However many clients set the timestamp at the same time, the two halves *)
(* of the one that is loaded belong together: it was the time when some    *)
(* call looked at its clock, or comes from upstream.                       *)
NeverTorn == Joined(start) \in Times \cup {0}

(* A sync_timestamp that returns, and that no other call has overlapped,   *)
(* has loaded the timestamp of this very call, from the source asked for,  *)
(* and the timestamp is broadcast: no flag, source or register left by     *)
(* earlier calls, failed or not, is taken for its own.                     *)
LoadedAsAsked ==
  \A c \in sole :
    pc[c] = "idle" /\ out[c] = "ok" /\ req[c].op = "sync" =>
      /\ ts_en
      /\ gen = "loaded" /\ source = req[c].source
      /\ source # "upstream" => Joined(start) = asked[c]

(* A broadcast that is not switched on by hand begins with a timestamp     *)
(* that is loaded, unless another call interferes with its reset.          *)
BroadcastAfterLoad ==
  [][ts_en' /\ ~ts_en /\ sole # {} =>
       gen = "loaded" \/ (\E c \in Clients : pc[c] = "switch" /\ req[c].op = "on")]_vars

(* Every call ends, loaded or not.                                         *)
CallsEnd == \A c \in Clients : (pc[c] # "idle") ~> (pc[c] = "idle")
=============================================================================
