------------------------------- MODULE I2CBus -------------------------------
(***************************************************************************)
(* I2CMasterNode and I2CSlave: how registers of chips are read and written *)
(* through the OpenCores I2C core, byte by byte and dispatch by dispatch,  *)
(* by one client that has the bus to itself.                               *)
(*                                                                         *)
(* The core executes one command at a time: a start with an address, a     *)
(* byte out, a byte in, each with or without a stop.  A chip takes the     *)
(* first byte of a write as a register number and counts on from there.    *)
(***************************************************************************)
EXTENDS Integers, Sequences

CONSTANTS
  Devices,      \* addresses of the chips on the bus
  RegCount,     \* the number of registers of a chip
  Bytes,        \* values of a register
  Requests,     \* the calls the client may make
  LastAddress,  \* scan tries the addresses 0 .. LastAddress; 0x7e in the code
  EnableFails   \* may the dispatch that enables the core fail?

(* read and write start at register reg; get and put are the primitive     *)
(* variants, without a register number; n is the number of bytes to read.  *)
Request == [op : {"read", "write", "get", "put", "ping", "scan"}, addr : 0 .. 127,
            reg : Nat, data : Seq(Bytes), n : Nat, stop : BOOLEAN]

ASSUME BusAssumption ==
  /\ Devices \subseteq 0 .. 127
  /\ RegCount \in Nat \ {0}
  /\ Bytes \subseteq 0 .. 255 /\ 0 \in Bytes
  /\ \A r \in Requests : r \in Request
  /\ LastAddress \in 0 .. 126
  /\ EnableFails \in BOOLEAN

VARIABLES
  pc,       \* the next dispatch of the client
  req,      \* its current or last call
  stage,    \* the block being transferred: "write", "read" or "probe"
  addr,     \* the address of the block
  at,       \* the byte being transferred; 0 is the address
  buf,      \* the bytes read so far
  found,    \* the addresses that answered a scan
  out,      \* how the last call ended
  ours,     \* does the prescale have m_clock_prescale?
  enabled,  \* ctrl
  tx,       \* the byte to send, register data
  rx,       \* the byte received, register data
  doing,    \* the command being executed, or "none", or "hung"
  ack,      \* status: the last byte sent was acknowledged
  lost,     \* status: arbitration was lost
  held,     \* status: the bus is busy
  sel,      \* the chip that was addressed, NoDevice if none
  taken,    \* the bytes it has taken since
  ptr,      \* per chip: its current register
  regs      \* per chip: its registers

client == <<pc, req, stage, addr, at, buf, found, out>>
core == <<ours, enabled, tx, rx, doing, ack, lost>>
chips == <<held, sel, taken, ptr, regs>>
vars == <<pc, req, stage, addr, at, buf, found, out,
          ours, enabled, tx, rx, doing, ack, lost, held, sel, taken, ptr, regs>>

NoDevice == -1

NoRequest == [op |-> "ping", addr |-> 0, reg |-> 0, data |-> <<>>, n |-> 1, stop |-> TRUE]

(* What goes out of a register number.                                     *)
LowByte(n) == n % 256

(* Mutant of Block: one byte of the data is left out.                      *)
BlockOffByOne(r) == CASE r.op = "write" -> <<LowByte(r.reg)>> \o Tail(r.data)
                      [] r.op = "read"  -> <<LowByte(r.reg)>>
                      [] OTHER          -> r.data

(* The bytes of the write block of a call.                                 *)
Block(r) == CASE r.op = "write" -> <<LowByte(r.reg)>> \o r.data
              [] r.op = "read"  -> <<LowByte(r.reg)>>
              [] OTHER          -> r.data

Length == CASE stage = "write" -> Len(Block(req))
            [] stage = "read"  -> req.n
            [] stage = "probe" -> 1

(* Mutant of Stops: a block that is read has none.                         *)
StopsWritesOnly == at > 0 /\ at = Length /\ stage = "write" /\ (req.op = "read" \/ req.stop)

(* Does the byte at hand end the block with a stop?                        *)
Stops == at > 0 /\ at = Length /\ (stage = "write" => req.op = "read" \/ req.stop)

AddressByte == 2 * addr + (IF stage = "write" THEN 0 ELSE 1)

Sends == at = 0 \/ stage = "write"

First(r) == CASE r.op \in {"write", "read", "put"} -> "write"
              [] r.op = "get"                      -> "read"
              [] r.op \in {"ping", "scan"}         -> "probe"

Goto(l) == pc' = l

(* How a call ends, and what becomes of an I2CException: ping and scan     *)
(* catch it.                                                               *)
Ends(outcome) == Goto("idle") /\ out' = outcome

-----------------------------------------------------------------------------
(* Power-up, or the core as an earlier call has left it.                   *)
Init ==
  /\ pc = "idle" /\ req = NoRequest /\ stage = "probe" /\ addr = 0 /\ at = 0
  /\ buf = <<>> /\ found = {} /\ out = "none"
  /\ ours \in BOOLEAN /\ enabled = ours
  /\ tx = 0 /\ rx = 0 /\ doing = "none" /\ ack = FALSE /\ lost = FALSE
  /\ held = FALSE /\ sel = NoDevice /\ taken = 0
  /\ ptr = [d \in Devices |-> 0]
  /\ regs = [d \in Devices |-> [i \in 0 .. RegCount - 1 |-> 0]]

(* By the time of a call, the byte an earlier one has left the core with   *)
(* is transferred, or never will be.                                       *)
Call(r) ==
  /\ pc = "idle" /\ doing \in {"none", "hung"}
  /\ Goto("reset")
  /\ req' = r /\ stage' = First(r) /\ at' = 0
  /\ addr' = IF r.op = "scan" THEN 0 ELSE r.addr
  /\ buf' = <<>> /\ found' = {} /\ out' = "none"
  /\ UNCHANGED <<core, chips>>

(* Every block begins with reset, which looks at the prescale and enables  *)
(* the core only when it finds a wrong one.                                *)
Reset ==
  /\ pc = "reset"
  /\ Goto(IF ours THEN "clear" ELSE "disable")
  /\ UNCHANGED <<req, stage, addr, at, buf, found, out, core, chips>>

Clear ==
  /\ pc = "clear"
  /\ tx' = 0 /\ doing' = "none"
  /\ Goto("tx")
  /\ UNCHANGED <<req, stage, addr, at, buf, found, out, ours, enabled, rx, ack, lost, chips>>

Disable ==
  /\ pc = "disable"
  /\ enabled' = FALSE
  /\ Goto("prescale")
  /\ UNCHANGED <<req, stage, addr, at, buf, found, out, ours, tx, rx, doing, ack, lost, chips>>

SetPrescale ==
  /\ pc = "prescale"
  /\ ours' = TRUE /\ tx' = 0 /\ doing' = "none"
  /\ Goto("enable")
  /\ UNCHANGED <<req, stage, addr, at, buf, found, out, enabled, rx, ack, lost, chips>>

Enable ==
  /\ pc = "enable"
  /\ enabled' = TRUE
  /\ Goto("tx")
  /\ UNCHANGED <<req, stage, addr, at, buf, found, out, ours, tx, rx, doing, ack, lost, chips>>

(* A byte to send is written in a dispatch of its own ...                  *)
WriteTx ==
  /\ pc = "tx"
  /\ tx' = IF at = 0 THEN AddressByte ELSE Block(req)[at]
  /\ Goto("cmd")
  /\ UNCHANGED <<req, stage, addr, at, buf, found, out, ours, enabled, rx, doing, ack, lost, chips>>

(* ... before the command, which a disabled core ignores.                  *)
Command ==
  /\ pc = "cmd"
  /\ IF enabled THEN doing' = (IF at = 0 THEN "start" ELSE IF Sends THEN "send" ELSE "receive")
                     /\ lost' = FALSE
                ELSE UNCHANGED <<doing, lost>>
  /\ Goto("poll")
  /\ UNCHANGED <<req, stage, addr, at, buf, found, out, ours, enabled, tx, rx, ack, chips>>

(* After the last byte of a block: read_i2cArray goes on with a block of   *)
(* its own, scan with the next address and no reset.                       *)
BlockDone ==
  \/ /\ stage = "write" /\ req.op = "read"
     /\ stage' = "read" /\ at' = 0
     /\ Goto("reset")
     /\ UNCHANGED <<addr, found, out>>
  \/ /\ req.op = "scan"
     /\ found' = found \cup {addr}
     /\ IF addr = LastAddress
        THEN Ends("ok") /\ UNCHANGED <<addr, at>>
        ELSE Goto("tx") /\ addr' = addr + 1 /\ at' = 0 /\ UNCHANGED out
     /\ UNCHANGED stage
  \/ /\ ~(stage = "write" /\ req.op = "read") /\ req.op # "scan"
     /\ Ends("ok")
     /\ UNCHANGED <<stage, addr, at, found>>

(* ping and scan take an I2CException for an absent chip.                  *)
Fails(why) ==
  /\ IF req.op = "scan" /\ addr # LastAddress
     THEN Goto("tx") /\ addr' = addr + 1 /\ at' = 0 /\ UNCHANGED out
     ELSE /\ Ends(CASE req.op = "scan" -> "ok" [] req.op = "ping" -> "absent" [] OTHER -> why)
          /\ UNCHANGED <<addr, at>>
  /\ UNCHANGED <<stage, found>>

ByteDone ==
  IF at = Length
  THEN BlockDone
  ELSE /\ at' = at + 1
       /\ Goto(IF stage = "write" THEN "tx" ELSE "cmd")
       /\ UNCHANGED <<stage, addr, found, out>>

(* Mutant of Poll: it waits for a core that hangs.                         *)
PollForever ==
  /\ pc = "poll"
  /\ \/ doing = "none" /\ lost /\ Fails("lost")
     \/ doing = "none" /\ ~lost /\ Sends /\ ~ack /\ Fails("no_ack")
     \/ doing = "none" /\ ~lost /\ (Sends => ack) /\ Stops /\ Fails("still_busy")
     \/ doing = "none" /\ ~lost /\ (Sends => ack) /\ (Stops => ~held)
        /\ IF Sends THEN ByteDone
           ELSE Goto("fetch") /\ UNCHANGED <<stage, addr, at, found, out>>
  /\ UNCHANGED <<req, buf, core, chips>>

(* wait_until_finished polls the status until the core is done, at most 20 *)
(* times; a command that ends with a stop must leave the bus free, which   *)
(* it may not do at once.                                                  *)
Poll ==
  /\ pc = "poll"
  /\ \/ doing = "hung" /\ Fails("timeout")
     \/ doing = "none" /\ lost /\ Fails("lost")
     \/ doing = "none" /\ ~lost /\ Sends /\ ~ack /\ Fails("no_ack")
     \/ doing = "none" /\ ~lost /\ (Sends => ack) /\ Stops /\ Fails("still_busy")
     \/ doing = "none" /\ ~lost /\ (Sends => ack) /\ (Stops => ~held)
        /\ IF Sends THEN ByteDone
           ELSE Goto("fetch") /\ UNCHANGED <<stage, addr, at, found, out>>
  /\ UNCHANGED <<req, buf, core, chips>>

(* The byte received is read in a dispatch of its own.                     *)
Fetch ==
  /\ pc = "fetch"
  /\ buf' = IF stage = "probe" THEN buf ELSE Append(buf, rx)
  /\ ByteDone
  /\ UNCHANGED <<req, core, chips>>

(* A dispatch fails with a uhal exception, without effect.                 *)
BusError ==
  /\ pc # "idle"
  /\ pc = "enable" => EnableFails
  /\ Ends("bus_error")
  /\ UNCHANGED <<req, stage, addr, at, buf, found, core, chips>>

Step ==
  \/ Reset \/ Clear \/ Disable \/ SetPrescale \/ Enable
  \/ WriteTx \/ Command \/ Poll \/ Fetch

-----------------------------------------------------------------------------
(* The core and the chips.                                                 *)

(* A stop frees the bus.                                                   *)
Finished(chip) ==
  /\ doing' = "none"
  /\ held' = ~Stops
  /\ sel' = IF Stops THEN NoDevice ELSE chip

(* A chip that is there answers its address, unless it is busy.            *)
ChipAddressed ==
  /\ doing = "start"
  /\ \/ tx \div 2 \in Devices /\ ack' = TRUE /\ Finished(tx \div 2)
     \/ ack' = FALSE /\ Finished(NoDevice)
  /\ taken' = 0
  /\ UNCHANGED <<ptr, regs, rx, lost>>

(* It takes a byte, the first one as a register number, or refuses it.     *)
ChipTakes ==
  /\ doing = "send" /\ sel \in Devices
  /\ ack' = TRUE /\ Finished(sel)
  /\ taken' = taken + 1
  /\ IF taken = 0
     THEN ptr' = [ptr EXCEPT ![sel] = tx % RegCount] /\ UNCHANGED regs
     ELSE /\ regs' = [regs EXCEPT ![sel][ptr[sel]] = tx]
          /\ ptr' = [ptr EXCEPT ![sel] = (@ + 1) % RegCount]
  /\ UNCHANGED <<rx, lost>>

ChipRefuses ==
  /\ doing = "send"
  /\ ack' = FALSE /\ Finished(sel)
  /\ UNCHANGED <<taken, ptr, regs, rx, lost>>

(* Where no chip is addressed, the bus reads as ones.                      *)
ChipGives ==
  /\ doing = "receive"
  /\ Finished(sel)
  /\ IF sel \in Devices
     THEN /\ rx' = regs[sel][ptr[sel]]
          /\ ptr' = [ptr EXCEPT ![sel] = (@ + 1) % RegCount]
     ELSE rx' = 255 /\ UNCHANGED ptr
  /\ UNCHANGED <<ack, taken, regs, lost>>

(* Nothing answers, or something else drives the bus.                      *)
CoreFails ==
  /\ doing \in {"start", "send", "receive"}
  /\ \/ doing' = "none" /\ lost' = TRUE
     \/ doing' = "hung" /\ UNCHANGED lost
  /\ sel' = NoDevice
  /\ UNCHANGED <<ack, rx, held, taken, ptr, regs>>

Bus ==
  /\ ChipAddressed \/ ChipTakes \/ ChipRefuses \/ ChipGives \/ CoreFails
  /\ UNCHANGED <<client, ours, enabled, tx>>

Next == (\E r \in Requests : Call(r)) \/ Step \/ BusError \/ Bus

Spec == Init /\ [][Next]_vars /\ WF_vars(Step) /\ WF_vars(Bus)

-----------------------------------------------------------------------------
Labels == {"idle", "reset", "clear", "disable", "prescale", "enable", "tx", "cmd",
           "poll", "fetch"}

TypeOK ==
  /\ pc \in Labels
  /\ req \in Requests \cup {NoRequest}
  /\ stage \in {"write", "read", "probe"}
  /\ addr \in 0 .. 127 /\ at \in 0 .. Length
  /\ Len(buf) <= Length /\ \A i \in 1 .. Len(buf) : buf[i] \in Bytes \cup {255}
  /\ found \subseteq 0 .. LastAddress
  /\ out \in {"none", "ok", "absent", "no_ack", "lost", "timeout", "still_busy", "bus_error"}
  /\ ours \in BOOLEAN /\ enabled \in BOOLEAN
  /\ tx \in 0 .. 255 /\ rx \in Bytes \cup {255}
  /\ doing \in {"none", "start", "send", "receive", "hung"}
  /\ sel \in Devices \cup {NoDevice}
  /\ ptr \in [Devices -> 0 .. RegCount - 1]
  /\ regs \in [Devices -> [0 .. RegCount - 1 -> Bytes]]

(* reset leaves the core enabled: no byte is transferred through a core    *)
(* that ignores commands and shows the status of an earlier one.           *)
ResetEnablesCore == pc \in {"tx", "cmd", "poll", "fetch"} => enabled

(* A call that returns has sent its stop: the bus is free, unless the      *)
(* caller asked for no stop or there was nothing to send.                  *)
BusReleased ==
  out = "ok" /\ req.op \in {"read", "write", "get", "put"} /\ Length > 0
    /\ (stage = "write" => req.stop) => ~held

(* A scan finds only chips that are there, although it takes every failure *)
(* for an absent chip and goes on without a reset.                         *)
ScanFindsChips == found \subseteq Devices

(* Whatever fails, the bus is given back by the calls that return, and a   *)
(* scan makes up no chip out of a failure; and, as long as the dispatch    *)
(* that enables the core is not the one to fail, no byte goes through a    *)
(* disabled core, also after a reset that has failed before it.            *)
BusInv == BusReleased /\ ScanFindsChips /\ ResetEnablesCore

(* Every call ends: the polling of a core that hangs is given up.          *)
CallsEnd == (pc # "idle") ~> (pc = "idle")

(* What a call means for the registers: they are numbered by bytes, and    *)
(* write_i2cPrimitive sends the register number as its first byte.         *)
Meaning(r) ==
  IF r.op = "put" /\ r.data # <<>>
  THEN [op |-> "write", addr |-> r.addr, reg |-> Head(r.data), data |-> Tail(r.data), n |-> 0]
  ELSE [op |-> r.op, addr |-> r.addr, reg |-> LowByte(r.reg), data |-> r.data, n |-> r.n]

(* The master keeps the promise of the register file: writes that return   *)
(* are whole, those that fail a beginning of it, reads return what is      *)
(* there and touch nothing; through every failure between two dispatches.  *)
File == INSTANCE RegisterFile WITH
  call <- Meaning(req), busy <- pc # "idle", got <- buf,
  done <- IF req.op \in {"write", "put"} /\ at > 0 /\ taken > 0 THEN taken - 1 ELSE 0

(* Every behaviour of the master is one of the register file.              *)
FileSpec == File!FSpec
=============================================================================
