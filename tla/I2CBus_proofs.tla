--------------------------- MODULE I2CBus_proofs ---------------------------
(***************************************************************************)
(* The I2C master keeps what RegisterFile promises, for any chips, any     *)
(* number of registers, any calls and whatever fails between two           *)
(* dispatches: the proof of what i2c_bus checks on two chips.              *)
(***************************************************************************)
EXTENDS I2CBus, SequenceTheorems, TLAPS

(* What the theorems need beyond the assumptions on constants: reset finds *)
(* the core with the right prescale but not enabled when the dispatch that *)
(* enables it has failed before.                                           *)
EnableSucceeds == EnableFails = FALSE

Active == {"start", "send", "receive"}

(* What has to be sent for the byte at hand ...                            *)
ByteOut == IF at = 0 THEN AddressByte ELSE Block(req)[at]

(* ... and whether it went well.                                           *)
Answered == doing = "none" /\ ~lost /\ (Sends => ack)

Types ==
  /\ TypeOK
  /\ taken \in Nat
  /\ ack \in BOOLEAN /\ lost \in BOOLEAN /\ held \in BOOLEAN
  /\ buf \in Seq(Bytes \cup {255})

(* The core is disabled while its prescale is written only.                *)
CoreInv ==
  /\ pc \in {"clear", "tx", "cmd", "poll", "fetch"} => enabled
  /\ pc \in {"disable", "prescale"} => ~ours
  /\ ours => enabled \/ pc = "enable"

(* A command is executed while the client polls, or after it has gone.     *)
CourseInv ==
  /\ doing \in Active => pc = "poll" \/ (pc = "idle" /\ out = "bus_error")
  /\ doing = "start" => at = 0
  /\ doing = "send" => at > 0 /\ stage = "write"
  /\ doing = "receive" => at > 0 /\ stage # "write"
  /\ pc \in {"reset", "clear", "disable", "prescale", "enable"} => at = 0
  /\ pc = "tx" /\ at > 0 => stage = "write"
  /\ pc = "fetch" => doing = "none" /\ at > 0 /\ stage # "write"
  /\ pc # "idle" => out = "none"

(* Which blocks a call has.                                                *)
FormInv ==
  /\ stage = "write" => req.op \in {"write", "read", "put"}
  /\ stage = "read" => req.op \in {"read", "get"}
  /\ stage = "probe" => req.op \in {"ping", "scan"}
  /\ IF req.op = "scan" THEN addr <= LastAddress ELSE addr = req.addr
  /\ stage # "read" => buf = <<>>
  /\ stage = "read" /\ pc # "idle" => Len(buf) = IF at = 0 THEN 0 ELSE at - 1

(* The register tx holds the byte at hand from its dispatch on.            *)
ByteInv == Sends /\ (pc = "cmd" \/ doing \in Active) => tx = ByteOut

(* From the address on a chip is addressed, until the stop.                *)
ChipInv ==
  /\ at > 0 => addr \in Devices
  /\ at > 0 /\ (pc \in {"tx", "cmd"} \/ doing \in Active) => sel = addr
  /\ pc = "poll" /\ Answered /\ ~Stops => sel = addr /\ addr \in Devices
  /\ pc = "fetch" /\ ~Stops => sel = addr

(* The register a call starts from, as the chip takes it.                  *)
Start == Block(req)[1]

(* How far a write has come.                                               *)
WriteInv ==
  stage = "write" =>
    /\ at > 0 /\ (pc \in {"tx", "cmd"} \/ doing = "send") => taken = at - 1
    /\ pc = "poll" /\ Answered => taken = at
    /\ at > 0 /\ taken > 0 => ptr[addr] = (Start + taken - 1) % RegCount

Reg(i) == regs[addr][(Start + i - 1) % RegCount]

(* How far a read has come, which begins where its write block has left    *)
(* the chip.                                                               *)
ReadInv ==
  stage = "read" /\ req.op = "read" =>
    /\ addr \in Devices
    /\ at = 0 => ptr[addr] = Start % RegCount
    /\ at > 0 /\ (pc = "cmd" \/ doing = "receive") => ptr[addr] = (Start + at - 1) % RegCount
    /\ at > 0 /\ ((pc = "poll" /\ Answered) \/ pc = "fetch") =>
         ptr[addr] = (Start + at) % RegCount /\ rx = Reg(at)
    /\ pc # "idle" => buf = [i \in 1 .. (IF at = 0 THEN 0 ELSE at - 1) |-> Reg(i)]

HeldInv == pc = "fetch" /\ Stops => ~held

(* What BusInv says of the bus and the chips: that the core is enabled is  *)
(* part of CoreInv.                                                        *)
GivenBack == BusReleased /\ ScanFindsChips

IInv ==
  /\ Types /\ CoreInv /\ CourseInv /\ FormInv /\ ByteInv
  /\ ChipInv /\ WriteInv /\ ReadInv /\ HeldInv /\ GivenBack

-----------------------------------------------------------------------------
(* Registers are counted round the end of the chip.                        *)
LEMMA Remainder ==
  ASSUME NEW n \in Nat \ {0}, NEW q \in Nat, NEW r \in 0 .. n - 1
  PROVE  (n * q + r) % n = r
  OBVIOUS

LEMMA CountsRound ==
  ASSUME NEW a \in Nat, NEW n \in Nat \ {0}
  PROVE  a % n \in 0 .. n - 1 /\ ((a % n) + 1) % n = (a + 1) % n
<1>1. PICK q \in Nat, r \in 0 .. n - 1 : a = n * q + r
  <2>1. a % n \in 0 .. n - 1 /\ a = n * (a \div n) + (a % n) /\ a \div n \in Nat
    OBVIOUS
  <2> QED
    BY <2>1
<1>2. a % n = r
  BY <1>1, Remainder
<1>3. CASE r = n - 1
  <2>1. n * (q + 1) + 0 = a + 1 
    BY <1>1, <1>3
  <2>2. (n * (q + 1) + 0) % n = 0 /\ n % n = 0
    BY Remainder
  <2> QED
    BY <1>2, <1>3, <2>1, <2>2
<1>4. CASE r < n - 1
  <2>1. n * q + (r + 1) = a + 1 /\ r + 1 \in 0 .. n - 1
    BY <1>1, <1>4
  <2>2. (n * q + (r + 1)) % n = r + 1
    BY <2>1, Remainder
  <2>3. (r + 1) % n = r + 1
    BY <2>1
  <2> QED
    BY <1>2, <2>1, <2>2, <2>3
<1> QED
  BY <1>3, <1>4

Octets == 0 .. 255

(* What a call is made of.                                                 *)
LEMMA RequestFields ==
  ASSUME NEW r \in Requests \cup {NoRequest}
  PROVE  /\ r.op \in {"read", "write", "get", "put", "ping", "scan"}
         /\ r.addr \in 0 .. 127 /\ r.reg \in Nat /\ r.n \in Nat
         /\ r.data \in Seq(Bytes) /\ r.data \in Seq(Octets) /\ r.stop \in BOOLEAN
<1>1. CASE r \in Requests
  <2>1. r \in Request
    BY <1>1, BusAssumption
  <2>2. r.data \in Seq(Bytes)
    BY <2>1 DEF Request
  <2>3. Bytes \subseteq Octets
    BY BusAssumption DEF Octets
  <2>4. r.data \in Seq(Octets)
    BY <2>2, <2>3, SeqMonotonic
  <2> QED
    BY <2>1, <2>4 DEF Request
<1>2. CASE r = NoRequest
  BY <1>2 DEF NoRequest
<1> QED
  BY <1>1, <1>2

(* A register number before some data.                                     *)
LEMMA Prefixed ==
  ASSUME NEW S, NEW x \in S, NEW s \in Seq(S), NEW b, b = <<x>> \o s
  PROVE  /\ b \in Seq(S) /\ Len(b) = Len(s) + 1 /\ b[1] = x
         /\ \A i \in 1 .. Len(s) : b[i + 1] = s[i]
<1>1. <<x>> \in Seq(S) /\ Len(<<x>>) = 1 /\ <<x>>[1] = x
  OBVIOUS
<1> QED
  BY <1>1, ConcatProperties

(* The bytes of its write block.                                           *)
LEMMA BlockBytes ==
  ASSUME NEW r \in Requests \cup {NoRequest}
  PROVE  /\ Block(r) \in Seq(Octets) /\ Len(Block(r)) \in Nat
         /\ \A i \in 1 .. Len(Block(r)) : Block(r)[i] \in Octets
         /\ \A i \in 2 .. Len(Block(r)) : Block(r)[i] \in Bytes
         /\ r.op = "read" => Len(Block(r)) = 1 /\ Block(r)[1] = LowByte(r.reg)
         /\ r.op = "write" =>
              /\ Len(Block(r)) = Len(r.data) + 1 /\ Block(r)[1] = LowByte(r.reg)
              /\ \A i \in 1 .. Len(r.data) : Block(r)[i + 1] = r.data[i]
         /\ r.op = "put" => Block(r) = r.data
<1>0. r.data \in Seq(Bytes) /\ Len(r.data) \in Nat
      /\ \A i \in 1 .. Len(r.data) : r.data[i] \in Bytes
  BY RequestFields, ElementOfSeq, LenProperties
<1>1. r.data \in Seq(Octets) /\ r.op \in {"read", "write", "get", "put", "ping", "scan"}
  BY RequestFields
<1>2. LowByte(r.reg) \in Octets
  <2>1. r.reg \in Nat
    BY RequestFields
  <2> QED
    BY <2>1 DEF LowByte, Octets
<1>3. CASE r.op = "write"
  <2>1. Block(r) = <<LowByte(r.reg)>> \o r.data
    BY <1>3 DEF Block
  <2>2. /\ Block(r) \in Seq(Octets) /\ Len(Block(r)) = Len(r.data) + 1
        /\ Block(r)[1] = LowByte(r.reg) /\ \A i \in 1 .. Len(r.data) : Block(r)[i + 1] = r.data[i]
    BY <1>1, <1>2, <2>1, Prefixed
  <2>3. \A i \in 1 .. Len(Block(r)) : Block(r)[i] \in Octets
    BY <2>2, ElementOfSeq
  <2>4. ASSUME NEW i \in 2 .. Len(Block(r)) PROVE Block(r)[i] \in Bytes
    <3>1. i - 1 \in 1 .. Len(r.data) /\ (i - 1) + 1 = i
      BY <1>0, <2>2
    <3> QED
      BY <1>0, <2>2, <3>1
  <2> QED
    BY <1>0, <1>3, <2>2, <2>3, <2>4
<1>4. CASE r.op = "read"
  <2>1. Block(r) = <<LowByte(r.reg)>>
    BY <1>4 DEF Block
  <2>2. Block(r) \in Seq(Octets) /\ Len(Block(r)) = 1 /\ Block(r)[1] = LowByte(r.reg)
    BY <1>2, <2>1
  <2> QED
    BY <1>2, <1>4, <2>2
<1>5. CASE r.op \notin {"write", "read"}
  <2>1. Block(r) = r.data
    BY <1>5 DEF Block
  <2>2. \A i \in 1 .. Len(Block(r)) : Block(r)[i] \in Octets
    BY <1>1, <2>1, ElementOfSeq
  <2>3. \A i \in 2 .. Len(Block(r)) : Block(r)[i] \in Bytes
    BY <1>0, <2>1
  <2> QED
    BY <1>0, <1>1, <1>5, <2>1, <2>2, <2>3
<1> QED
  BY <1>3, <1>4, <1>5

LEMMA LengthIsNat ==
  ASSUME Types
  PROVE  Length \in Nat /\ (stage = "write" => Length = Len(Block(req)))
         /\ (stage = "read" => Length = req.n) /\ (stage = "probe" => Length = 1)
  BY BlockBytes, RequestFields DEF Types, TypeOK, Length

(* The byte at hand stays what it is while the client stays where it is.   *)
LEMMA SameByte ==
  ASSUME UNCHANGED <<req, stage, addr, at>>
  PROVE  /\ Length' = Length /\ (Stops' <=> Stops) /\ (Sends' <=> Sends)
         /\ ByteOut' = ByteOut /\ Start' = Start /\ AddressByte' = AddressByte
         /\ (UNCHANGED regs => \A i \in Nat : Reg(i)' = Reg(i))
  BY DEF Length, Stops, Sends, ByteOut, AddressByte, Start, Reg

LEMMA StartInv == Init => IInv
<1> SUFFICES ASSUME Init PROVE IInv
  OBVIOUS
<1>1. Types
  <2>1. Length = 1
    BY DEF Init, Length
  <2>2. pc \in Labels /\ req \in Requests \cup {NoRequest} /\ stage \in {"write", "read", "probe"}
    BY DEF Init, Labels
  <2>3. addr \in 0 .. 127 /\ at \in 0 .. Length
    BY <2>1 DEF Init
  <2>4. Len(buf) <= Length /\ buf \in Seq(Bytes \cup {255}) /\ Len(buf) = 0
    BY <2>1 DEF Init
  <2>5. \A i \in 1 .. Len(buf) : buf[i] \in Bytes \cup {255}
    BY <2>4
  <2>6. /\ found \subseteq 0 .. LastAddress
        /\ out = "none" /\ ours \in BOOLEAN /\ enabled \in BOOLEAN
        /\ tx \in 0 .. 255 /\ rx \in Bytes \cup {255} /\ doing = "none"
        /\ sel \in Devices \cup {NoDevice}
    BY BusAssumption DEF Init
  <2>7. ptr \in [Devices -> 0 .. RegCount - 1] /\ regs \in [Devices -> [0 .. RegCount - 1 -> Bytes]]
    BY BusAssumption DEF Init
  <2>8. TypeOK
    BY <2>2, <2>3, <2>4, <2>5, <2>6, <2>7 DEF TypeOK
  <2>9. taken \in Nat /\ ack \in BOOLEAN /\ lost \in BOOLEAN /\ held \in BOOLEAN
    BY DEF Init
  <2> QED
    BY <2>4, <2>8, <2>9 DEF Types
<1>2. CoreInv /\ CourseInv /\ FormInv
  BY BusAssumption DEF Init, CoreInv, CourseInv, FormInv, Active, NoRequest
<1>3. ByteInv /\ ChipInv /\ WriteInv /\ ReadInv /\ HeldInv /\ GivenBack
  BY DEF Init, ByteInv, ChipInv, WriteInv, ReadInv, HeldInv, GivenBack, BusReleased,
         ScanFindsChips, Active
<1> QED
  BY <1>1, <1>2, <1>3 DEF IInv

(* A dispatch that leaves the byte at hand, and the chips, alone.          *)
LEMMA CoreStepKeeps ==
  ASSUME IInv,
         \/ Reset \/ Clear \/ Disable \/ SetPrescale \/ Enable \/ WriteTx \/ Command
  PROVE  IInv'
<1>1. UNCHANGED <<req, stage, addr, at, buf, found, out, chips, rx, ack>> /\ pc # "idle"
  BY DEF Reset, Clear, Disable, SetPrescale, Enable, WriteTx, Command, core
<1>2. Types'
  <2>1. WriteTx => tx' \in 0 .. 255
    <3>1. AddressByte \in 0 .. 255
      BY DEF IInv, Types, TypeOK, AddressByte
    <3>2. ASSUME pc = "tx", at # 0 PROVE Block(req)[at] \in 0 .. 255
      <4>1. at \in 1 .. Len(Block(req))
        <5>1. Length = Len(Block(req))
          BY <3>2, LengthIsNat DEF IInv, CourseInv, Types, TypeOK
        <5>2. at \in 0 .. Length /\ at # 0
          BY <3>2 DEF IInv, Types, TypeOK
        <5> QED
          BY <5>1, <5>2, LengthIsNat DEF IInv
      <4> QED
        BY <4>1, BlockBytes DEF IInv, Types, TypeOK, Octets
    <3> QED
      BY <3>1, <3>2 DEF WriteTx
  <2>a. tx \in 0 .. 255 /\ ours \in BOOLEAN /\ enabled \in BOOLEAN /\ lost \in BOOLEAN
        /\ doing \in {"none", "start", "send", "receive", "hung"}
    BY DEF IInv, Types, TypeOK
  <2>2. tx' \in 0 .. 255
    BY <2>1, <2>a DEF Reset, Clear, Disable, SetPrescale, Enable, Command, core
  <2>3. pc' \in Labels /\ ours' \in BOOLEAN /\ enabled' \in BOOLEAN /\ lost' \in BOOLEAN
        /\ doing' \in {"none", "start", "send", "receive", "hung"}
    BY <2>a DEF Labels, Goto, core,
           Reset, Clear, Disable, SetPrescale, Enable, WriteTx, Command
  <2>4. Length' = Length
    BY <1>1, SameByte
  <2> QED
    BY <1>1, <2>2, <2>3, <2>4 DEF IInv, Types, TypeOK, chips
<1>3. CoreInv'
  BY DEF IInv, CoreInv, Types, TypeOK, Goto, core,
       Reset, Clear, Disable, SetPrescale, Enable, WriteTx, Command
<1>4. CourseInv'
  BY <1>1 DEF IInv, CoreInv, CourseInv, Types, TypeOK, Sends, Active, Goto, core,
       Reset, Clear, Disable, SetPrescale, Enable, WriteTx, Command
<1>5. FormInv'
  BY <1>1 DEF IInv, FormInv, Goto,
       Reset, Clear, Disable, SetPrescale, Enable, WriteTx, Command
<1>6. ByteInv'
  BY <1>1, SameByte DEF IInv, ByteInv, CourseInv, ByteOut, Active, Goto, core,
       Reset, Clear, Disable, SetPrescale, Enable, WriteTx, Command
<1>7. ChipInv'
  BY <1>1, SameByte DEF IInv, ChipInv, CourseInv, CoreInv, Answered, Active, Goto, core, chips,
       Reset, Clear, Disable, SetPrescale, Enable, WriteTx, Command
<1>8. WriteInv'
  BY <1>1, SameByte DEF IInv, WriteInv, CourseInv, CoreInv, Answered, Active, Goto, core, chips,
       Reset, Clear, Disable, SetPrescale, Enable, WriteTx, Command
<1>9. ReadInv'
  BY <1>1, SameByte DEF IInv, ReadInv, CourseInv, CoreInv, Answered, Active, Goto, core, chips,
       Reset, Clear, Disable, SetPrescale, Enable, WriteTx, Command
<1>10. HeldInv' /\ GivenBack'
  BY <1>1, SameByte DEF IInv, HeldInv, GivenBack, BusReleased, ScanFindsChips, Goto, chips,
       CourseInv, Reset, Clear, Disable, SetPrescale, Enable, WriteTx, Command
<1> QED
  BY <1>2, <1>3, <1>4, <1>5, <1>6, <1>7, <1>8, <1>9, <1>10 DEF IInv


(* A call finds the core at rest, and begins with its first block.         *)
LEMMA CallKeeps ==
  ASSUME IInv, NEW r \in Requests, Call(r)
  PROVE  IInv'
<1>1. /\ pc' = "reset" /\ req' = r /\ stage' = First(r) /\ at' = 0
      /\ addr' = (IF r.op = "scan" THEN 0 ELSE r.addr)
      /\ buf' = <<>> /\ found' = {} /\ out' = "none"
      /\ UNCHANGED <<ours, enabled, tx, rx, doing, ack, lost, held, sel, taken, ptr, regs>>
      /\ pc = "idle" /\ doing \in {"none", "hung"}
  BY DEF Call, core, chips, Goto
<1>2. /\ r.op \in {"read", "write", "get", "put", "ping", "scan"}
      /\ r.addr \in 0 .. 127 /\ r.n \in Nat
  BY RequestFields
<1>3. Len(Block(r)) \in Nat
  BY BlockBytes
<1>4. Types'
  <2>1. stage' \in {"write", "read", "probe"} /\ pc' \in Labels /\ addr' \in 0 .. 127
    BY <1>1, <1>2 DEF First, Labels
  <2>2. Length' \in Nat
    BY <1>1, <1>2, <1>3, <2>1 DEF Length
  <2>3. buf' \in Seq(Bytes \cup {255}) /\ Len(buf') = 0
    BY <1>1
  <2> QED
    BY <1>1, <2>1, <2>2, <2>3 DEF IInv, Types, TypeOK
<1>5. CoreInv' /\ CourseInv'
  BY <1>1 DEF IInv, CoreInv, CourseInv, Active
<1>6. FormInv'
  <2>1. 0 <= LastAddress
    BY BusAssumption
  <2>2. /\ stage' = "write" <=> r.op \in {"write", "read", "put"}
        /\ stage' = "read" <=> r.op = "get"
        /\ stage' = "probe" <=> r.op \in {"ping", "scan"}
    BY <1>1, <1>2 DEF First
  <2>3. Len(buf') = 0
    BY <1>1
  <2> QED
    BY <1>1, <2>1, <2>2, <2>3 DEF FormInv
<1>7. ByteInv' /\ ChipInv' /\ WriteInv' /\ HeldInv' /\ GivenBack'
  BY <1>1 DEF IInv, ByteInv, ChipInv, WriteInv, HeldInv, GivenBack, BusReleased, ScanFindsChips,
              Active
<1>8. ReadInv'
  <2>1. ~(stage' = "read" /\ req'.op = "read")
    BY <1>1 DEF First
  <2> QED
    BY <2>1 DEF ReadInv
<1> QED
  BY <1>4, <1>5, <1>6, <1>7, <1>8 DEF IInv

(* A call that ends leaves everything else as it is.                       *)
LEMMA EndKeeps ==
  ASSUME IInv, pc # "enable", pc' = "idle", doing \in {"none", "hung"} \/ out' = "bus_error",
         out' \in {"ok", "absent", "no_ack", "lost", "timeout", "still_busy", "bus_error"},
         out' = "ok" /\ req.op \in {"read", "write", "get", "put"} => at = Length /\ (Stops => ~held),
         buf' \in Seq(Bytes \cup {255}), Len(buf') <= Length, stage # "read" => buf' = buf,
         UNCHANGED <<req, stage, addr, at, found, core, chips>>
  PROVE  IInv'
<1>1. UNCHANGED <<ours, enabled, tx, rx, doing, ack, lost, held, sel, taken, ptr, regs>>
  BY DEF core, chips
<1>2. Length \in Nat
  BY LengthIsNat DEF IInv
<1>3. Types'
  <2>1. \A i \in 1 .. Len(buf') : buf'[i] \in Bytes \cup {255}
    BY ElementOfSeq
  <2> QED
    BY <1>1, <2>1, SameByte DEF IInv, Types, TypeOK, Labels
<1>4. CoreInv' /\ CourseInv' /\ FormInv' /\ HeldInv' /\ ByteInv'
  <2>1. CoreInv' /\ HeldInv'
    BY <1>1 DEF IInv, CoreInv, HeldInv
  <2>2. CourseInv'
    BY <1>1 DEF IInv, CourseInv, Active
  <2>3. FormInv'
    BY DEF IInv, FormInv
  <2>4. ByteInv'
    BY <1>1, SameByte DEF IInv, ByteInv
  <2> QED
    BY <2>1, <2>2, <2>3, <2>4
<1>5. ChipInv'
  BY <1>1 DEF IInv, ChipInv
<1>6. WriteInv' 
  BY <1>1, SameByte DEF IInv, WriteInv
<1>7. ReadInv'
  BY <1>1, SameByte DEF IInv, ReadInv
<1>8. GivenBack'
  BY <1>1, <1>2, SameByte DEF IInv, GivenBack, BusReleased, ScanFindsChips, Stops, FormInv
<1> QED
  BY <1>3, <1>4, <1>5, <1>6, <1>7, <1>8 DEF IInv

LEMMA BusErrorKeeps == EnableSucceeds /\ IInv /\ BusError => IInv'
  BY EndKeeps DEF BusError, Ends, Goto, EnableSucceeds, IInv, Types, TypeOK

(* A scan goes on with the next address.                                   *)
LEMMA NextAddressKeeps ==
  ASSUME IInv, pc \in {"poll", "fetch"}, doing \in {"none", "hung"}, req.op = "scan",
         addr # LastAddress, pc' = "tx", addr' = addr + 1, at' = 0,
         found' = found \/ (found' = found \cup {addr} /\ at > 0),
         UNCHANGED <<req, stage, buf, out, core, chips>>
  PROVE  IInv'
<1>1. UNCHANGED <<ours, enabled, tx, rx, doing, ack, lost, held, sel, taken, ptr, regs>>
  BY DEF core, chips
<1>2. stage = "probe" /\ addr <= LastAddress
  <2>1. stage \in {"write", "read", "probe"}
    BY DEF IInv, Types, TypeOK
  <2> QED
    BY <2>1 DEF IInv, FormInv
<1>3. addr' \in 0 .. LastAddress /\ addr' \in 0 .. 127 /\ addr \in 0 .. LastAddress
  BY <1>2, BusAssumption DEF IInv, Types, TypeOK
<1>4. Types'
  <2>1. Length' = 1 /\ Length = 1
    BY <1>2 DEF Length
  <2>2. found' \subseteq 0 .. LastAddress
    <3>1. found \subseteq 0 .. LastAddress
      BY DEF IInv, Types, TypeOK
    <3> QED
      BY <1>3, <3>1
  <2> QED
    BY <1>1, <1>3, <2>1, <2>2 DEF IInv, Types, TypeOK, Labels
<1>5. CoreInv' /\ CourseInv' /\ HeldInv' /\ ByteInv'
  BY <1>1, <1>2 DEF IInv, CoreInv, CourseInv, HeldInv, ByteInv, Active
<1>6. FormInv' /\ ChipInv' /\ WriteInv' /\ ReadInv'
  BY <1>1, <1>2, <1>3 DEF IInv, FormInv, ChipInv, WriteInv, ReadInv, Active
<1>7. GivenBack'
  BY <1>1, <1>2, <1>3 DEF IInv, GivenBack, BusReleased, ScanFindsChips, ChipInv
<1> QED
  BY <1>4, <1>5, <1>6, <1>7 DEF IInv

LEMMA FailsKeeps ==
  ASSUME IInv, pc = "poll", doing \in {"none", "hung"},
         NEW why \in {"no_ack", "lost", "timeout", "still_busy"}, Fails(why),
         UNCHANGED <<req, buf, core, chips>>
  PROVE  IInv'
<1>1. CASE req.op = "scan" /\ addr # LastAddress
  BY <1>1, NextAddressKeeps DEF Fails, Goto
<1>2. CASE ~(req.op = "scan" /\ addr # LastAddress)
  BY <1>2, EndKeeps DEF Fails, Ends, Goto, IInv, Types, TypeOK
<1> QED
  BY <1>1, <1>2


(* The byte received joins the ones before it.                             *)
LEMMA Fetched ==
  ASSUME IInv, pc = "fetch", buf' = IF stage = "probe" THEN buf ELSE Append(buf, rx)
  PROVE  /\ buf' \in Seq(Bytes \cup {255}) /\ Len(buf') <= Length
         /\ \A i \in 1 .. Len(buf') : buf'[i] \in Bytes \cup {255}
         /\ at > 0 /\ stage # "write"
         /\ stage = "read" => Len(buf') = at
         /\ stage # "read" => buf' = buf
         /\ stage = "read" /\ req.op = "read" => buf' = [i \in 1 .. at |-> Reg(i)]
<1>1. at > 0 /\ stage \in {"read", "probe"} /\ at \in 0 .. Length /\ Length \in Nat /\ at \in Nat
  BY LengthIsNat DEF IInv, CourseInv, Types, TypeOK
<1>2. rx \in Bytes \cup {255} /\ buf \in Seq(Bytes \cup {255}) /\ Len(buf) <= Length
  BY DEF IInv, Types, TypeOK
<1>3. buf' \in Seq(Bytes \cup {255})
  BY <1>2, AppendProperties
<1>4. stage = "read" => buf' = Append(buf, rx) /\ Len(buf) = at - 1 /\ Len(buf') = at
  BY <1>1, <1>2, AppendProperties DEF IInv, FormInv
<1>5. ASSUME stage = "read", req.op = "read"
      PROVE  buf' = [i \in 1 .. at |-> Reg(i)]
  <2>1. buf = [i \in 1 .. at - 1 |-> Reg(i)] /\ rx = Reg(at)
    BY <1>1, <1>5 DEF IInv, ReadInv
  <2>2. \A i \in 1 .. at : buf'[i] = IF i < at THEN buf[i] ELSE rx
    BY <1>1, <1>2, <1>4, <1>5, AppendProperties
  <2>3. \A i \in 1 .. at : buf'[i] = Reg(i)
    BY <1>1, <2>1, <2>2
  <2>4. buf' = [i \in 1 .. at |-> buf'[i]]
    BY <1>3, <1>4, <1>5, LenProperties
  <2> QED
    BY <2>3, <2>4
<1> QED
  BY <1>1, <1>2, <1>3, <1>4, <1>5, ElementOfSeq

(* A byte is done with when it has been sent ...                           *)
Sent == pc = "poll" /\ Answered /\ (Stops => ~held) /\ Sends /\ buf' = buf

(* ... or fetched.                                                         *)
GotByte == pc = "fetch" /\ buf' = IF stage = "probe" THEN buf ELSE Append(buf, rx)

(* The client goes on with the next byte of a block.                       *)
LEMMA NextByteKeeps ==
  ASSUME IInv, Sent \/ GotByte, at # Length, at' = at + 1,
         pc' = IF stage = "write" THEN "tx" ELSE "cmd",
         UNCHANGED <<req, stage, addr, found, out, core, chips>>
  PROVE  IInv'
<1>1. /\ UNCHANGED <<ours, enabled, tx, rx, doing, ack, lost, held, sel, taken, ptr, regs>>
      /\ pc \in {"poll", "fetch"}
  BY DEF core, chips, Sent, GotByte
<1>2. at \in Nat /\ at' \in 0 .. Length /\ Length \in Nat /\ Length' = Length /\ at' > 0
  BY LengthIsNat DEF IInv, Types, TypeOK, Length
<1>3. /\ buf' \in Seq(Bytes \cup {255}) /\ Len(buf') <= Length
      /\ \A i \in 1 .. Len(buf') : buf'[i] \in Bytes \cup {255}
      /\ stage # "read" => buf' = buf
      /\ stage = "read" => Len(buf') = at' - 1
  <2>1. CASE Sent
    BY <1>2, <2>1 DEF Sent, IInv, Types, TypeOK, FormInv, Sends
  <2>2. CASE GotByte
    BY <1>2, <2>2, Fetched DEF GotByte
  <2> QED
    BY <2>1, <2>2
<1>4. Types'
  BY <1>1, <1>2, <1>3 DEF IInv, Types, TypeOK, Labels
<1>5. CoreInv'
  BY <1>1 DEF IInv, CoreInv
<1>6. doing = "none" /\ (stage = "write" => Sent) /\ out = "none"
  BY DEF IInv, CourseInv, Sent, GotByte, Answered
<1>7. CourseInv'
  BY <1>1, <1>6 DEF IInv, CourseInv, Active
<1>8. FormInv'
  BY <1>2, <1>3 DEF IInv, FormInv
<1>9. ByteInv' /\ HeldInv'
  BY <1>1, <1>2, <1>6 DEF ByteInv, HeldInv, Sends, Active
<1>10. ChipInv'
  <2>1. sel = addr /\ addr \in Devices
    BY <1>2 DEF IInv, ChipInv, Sent, GotByte, Stops, CourseInv
  <2> QED
    BY <1>1, <2>1 DEF ChipInv
<1>11. WriteInv'
  <2>1. ASSUME stage = "write" 
        PROVE  taken = at /\ (at > 0 => ptr[addr] = (Start + taken - 1) % RegCount)
    BY <1>2, <1>6, <2>1 DEF Sent, IInv, WriteInv
  <2>2. Start' = Start
    BY DEF Start
  <2> QED
    BY <1>1, <1>2, <1>6, <2>1, <2>2 DEF WriteInv
<1>12. ReadInv'
  <2> SUFFICES ASSUME stage = "read", req.op = "read" PROVE ReadInv'
    BY DEF ReadInv
  <2>1. addr \in Devices /\ Start' = Start /\ (\A i \in Nat : Reg(i)' = Reg(i))
    BY <1>1 DEF IInv, ReadInv, Start, Reg
  <2>2. Start \in Nat
    <3>1. Len(Block(req)) = 1 /\ \A i \in 1 .. Len(Block(req)) : Block(req)[i] \in Octets
      BY BlockBytes DEF IInv, Types, TypeOK
    <3> QED
      BY <3>1 DEF Start, Octets
  <2>3. ptr[addr] = (Start + at) % RegCount
    <3>1. CASE Sent
      BY <1>2, <2>2, <3>1 DEF Sent, Sends, IInv, ReadInv
    <3>2. CASE GotByte
      BY <1>2, <1>6, <3>2 DEF GotByte, IInv, ReadInv, CourseInv
    <3> QED
      BY <3>1, <3>2
  <2>4. buf' = [i \in 1 .. at |-> Reg(i)]
    <3>1. CASE Sent
      <4>1. at = 0 /\ buf' = buf
        BY <1>2, <3>1 DEF Sent, Sends
      <4> QED
        BY <3>1, <4>1 DEF IInv, ReadInv, Sent
    <3>2. CASE GotByte
      BY <3>2, Fetched DEF GotByte
    <3> QED
      BY <3>1, <3>2
  <2>5. buf' = [i \in 1 .. (IF at' = 0 THEN 0 ELSE at' - 1) |-> Reg(i)']
    <3>1. (IF at' = 0 THEN 0 ELSE at' - 1) = at /\ 1 .. at \subseteq Nat
      BY <1>2
    <3>2. [i \in 1 .. at |-> Reg(i)] = [i \in 1 .. at |-> Reg(i)']
      BY <2>1, <3>1
    <3> QED
      BY <2>4, <3>1, <3>2
  <2>6. ptr'[addr'] = (Start' + at' - 1) % RegCount
    <3>1. Start' + at' - 1 = Start + at
      BY <1>2, <2>1, <2>2
    <3> QED
      BY <1>1, <2>3, <3>1
  <2> QED
    BY <1>1, <1>2, <2>1, <2>5, <2>6 DEF ReadInv
<1>13. GivenBack'
  BY <1>1, <1>6 DEF IInv, GivenBack, BusReleased, ScanFindsChips
<1> QED
  BY <1>4, <1>5, <1>7, <1>8, <1>9, <1>10, <1>11, <1>12, <1>13 DEF IInv


(* The register number is sent: the chip stands there.                     *)
LEMMA ReadBlockKeeps ==
  ASSUME IInv, Sent \/ GotByte, at = Length, stage = "write", req.op = "read",
         stage' = "read", at' = 0, pc' = "reset",
         UNCHANGED <<req, addr, found, out, core, chips>>
  PROVE  IInv'
<1>1. /\ UNCHANGED <<ours, enabled, tx, rx, doing, ack, lost, held, sel, taken, ptr, regs>>
      /\ Sent /\ pc = "poll" /\ buf' = buf
  BY DEF core, chips, Sent, GotByte, IInv, CourseInv
<1>2. at = 1 /\ req.n \in Nat /\ Length' = req.n
  BY BlockBytes, RequestFields, LengthIsNat DEF IInv, Types, TypeOK, Length
<1>3. buf = <<>> /\ out = "none" /\ doing = "none"
  BY <1>1 DEF IInv, FormInv, CourseInv, Sent, Answered
<1>4. Types'
  BY <1>1, <1>2, <1>3 DEF IInv, Types, TypeOK, Labels
<1>5. CoreInv' /\ CourseInv' /\ FormInv'
  BY <1>1, <1>3 DEF IInv, CoreInv, CourseInv, FormInv, Active
<1>6. ByteInv' /\ HeldInv' /\ ChipInv' /\ WriteInv'
  BY <1>1, <1>3 DEF ByteInv, HeldInv, ChipInv, WriteInv, Active
<1>7. ReadInv'
  <2>1. addr \in Devices /\ taken = 1 /\ ptr[addr] = (Start + taken - 1) % RegCount
    BY <1>1, <1>2 DEF IInv, ChipInv, WriteInv, Sent
  <2>2. Start' = Start /\ Start \in Nat
    <3>1. Len(Block(req)) = 1 /\ \A i \in 1 .. Len(Block(req)) : Block(req)[i] \in Octets
      BY BlockBytes DEF IInv, Types, TypeOK
    <3> QED
      BY <3>1 DEF Start, Octets
  <2>3. ptr'[addr'] = Start' % RegCount
    <3>1. Start + taken - 1 = Start
      BY <2>1, <2>2
    <3> QED
      BY <1>1, <2>1, <2>2, <3>1
  <2>4. buf' = [i \in 1 .. 0 |-> Reg(i)']
    BY <1>1, <1>3
  <2> QED
    BY <1>1, <2>1, <2>3, <2>4 DEF ReadInv
<1>8. GivenBack'
  BY <1>1, <1>3 DEF IInv, GivenBack, BusReleased, ScanFindsChips
<1> QED
  BY <1>4, <1>5, <1>6, <1>7, <1>8 DEF IInv

(* The scan ends.                                                          *)
LEMMA ScanEndKeeps ==
  ASSUME IInv, pc \in {"poll", "fetch"}, doing = "none", req.op = "scan", stage = "probe",
         at > 0, pc' = "idle", out' = "ok", found' = found \cup {addr},
         UNCHANGED <<req, stage, addr, at, buf, core, chips>>
  PROVE  IInv'
<1>1. UNCHANGED <<ours, enabled, tx, rx, doing, ack, lost, held, sel, taken, ptr, regs>>
  BY DEF core, chips
<1>2. found' \subseteq 0 .. LastAddress
  BY DEF IInv, FormInv, Types, TypeOK
<1>3. Types'
  BY <1>1, <1>2, SameByte DEF IInv, Types, TypeOK, Labels
<1>4. CoreInv' /\ HeldInv'
  BY <1>1 DEF IInv, CoreInv, HeldInv
<1>5. CourseInv' /\ FormInv'
  BY <1>1 DEF IInv, CourseInv, FormInv, Active
<1>6. ByteInv' /\ ChipInv' /\ WriteInv' /\ ReadInv'
  BY <1>1 DEF IInv, ByteInv, ChipInv, WriteInv, ReadInv, Active
<1>7. GivenBack'
  BY <1>1 DEF IInv, GivenBack, BusReleased, ScanFindsChips, ChipInv
<1> QED
  BY <1>3, <1>4, <1>5, <1>6, <1>7 DEF IInv

(* A byte done with.                                                       *)
LEMMA ByteDoneKeeps ==
  ASSUME IInv, Sent \/ GotByte, ByteDone, UNCHANGED <<req, core, chips>>
  PROVE  IInv'
<1>1. CASE at # Length
  BY <1>1, NextByteKeeps DEF ByteDone, Goto
<1>2. CASE at = Length /\ stage = "write" /\ req.op = "read"
  <2>1. req.op # "scan"
    BY <1>2
  <2>2. stage' = "read" /\ at' = 0 /\ pc' = "reset" /\ UNCHANGED <<addr, found, out>>
    BY <1>2, <2>1 DEF ByteDone, BlockDone, Goto
  <2> QED
    BY <1>2, <2>2, ReadBlockKeeps
<1>3. pc \in {"poll", "fetch"} /\ doing = "none" /\ (Stops => ~held)
  BY DEF Sent, GotByte, Answered, IInv, CourseInv, HeldInv
<1>4. buf' \in Seq(Bytes \cup {255}) /\ Len(buf') <= Length /\ (stage # "read" => buf' = buf)
  BY Fetched DEF Sent, GotByte, IInv, Types, TypeOK
<1>5. CASE at = Length /\ req.op = "scan"
  <2>1. stage = "probe" /\ Length = 1 /\ buf' = buf /\ at > 0
    <3>1. stage \in {"write", "read", "probe"}
      BY DEF IInv, Types, TypeOK
    <3>2. stage = "probe"
      BY <1>5, <3>1 DEF IInv, FormInv
    <3> QED
      BY <1>4, <1>5, <3>2 DEF Length
  <2>2. /\ found' = found \cup {addr} /\ stage' = stage
        /\ IF addr = LastAddress
           THEN pc' = "idle" /\ out' = "ok" /\ UNCHANGED <<addr, at>>
           ELSE pc' = "tx" /\ addr' = addr + 1 /\ at' = 0 /\ UNCHANGED out
    BY <1>5, <2>1 DEF ByteDone, BlockDone, Ends, Goto
  <2>3. CASE addr # LastAddress
    BY <1>3, <1>5, <2>1, <2>2, <2>3, NextAddressKeeps
  <2>4. CASE addr = LastAddress
    BY <1>3, <1>4, <1>5, <2>1, <2>2, <2>4, ScanEndKeeps
  <2> QED
    BY <2>3, <2>4
<1>6. CASE at = Length /\ ~(stage = "write" /\ req.op = "read") /\ req.op # "scan"
  <2>1. pc' = "idle" /\ out' = "ok" /\ UNCHANGED <<stage, addr, at, found>>
    BY <1>6 DEF ByteDone, BlockDone, Ends, Goto
  <2> QED
    BY <1>3, <1>4, <1>6, <2>1, EndKeeps
<1> QED
  BY <1>1, <1>2, <1>5, <1>6

LEMMA PollKeeps == IInv /\ Poll => IInv'
<1> SUFFICES ASSUME IInv, Poll PROVE IInv'
  OBVIOUS
<1>1. pc = "poll" /\ UNCHANGED <<req, buf, core, chips>>
  BY DEF Poll
<1>2. CASE \/ doing = "hung" /\ Fails("timeout")
           \/ doing = "none" /\ lost /\ Fails("lost")
           \/ doing = "none" /\ ~lost /\ Sends /\ ~ack /\ Fails("no_ack")
           \/ doing = "none" /\ ~lost /\ (Sends => ack) /\ Stops /\ Fails("still_busy")
  BY <1>1, <1>2, FailsKeeps
<1>3. CASE Answered /\ (Stops => ~held) /\ Sends /\ ByteDone
  BY <1>1, <1>3, ByteDoneKeeps DEF Sent
<1>4. CASE /\ Answered /\ (Stops => ~held) /\ ~Sends
           /\ pc' = "fetch" /\ UNCHANGED <<stage, addr, at, found, out>>
  <2>1. UNCHANGED <<ours, enabled, tx, rx, doing, ack, lost, held, sel, taken, ptr, regs>>
    BY <1>1 DEF core, chips
  <2>2. at > 0 /\ stage # "write"
    BY <1>4 DEF Sends, IInv, Types, TypeOK, Length
  <2>3. Types'
    BY <1>1, <1>4, <2>1, SameByte DEF IInv, Types, TypeOK, Labels
  <2>4. CoreInv' /\ CourseInv' /\ FormInv' /\ ByteInv' /\ GivenBack' 
    BY <1>1, <1>4, <2>1, <2>2 DEF IInv, CoreInv, CourseInv, FormInv, ByteInv, GivenBack,
       BusReleased, ScanFindsChips, Answered, Active
  <2>5. ChipInv' /\ WriteInv' /\ HeldInv'
    BY <1>1, <1>4, <2>1, <2>2, SameByte DEF IInv, ChipInv, WriteInv, HeldInv, Answered, Active
  <2>6. ReadInv'
    <3> SUFFICES ASSUME stage = "read", req.op = "read" PROVE ReadInv'
      BY <1>1, <1>4 DEF ReadInv
    <3>1. at \in Nat /\ 1 .. at - 1 \subseteq Nat
      BY LengthIsNat DEF IInv, Types, TypeOK
    <3>2. Start' = Start /\ \A i \in Nat : Reg(i)' = Reg(i)
      BY <1>1, <1>4, <2>1, SameByte
    <3>3. [i \in 1 .. at - 1 |-> Reg(i)] = [i \in 1 .. at - 1 |-> Reg(i)']
      BY <3>1, <3>2
    <3>4. /\ addr \in Devices /\ ptr[addr] = (Start + at) % RegCount /\ rx = Reg(at)
          /\ buf = [i \in 1 .. at - 1 |-> Reg(i)]
      BY <1>1, <1>4, <2>2 DEF IInv, ReadInv
    <3>5. ptr'[addr'] = (Start' + at') % RegCount /\ (rx = Reg(at))'
      BY <1>1, <1>4, <2>1, <3>4, SameByte DEF Reg
    <3>6. buf' = [i \in 1 .. (IF at' = 0 THEN 0 ELSE at' - 1) |-> Reg(i)']
      BY <1>1, <1>4, <2>2, <3>3, <3>4
    <3> QED
      BY <1>1, <1>4, <2>1, <2>2, <3>4, <3>5, <3>6 DEF ReadInv, Answered
  <2> QED
    BY <2>3, <2>4, <2>5, <2>6 DEF IInv
<1> QED
  BY <1>2, <1>3, <1>4 DEF Poll, Answered, Goto

LEMMA FetchKeeps == IInv /\ Fetch => IInv'
  BY ByteDoneKeeps DEF Fetch, GotByte


(* The register a call starts from is a byte.                              *)
LEMMA StartIsNat == Types /\ Length > 0 /\ stage = "write" => Start \in Nat
<1> SUFFICES ASSUME Types, Length > 0, stage = "write" PROVE Start \in Nat
  OBVIOUS
<1>1. /\ Len(Block(req)) > 0 /\ Len(Block(req)) \in Nat
      /\ \A i \in 1 .. Len(Block(req)) : Block(req)[i] \in Octets
  BY BlockBytes, LengthIsNat DEF Types, TypeOK
<1>2. 1 \in 1 .. Len(Block(req))
  BY <1>1
<1>3. Block(req)[1] \in Octets
  BY <1>1, <1>2
<1> QED
  BY <1>3 DEF Start, Octets

LEMMA ReadStart == Types /\ req.op = "read" => Start \in Nat
<1> SUFFICES ASSUME Types, req.op = "read" PROVE Start \in Nat
  OBVIOUS
<1>1. Len(Block(req)) = 1 /\ \A i \in 1 .. Len(Block(req)) : Block(req)[i] \in Octets
  BY BlockBytes DEF Types, TypeOK
<1> QED
  BY <1>1 DEF Start, Octets

(* What the core and the chips do leaves the client where it is.           *)
LEMMA BusFrame ==
  ASSUME IInv, doing \in Active, doing' \in {"none", "hung"},
         UNCHANGED <<client, ours, enabled, tx>>
  PROVE  /\ UNCHANGED <<pc, req, stage, addr, at, buf, found, out, ours, enabled, tx>>
         /\ pc = "poll" \/ (pc = "idle" /\ out = "bus_error")
         /\ out \in {"none", "bus_error"}
         /\ Length' = Length /\ (Stops' <=> Stops) /\ (Sends' <=> Sends) /\ Start' = Start
         /\ CoreInv' /\ CourseInv' /\ FormInv' /\ ByteInv' /\ HeldInv' /\ GivenBack'
<1>1. UNCHANGED <<pc, req, stage, addr, at, buf, found, out, ours, enabled, tx>>
  BY DEF client
<1>2. pc = "poll" \/ (pc = "idle" /\ out = "bus_error")
  BY DEF IInv, CourseInv
<1>3. out \in {"none", "bus_error"}
  BY <1>2 DEF IInv, CourseInv
<1>4. Length' = Length /\ (Stops' <=> Stops) /\ (Sends' <=> Sends) /\ Start' = Start
  BY <1>1, SameByte
<1>5. CoreInv' /\ FormInv'
  BY <1>1 DEF IInv, CoreInv, FormInv
<1>6. CourseInv' /\ ByteInv' /\ HeldInv'
  BY <1>1, <1>2 DEF IInv, CourseInv, ByteInv, HeldInv, Active
<1>7. GivenBack'
  BY <1>1, <1>3 DEF IInv, GivenBack, BusReleased, ScanFindsChips
<1> QED
  BY <1>1, <1>2, <1>3, <1>4, <1>5, <1>6, <1>7

LEMMA ChipAddressedKeeps ==
  ASSUME IInv, ChipAddressed, UNCHANGED <<client, ours, enabled, tx>>
  PROVE  IInv'
<1>1. doing = "start" /\ at = 0 /\ doing' = "none" /\ taken' = 0 /\ UNCHANGED <<ptr, regs, rx, lost>>
  BY DEF ChipAddressed, Finished, IInv, CourseInv
<1>3. /\ UNCHANGED <<pc, req, stage, addr, at, buf, found, out, ours, enabled, tx>>
      /\ pc = "poll" \/ (pc = "idle" /\ out = "bus_error")
      /\ Length' = Length /\ (Stops' <=> Stops) /\ (Sends' <=> Sends)
      /\ CoreInv' /\ CourseInv' /\ FormInv' /\ ByteInv' /\ HeldInv' /\ GivenBack'
  BY <1>1, BusFrame DEF Active
<1>4. tx \div 2 = addr /\ ~Stops /\ Sends
  <2>1. tx = 2 * addr \/ tx = 2 * addr + 1
    BY <1>1 DEF IInv, ByteInv, Sends, ByteOut, AddressByte, Active, Types, TypeOK
  <2>2. addr \in Nat
    BY DEF IInv, Types, TypeOK
  <2> QED
    BY <1>1, <2>1, <2>2 DEF Stops, Sends
<1>5. /\ ack' \in BOOLEAN /\ held' \in BOOLEAN /\ sel' \in Devices \cup {NoDevice}
      /\ ack' => addr \in Devices /\ sel' = addr
  BY <1>4 DEF ChipAddressed, Finished
<1>6. Types'
  BY <1>1, <1>3, <1>5 DEF IInv, Types, TypeOK
<1>7. ChipInv'
  BY <1>1, <1>3, <1>4, <1>5 DEF ChipInv, Answered, Active
<1>8. WriteInv'
  BY <1>1, <1>3 DEF WriteInv
<1>9. ReadInv'
  BY <1>1, <1>3, SameByte DEF IInv, ReadInv
<1> QED
  BY <1>3, <1>6, <1>7, <1>8, <1>9 DEF IInv

LEMMA ChipTakesKeeps ==
  ASSUME IInv, ChipTakes, UNCHANGED <<client, ours, enabled, tx>>
  PROVE  IInv'
<1>1. /\ doing = "send" /\ at > 0 /\ stage = "write" /\ doing' = "none" /\ ack' = TRUE
      /\ taken' = taken + 1 /\ UNCHANGED <<rx, lost>> /\ sel = addr /\ sel \in Devices
      /\ held' = ~Stops /\ sel' = (IF Stops THEN NoDevice ELSE sel)
  BY DEF ChipTakes, Finished, IInv, CourseInv, ChipInv, Active
<1>2. /\ UNCHANGED <<pc, req, stage, addr, at, buf, found, out, ours, enabled, tx>>
      /\ pc = "poll" \/ (pc = "idle" /\ out = "bus_error")
      /\ Length' = Length /\ (Stops' <=> Stops) /\ (Sends' <=> Sends) /\ Start' = Start
      /\ CoreInv' /\ CourseInv' /\ FormInv' /\ ByteInv' /\ HeldInv' /\ GivenBack'
  BY <1>1, BusFrame DEF Active
<1>3. /\ at \in 1 .. Len(Block(req)) /\ taken = at - 1 /\ taken \in Nat /\ tx = Block(req)[at]
      /\ at \in Nat /\ Length > 0
  BY <1>1, LengthIsNat DEF IInv, Types, TypeOK, WriteInv, ByteInv, Sends, ByteOut, Active
<1>4. Start \in Nat
  BY <1>1, <1>3, StartIsNat DEF IInv
<1>5. ptr \in [Devices -> 0 .. RegCount - 1] /\ regs \in [Devices -> [0 .. RegCount - 1 -> Bytes]]
  BY DEF IInv, Types, TypeOK
<1>6. /\ ptr' \in [Devices -> 0 .. RegCount - 1]
      /\ regs' \in [Devices -> [0 .. RegCount - 1 -> Bytes]]
      /\ ptr'[addr] = (Start + taken' - 1) % RegCount
  <2>1. CASE taken = 0
    <3>0. ptr' = [ptr EXCEPT ![addr] = tx % RegCount] /\ regs' = regs
      BY <1>1, <2>1 DEF ChipTakes
    <3>1. ptr' = [ptr EXCEPT ![addr] = tx % RegCount] /\ regs' = regs /\ tx = Start
      <4>1. at = 1
        BY <1>3, <2>1
      <4> QED
        BY <1>3, <3>0, <4>1 DEF Start
    <3>2. tx % RegCount \in 0 .. RegCount - 1
      BY <1>4, <3>1, CountsRound, BusAssumption
    <3>3. ptr' \in [Devices -> 0 .. RegCount - 1] /\ ptr'[addr] = Start % RegCount
      BY <1>1, <1>5, <3>1, <3>2
    <3>4. Start + taken' - 1 = Start
      BY <1>1, <1>4, <2>1
    <3> QED
      BY <1>5, <3>1, <3>3, <3>4
  <2>2. CASE taken # 0
    <3>1. /\ ptr' = [ptr EXCEPT ![addr] = (ptr[addr] + 1) % RegCount]
          /\ regs' = [regs EXCEPT ![addr][ptr[addr]] = tx]
      BY <1>1, <2>2 DEF ChipTakes
    <3>2. tx \in Bytes
      BY <1>3, <2>2, BlockBytes DEF IInv, Types, TypeOK
    <3>3. ptr[addr] = (Start + taken - 1) % RegCount /\ Start + taken - 1 \in Nat
      BY <1>1, <1>3, <1>4, <2>2 DEF IInv, WriteInv
    <3>4. (ptr[addr] + 1) % RegCount = (Start + taken - 1 + 1) % RegCount
          /\ (Start + taken - 1 + 1) % RegCount \in 0 .. RegCount - 1
      <4> DEFINE a == Start + taken - 1
      <4>1. a \in Nat /\ a + 1 \in Nat /\ ptr[addr] = a % RegCount
        BY <3>3
      <4> HIDE DEF a
      <4>2. (ptr[addr] + 1) % RegCount = (a + 1) % RegCount
            /\ (a + 1) % RegCount \in 0 .. RegCount - 1
        BY <4>1, CountsRound, BusAssumption
      <4> QED
        BY <4>2 DEF a
    <3>5. Start + taken - 1 + 1 = Start + taken' - 1
      BY <1>1, <1>3, <1>4
    <3>6. ptr' \in [Devices -> 0 .. RegCount - 1] /\ ptr'[addr] = (ptr[addr] + 1) % RegCount
      BY <1>1, <1>5, <3>1, <3>4
    <3>7. regs' \in [Devices -> [0 .. RegCount - 1 -> Bytes]]
      BY <1>1, <1>5, <3>1, <3>2
    <3> QED
      BY <3>4, <3>5, <3>6, <3>7
  <2> QED
    BY <2>1, <2>2
<1>7. Types'
  <2>1. sel' \in Devices \cup {NoDevice} /\ held' \in BOOLEAN /\ taken' \in Nat
    BY <1>1, <1>3
  <2> QED
    BY <1>1, <1>2, <1>6, <2>1 DEF IInv, Types, TypeOK
<1>8. ChipInv'
  BY <1>1, <1>2 DEF ChipInv, Answered, Active
<1>9. WriteInv'
  BY <1>1, <1>2, <1>3, <1>6 DEF WriteInv
<1>10. ReadInv'
  BY <1>1, <1>2 DEF ReadInv
<1> QED
  BY <1>2, <1>7, <1>8, <1>9, <1>10 DEF IInv

LEMMA ChipRefusesKeeps ==
  ASSUME IInv, ChipRefuses, UNCHANGED <<client, ours, enabled, tx>>
  PROVE  IInv'
<1>1. /\ doing = "send" /\ at > 0 /\ stage = "write" /\ doing' = "none" /\ ack' = FALSE
      /\ UNCHANGED <<taken, ptr, regs, rx, lost>>
      /\ held' = ~Stops /\ sel' = (IF Stops THEN NoDevice ELSE sel)
  BY DEF ChipRefuses, Finished, IInv, CourseInv
<1>2. /\ UNCHANGED <<pc, req, stage, addr, at, buf, found, out, ours, enabled, tx>>
      /\ pc = "poll" \/ (pc = "idle" /\ out = "bus_error")
      /\ Length' = Length /\ (Stops' <=> Stops) /\ (Sends' <=> Sends) /\ Start' = Start
      /\ CoreInv' /\ CourseInv' /\ FormInv' /\ ByteInv' /\ HeldInv' /\ GivenBack'
  BY <1>1, BusFrame DEF Active
<1>3. Types'
  <2>1. sel' \in Devices \cup {NoDevice} /\ held' \in BOOLEAN
    BY <1>1 DEF IInv, Types, TypeOK
  <2>2. TypeOK'
    BY <1>1, <1>2, <2>1 DEF IInv, Types, TypeOK
  <2>3. ack' \in BOOLEAN /\ lost' \in BOOLEAN /\ taken' \in Nat
    BY <1>1 DEF IInv, Types
  <2> QED
    BY <1>2, <2>1, <2>2, <2>3 DEF IInv, Types
<1>4. ~Answered'
  BY <1>1, <1>2 DEF Answered, Sends
<1>5. ChipInv'
  BY <1>1, <1>2, <1>4 DEF IInv, ChipInv, Active
<1>6. WriteInv' /\ ReadInv'
  BY <1>1, <1>2, <1>4 DEF IInv, WriteInv, ReadInv
<1> QED
  BY <1>2, <1>3, <1>5, <1>6 DEF IInv

LEMMA ChipGivesKeeps ==
  ASSUME IInv, ChipGives, UNCHANGED <<client, ours, enabled, tx>>
  PROVE  IInv'
<1>1. /\ doing = "receive" /\ at > 0 /\ stage # "write" /\ doing' = "none"
      /\ UNCHANGED <<ack, taken, regs, lost>> /\ sel = addr /\ sel \in Devices
      /\ rx' = regs[addr][ptr[addr]] /\ ptr' = [ptr EXCEPT ![addr] = (ptr[addr] + 1) % RegCount]
      /\ held' = ~Stops /\ sel' = (IF Stops THEN NoDevice ELSE sel)
  BY DEF ChipGives, Finished, IInv, CourseInv, ChipInv, Active
<1>2. /\ UNCHANGED <<pc, req, stage, addr, at, buf, found, out, ours, enabled, tx>>
      /\ pc = "poll" \/ (pc = "idle" /\ out = "bus_error")
      /\ Length' = Length /\ (Stops' <=> Stops) /\ (Sends' <=> Sends) /\ Start' = Start
      /\ CoreInv' /\ CourseInv' /\ FormInv' /\ ByteInv' /\ HeldInv' /\ GivenBack'
  BY <1>1, BusFrame DEF Active
<1>3. /\ ptr \in [Devices -> 0 .. RegCount - 1]
      /\ regs \in [Devices -> [0 .. RegCount - 1 -> Bytes]] /\ at \in Nat
  BY LengthIsNat DEF IInv, Types, TypeOK
<1>4. (ptr[addr] + 1) % RegCount \in 0 .. RegCount - 1
  <2>1. ptr[addr] + 1 \in Nat
    BY <1>1, <1>3
  <2> QED
    BY <2>1, CountsRound, BusAssumption
<1>5. /\ ptr' \in [Devices -> 0 .. RegCount - 1] /\ ptr'[addr] = (ptr[addr] + 1) % RegCount
      /\ rx' \in Bytes
  BY <1>1, <1>3, <1>4
<1>6. Types'
  <2>1. sel' \in Devices \cup {NoDevice} /\ held' \in BOOLEAN
    BY <1>1
  <2> QED
    BY <1>1, <1>2, <1>5, <2>1 DEF IInv, Types, TypeOK
<1>7. ChipInv'
  BY <1>1, <1>2 DEF ChipInv, Active
<1>8. WriteInv'
  BY <1>1, <1>2 DEF WriteInv
<1>9. ReadInv'
  <2> SUFFICES ASSUME stage = "read", req.op = "read" PROVE ReadInv'
    BY <1>2 DEF ReadInv
  <2>1. /\ ptr[addr] = (Start + at - 1) % RegCount
        /\ pc # "idle" => buf = [i \in 1 .. at - 1 |-> Reg(i)]
    BY <1>1 DEF IInv, ReadInv
  <2>2. ptr'[addr] = (Start + at) % RegCount
    <3>1. Start + at - 1 \in Nat /\ Start + at - 1 + 1 = Start + at
      BY <1>1, <1>3, ReadStart DEF IInv
    <3> QED
      BY <1>5, <2>1, <3>1, CountsRound, BusAssumption
  <2>3. rx' = Reg(at)
    BY <1>1, <2>1 DEF Reg
  <2>4. pc' # "idle" => buf' = [i \in 1 .. at - 1 |-> Reg(i)']
    BY <1>1, <1>2, <2>1, SameByte DEF Reg
  <2> QED
    BY <1>1, <1>2, <2>2, <2>3, <2>4, SameByte DEF ReadInv, Reg
<1> QED
  BY <1>2, <1>6, <1>7, <1>8, <1>9 DEF IInv

LEMMA CoreFailsKeeps ==
  ASSUME IInv, CoreFails, UNCHANGED <<client, ours, enabled, tx>>
  PROVE  IInv'
<1>1. /\ doing \in Active /\ doing' \in {"none", "hung"} /\ lost' \in BOOLEAN
      /\ doing' = "none" => lost' = TRUE
      /\ UNCHANGED <<ack, rx, held, taken, ptr, regs>> /\ sel' = NoDevice
  BY DEF CoreFails, Active, IInv, Types
<1>2. /\ UNCHANGED <<pc, req, stage, addr, at, buf, found, out, ours, enabled, tx>>
      /\ pc = "poll" \/ (pc = "idle" /\ out = "bus_error")
      /\ Length' = Length /\ (Stops' <=> Stops) /\ (Sends' <=> Sends) /\ Start' = Start
      /\ CoreInv' /\ CourseInv' /\ FormInv' /\ ByteInv' /\ HeldInv' /\ GivenBack'
  BY <1>1, BusFrame
<1>3. Types'
  BY <1>1, <1>2 DEF IInv, Types, TypeOK
<1>4. ~Answered' /\ doing' \notin Active
  BY <1>1 DEF Answered, Active
<1>5. ChipInv' /\ WriteInv'
  BY <1>1, <1>2, <1>4 DEF IInv, ChipInv, WriteInv, Active
<1>6. ReadInv'
  BY <1>1, <1>2, <1>4, SameByte DEF IInv, ReadInv, Active
<1> QED
  BY <1>2, <1>3, <1>5, <1>6 DEF IInv


LEMMA StepKeeps == EnableSucceeds /\ IInv /\ [Next]_vars => IInv'
<1> SUFFICES ASSUME EnableSucceeds, IInv, [Next]_vars PROVE IInv'
  OBVIOUS
<1>1. CASE \E r \in Requests : Call(r)
  BY <1>1, CallKeeps
<1>2. CASE \/ Reset \/ Clear \/ Disable \/ SetPrescale \/ Enable \/ WriteTx \/ Command
  BY <1>2, CoreStepKeeps
<1>3. CASE Poll
  BY <1>3, PollKeeps
<1>4. CASE Fetch
  BY <1>4, FetchKeeps
<1>5. CASE BusError
  BY <1>5, BusErrorKeeps
<1>6. CASE Bus
  BY <1>6, ChipAddressedKeeps, ChipTakesKeeps, ChipRefusesKeeps, ChipGivesKeeps, CoreFailsKeeps
     DEF Bus
<1>7. CASE UNCHANGED vars
  <2>1. UNCHANGED <<req, stage, addr, at>> /\ UNCHANGED regs
    BY <1>7 DEF vars
  <2>2. Types' /\ CoreInv' /\ CourseInv' /\ FormInv'
    BY <1>7, <2>1, SameByte DEF vars, IInv, Types, TypeOK, CoreInv, CourseInv, FormInv
  <2>3. ByteInv' /\ ChipInv' /\ WriteInv'
    BY <1>7, <2>1, SameByte DEF vars, IInv, ByteInv, ChipInv, WriteInv, Answered
  <2>4. ReadInv'
    BY <1>7 DEF vars, IInv, ReadInv, Answered, Sends, Reg, Start
  <2>5. HeldInv' /\ GivenBack'
    BY <1>7, <2>1, SameByte DEF vars, IInv, HeldInv, GivenBack, BusReleased, ScanFindsChips
  <2> QED
    BY <2>2, <2>3, <2>4, <2>5 DEF IInv
<1> QED
  BY <1>1, <1>2, <1>3, <1>4, <1>5, <1>6, <1>7 DEF Next, Step

LEMMA AlwaysIInv == EnableSucceeds => (Spec => []IInv)
<1> SUFFICES ASSUME EnableSucceeds PROVE Spec => []IInv
  OBVIOUS
<1>1. Init => IInv
  BY StartInv
<1>2. IInv /\ [Next]_vars => IInv'
  BY StepKeeps
<1> QED
  BY <1>1, <1>2, PTL DEF Spec

(* As long as the dispatch that enables the core does not fail, and what-  *)
(* ever fails elsewhere between two dispatches: the calls that return give *)
(* the bus back, a scan makes up no chip, and no byte goes through a       *)
(* disabled core (I2CMasterNode's send_i2c_command_and_data, scan and      *)
(* reset).                                                                 *)
THEOREM BusIsReleased == EnableSucceeds => (Spec => []BusInv)
<1>1. IInv => BusInv
  BY DEF IInv, GivenBack, CoreInv, BusInv, ResetEnablesCore
<1> QED
  BY <1>1, AlwaysIInv, PTL

(* As long as the dispatch that enables the core does not fail, no byte is *)
(* transferred through a disabled core (I2CMasterNode's reset, which       *)
(* enables it only where it finds another prescale).                       *)
THEOREM CoreIsEnabled == EnableSucceeds => (Spec => [](TypeOK /\ ResetEnablesCore))
<1>1. IInv => TypeOK /\ ResetEnablesCore
  BY DEF IInv, Types, CoreInv, ResetEnablesCore
<1> QED
  BY <1>1, AlwaysIInv, PTL

-----------------------------------------------------------------------------
(* What a call means, where it writes ...                                  *)
LEMMA MeansWrite ==
  ASSUME NEW r \in Requests \cup {NoRequest}, r.op = "write" \/ (r.op = "put" /\ r.data # <<>>)
  PROVE  /\ Meaning(r).op = "write" /\ Meaning(r).addr = r.addr
         /\ Meaning(r).reg = Block(r)[1] /\ Len(Meaning(r).data) \in Nat
         /\ Len(Block(r)) = Len(Meaning(r).data) + 1
         /\ \A i \in 1 .. Len(Meaning(r).data) : Meaning(r).data[i] = Block(r)[i + 1]
<1>1. r.data \in Seq(Bytes)
  BY RequestFields
<1>2. CASE r.op = "write"
  BY <1>1, <1>2, BlockBytes, LenProperties DEF Meaning
<1>3. CASE r.op = "put" /\ r.data # <<>>
  <2>1. Meaning(r) = [op |-> "write", addr |-> r.addr, reg |-> Head(r.data),
                      data |-> Tail(r.data), n |-> 0]
    BY <1>3 DEF Meaning
  <2>2. /\ Head(r.data) = r.data[1] /\ Len(Tail(r.data)) = Len(r.data) - 1
        /\ Len(r.data) \in Nat \ {0}
        /\ \A i \in 1 .. Len(Tail(r.data)) : Tail(r.data)[i] = r.data[i + 1]
    BY <1>1, <1>3, HeadTailProperties, LenProperties, EmptySeq
  <2>3. Block(r) = r.data
    BY <1>3 DEF Block
  <2> QED
    BY <2>1, <2>2, <2>3
<1> QED
  BY <1>2, <1>3

(* ... and where it does not.                                              *)
LEMMA MeansItself ==
  ASSUME NEW r \in Requests \cup {NoRequest}, ~(r.op = "write" \/ (r.op = "put" /\ r.data # <<>>))
  PROVE  /\ Meaning(r).op = r.op /\ Meaning(r).op # "write" /\ Meaning(r).addr = r.addr
         /\ Meaning(r).reg = LowByte(r.reg) /\ Meaning(r).n = r.n
  BY DEF Meaning

(* How many bytes the call has written.                                    *)
Done == IF req.op \in {"write", "put"} /\ at > 0 /\ taken > 0 THEN taken - 1 ELSE 0

(* A write that returns is whole, and a read returns what is there.        *)
LEMMA ReturnsWhole ==
  ASSUME IInv, Sent \/ GotByte, at = Length, ~(stage = "write" /\ req.op = "read"),
         pc' = "idle", out' = "ok", UNCHANGED <<req, stage, addr, at, taken, regs>>
  PROVE  File!Return
<1>1. pc # "idle" /\ req \in Requests \cup {NoRequest} /\ Length \in Nat
  BY LengthIsNat DEF Sent, GotByte, IInv, Types, TypeOK
<1>2. Meaning(req).op = "write" => Done = Len(Meaning(req).data)
  <2> SUFFICES ASSUME Meaning(req).op = "write" PROVE Done = Len(Meaning(req).data)
    OBVIOUS
  <2>1. req.op = "write" \/ (req.op = "put" /\ req.data # <<>>)
    BY <1>1, MeansItself
  <2>2. Len(Block(req)) = Len(Meaning(req).data) + 1 /\ Len(Meaning(req).data) \in Nat
    BY <1>1, <2>1, MeansWrite
  <2>3. stage = "write" /\ Length = Len(Block(req))
    BY <2>1, LengthIsNat DEF IInv, FormInv, Types, TypeOK
  <2>4. Sent /\ taken = at
    BY <2>3 DEF Sent, GotByte, IInv, CourseInv, WriteInv
  <2> QED
    BY <2>1, <2>2, <2>3, <2>4 DEF Done
<1>3. ASSUME Meaning(req).op = "read"
      PROVE  /\ Meaning(req).addr \in Devices
             /\ buf' = [i \in 1 .. Meaning(req).n |-> regs[Meaning(req).addr][File!Nth(Meaning(req), i)]]
  <2>1. /\ req.op = "read" /\ Meaning(req).addr = req.addr /\ Meaning(req).n = req.n
        /\ Meaning(req).reg = Start
    BY <1>1, <1>3, MeansWrite, MeansItself, BlockBytes DEF Start
  <2>2. stage = "read" /\ req.n = Length /\ addr = req.addr /\ addr \in Devices
    BY <2>1, LengthIsNat DEF IInv, FormInv, Types, TypeOK, ReadInv
  <2>3. buf' = [i \in 1 .. at |-> Reg(i)]
    <3>1. CASE Sent
      <4>1. at = 0
        BY <1>1, <2>2, <3>1 DEF Sent, Sends, IInv, Types, TypeOK
      <4>2. buf' = <<>>
        BY <2>2, <3>1, <4>1, EmptySeq DEF Sent, IInv, FormInv, Types
      <4>3. [i \in 1 .. at |-> Reg(i)] = <<>>
        BY <4>1
      <4> QED
        BY <4>2, <4>3
    <3>2. CASE GotByte
      BY <2>1, <2>2, <3>2, Fetched DEF GotByte
    <3> QED
      BY <3>1, <3>2
  <2> QED
    BY <2>1, <2>2, <2>3 DEF Reg, File!Nth
<1> QED
  BY <1>1, <1>2, <1>3 DEF File!Return, Done

(* A byte more reaches its register.                                       *)
LEMMA TakesByte ==
  ASSUME IInv, ChipTakes, UNCHANGED <<client, ours, enabled, tx>>
  PROVE  File!Put \/ UNCHANGED <<regs, Done>>
<1>1. /\ doing = "send" /\ at > 0 /\ stage = "write" /\ sel = addr /\ sel \in Devices
      /\ taken' = taken + 1 /\ UNCHANGED <<pc, req, stage, addr, at, buf, out>>
  BY DEF ChipTakes, Finished, IInv, CourseInv, ChipInv, Active, client
<1>2. /\ at \in 1 .. Len(Block(req)) /\ taken = at - 1 /\ taken \in Nat /\ tx = Block(req)[at]
      /\ at \in Nat /\ req \in Requests \cup {NoRequest} /\ Len(Block(req)) \in Nat
  BY <1>1, LengthIsNat DEF IInv, Types, TypeOK, WriteInv, ByteInv, Sends, ByteOut, Active
<1>3. CASE taken = 0
  <2>1. UNCHANGED regs
    BY <1>1, <1>3 DEF ChipTakes
  <2>2. taken' = 1 /\ Done = 0 /\ Done' = 0
    BY <1>1, <1>3 DEF Done
  <2> QED
    BY <2>1, <2>2
<1>4. CASE taken # 0
  <2>1. regs' = [regs EXCEPT ![addr][ptr[addr]] = tx] /\ ptr[addr] = (Start + taken - 1) % RegCount
    BY <1>1, <1>2, <1>4 DEF ChipTakes, IInv, WriteInv
  <2>2. req.op \in {"write", "put"} /\ req.addr = addr
    <3>1. req.op \in {"write", "read", "put"} /\ req.addr = addr
      BY <1>1 DEF IInv, FormInv
    <3>2. req.op # "read"
      BY <1>2, <1>4, BlockBytes
    <3> QED
      BY <3>1, <3>2
  <2>3. req.op = "write" \/ (req.op = "put" /\ req.data # <<>>)
    <3>1. ASSUME req.op = "put", req.data = <<>> PROVE FALSE
      BY <1>2, <3>1, BlockBytes
    <3> QED
      BY <2>2, <3>1
  <2>4. /\ Meaning(req).op = "write" /\ Meaning(req).addr = addr /\ Meaning(req).reg = Start
        /\ Len(Block(req)) = Len(Meaning(req).data) + 1 /\ Len(Meaning(req).data) \in Nat
        /\ \A i \in 1 .. Len(Meaning(req).data) : Meaning(req).data[i] = Block(req)[i + 1]
    BY <1>2, <2>2, <2>3, MeansWrite DEF Start
  <2>5. Done = taken - 1 /\ Done' = taken /\ Done' = Done + 1 /\ taken \in 1 .. Len(Meaning(req).data)
    BY <1>1, <1>2, <1>4, <2>2, <2>4 DEF Done
  <2>6. Meaning(req).data[Done'] = tx
    BY <1>2, <2>4, <2>5
  <2>7. File!Nth(Meaning(req), Done') = ptr[addr]
    BY <2>1, <2>4, <2>5 DEF File!Nth
  <2>8. pc # "idle" \/ out # "ok"
    BY <1>1 DEF IInv, CourseInv, Active
  <2>9. File!Put
    <3>1. regs' = [regs EXCEPT ![Meaning(req).addr][File!Nth(Meaning(req), Done')] = Meaning(req).data[Done']]
      BY <2>1, <2>4, <2>6, <2>7
    <3> QED
      BY <1>1, <2>4, <2>5, <2>8, <3>1 DEF File!Put, Done
  <2> QED
    BY <2>9
<1> QED
  BY <1>3, <1>4

(* The client goes on, or its call ends.                                   *)
LEMMA GoesOn ==
  ASSUME IInv, Sent \/ GotByte, ByteDone, UNCHANGED <<req, core, chips>>
  PROVE  File!Return \/ File!Collect
<1>1. /\ pc \in {"poll", "fetch"} /\ UNCHANGED <<req, taken, regs>>
      /\ req \in Requests \cup {NoRequest} /\ stage \in {"write", "read", "probe"}
      /\ at \in Nat /\ taken \in Nat
  BY LengthIsNat DEF Sent, GotByte, chips, IInv, Types, TypeOK
<1>2. req.op \in {"write", "put"} => Sent /\ stage = "write" /\ taken = at
  BY <1>1 DEF IInv, FormInv, CourseInv, WriteInv, Sent, GotByte
<1>3. CASE at # Length
  <2>1. at' = at + 1 /\ pc' \in {"tx", "cmd"} /\ UNCHANGED out
    BY <1>3 DEF ByteDone, Goto
  <2>2. UNCHANGED Done
    BY <1>1, <1>2, <2>1 DEF Done
  <2> QED
    BY <1>1, <2>1, <2>2 DEF File!Collect, Done
<1>4. CASE at = Length /\ stage = "write" /\ req.op = "read"
  <2>1. pc' = "reset" /\ UNCHANGED out
    BY <1>4 DEF ByteDone, BlockDone, Goto
  <2> QED
    BY <1>1, <1>4, <2>1 DEF File!Collect
<1>5. CASE at = Length /\ req.op = "scan" /\ addr # LastAddress
  <2>1. pc' = "tx" /\ UNCHANGED out
    BY <1>5 DEF ByteDone, BlockDone, Goto
  <2> QED
    BY <1>1, <1>5, <2>1 DEF File!Collect
<1>6. CASE /\ at = Length /\ ~(stage = "write" /\ req.op = "read")
           /\ ~(req.op = "scan" /\ addr # LastAddress)
  <2>1. pc' = "idle" /\ out' = "ok" /\ UNCHANGED <<stage, addr, at>>
    BY <1>6 DEF ByteDone, BlockDone, Ends, Goto
  <2> QED
    BY <1>1, <1>6, <2>1, ReturnsWhole
<1> QED
  BY <1>3, <1>4, <1>5, <1>6

LEMMA FailureThrows ==
  ASSUME IInv, pc = "poll", NEW why \in {"no_ack", "lost", "timeout", "still_busy"}, Fails(why),
         UNCHANGED <<req, buf, core, chips>>
  PROVE  File!Return \/ File!Throw \/ File!Collect
<1>1. UNCHANGED <<req, taken, regs, buf>> /\ req \in Requests \cup {NoRequest}
  BY DEF chips, IInv, Types, TypeOK
<1>2. CASE req.op = "scan" /\ addr # LastAddress
  <2>1. pc' = "tx" /\ UNCHANGED out
    BY <1>2 DEF Fails, Goto
  <2> QED
    BY <1>1, <1>2, <2>1 DEF File!Collect
<1>3. CASE req.op = "scan" /\ addr = LastAddress
  <2>1. pc' = "idle" /\ out' = "ok" /\ UNCHANGED at
    BY <1>3 DEF Fails, Ends, Goto
  <2>2. Meaning(req).op = "scan"
    BY <1>1, <1>3, MeansItself
  <2> QED
    BY <1>1, <2>1, <2>2 DEF File!Return
<1>4. CASE req.op # "scan"
  <2>1. pc' = "idle" /\ out' # "ok" /\ UNCHANGED at
    BY <1>4 DEF Fails, Ends, Goto
  <2> QED
    BY <1>1, <2>1 DEF File!Throw
<1> QED
  BY <1>2, <1>3, <1>4

(* Every step of the master and the chips is one of the register file.     *)
LEMMA StepsAreFileSteps ==
  ASSUME IInv, [Next]_vars
  PROVE  [File!FNext]_(File!fileVars)
<1>1. CASE \E r \in Requests : Call(r)
  <2>1. pc = "idle" /\ pc' # "idle" /\ at' = 0 /\ UNCHANGED regs
    BY <1>1 DEF Call, Goto, chips
  <2>2. File!Begin
    BY <2>1 DEF File!Begin
  <2> QED
    BY <2>2 DEF File!FNext
<1>2. CASE \/ Reset \/ Clear \/ Disable \/ SetPrescale \/ Enable \/ WriteTx \/ Command
  <2>1. pc # "idle" /\ pc' # "idle" /\ UNCHANGED <<req, at, taken, out, regs>>
    BY <1>2 DEF Reset, Clear, Disable, SetPrescale, Enable, WriteTx, Command, Goto, chips
  <2>2. File!Collect
    BY <2>1 DEF File!Collect
  <2> QED
    BY <2>2 DEF File!FNext
<1>3. CASE Poll
  <2>1. CASE \/ Fails("timeout") \/ Fails("lost") \/ Fails("no_ack") \/ Fails("still_busy")
    BY <1>3, <2>1, FailureThrows DEF Poll, File!FNext
  <2>2. CASE Answered /\ (Stops => ~held) /\ Sends /\ ByteDone
    BY <1>3, <2>2, GoesOn DEF Poll, Sent, File!FNext
  <2>3. CASE pc' = "fetch" /\ UNCHANGED <<stage, addr, at, found, out>>
    <3>1. File!Collect
      BY <1>3, <2>3 DEF Poll, chips, File!Collect
    <3> QED
      BY <3>1 DEF File!FNext
  <2> QED
    BY <1>3, <2>1, <2>2, <2>3 DEF Poll, Answered, Goto
<1>4. CASE Fetch
  BY <1>4, GoesOn DEF Fetch, GotByte, File!FNext
<1>5. CASE BusError
  <2>1. File!Throw
    BY <1>5 DEF BusError, Ends, Goto, chips, File!Throw
  <2> QED
    BY <2>1 DEF File!FNext
<1>6. CASE Bus
  <2>1. UNCHANGED <<pc, req, at, buf, out>>
    BY <1>6 DEF Bus, client
  <2>2. CASE ChipTakes
    <3>1. File!Put \/ UNCHANGED <<regs, Done>>
      BY <1>6, <2>2, TakesByte DEF Bus
    <3> QED
      BY <2>1, <3>1 DEF File!FNext, File!fileVars, Done
  <2>3. CASE ChipAddressed
    <3>1. at = 0 /\ UNCHANGED regs
      BY <2>3 DEF ChipAddressed, IInv, CourseInv
    <3> QED
      BY <2>1, <3>1 DEF File!fileVars
  <2>4. CASE ChipRefuses \/ ChipGives \/ CoreFails
    BY <2>1, <2>4 DEF ChipRefuses, ChipGives, CoreFails, File!fileVars
  <2> QED
    BY <1>6, <2>2, <2>3, <2>4 DEF Bus
<1>7. CASE UNCHANGED vars
  BY <1>7 DEF vars, File!fileVars
<1> QED
  BY <1>1, <1>2, <1>3, <1>4, <1>5, <1>6, <1>7 DEF Next, Step

(* The I2C master is a register file to a caller that has the bus to       *)
(* itself: writes that return are whole, those that fail a beginning of    *)
(* it, reads return what is there (I2CMasterNode's read_i2cArray and       *)
(* write_i2cArray).                                                        *)
THEOREM MasterIsRegisterFile == EnableSucceeds => (Spec => FileSpec)
<1> SUFFICES ASSUME EnableSucceeds PROVE Spec => FileSpec
  OBVIOUS
<1>1. Init => File!FInit
  BY DEF Init, File!FInit
<1>2. IInv /\ [Next]_vars => [File!FNext]_(File!fileVars)
  BY StepsAreFileSteps
<1>3. Spec => []IInv
  BY AlwaysIInv
<1> QED
  BY <1>1, <1>2, <1>3, PTL DEF Spec, FileSpec, File!FSpec
=============================================================================
