---------------------------- MODULE AsyncPackets ----------------------------
(***************************************************************************)
(* What the master writes into its buffer of asynchronous commands, word   *)
(* by word, and what it makes of the replies: transmit_async_packet of     *)
(* MasterNode and the calls that use it.  When packets are sent, and what  *)
(* their callers do about lasers and lost replies, is in EndpointLink.     *)
(***************************************************************************)
EXTENDS NodeCalls

CONSTANTS
  Present,  \* the addresses of the endpoints that hear the master
  RegSpace  \* the registers they have, 0 .. 127

Octets == 0 .. 255
Addresses == 0 .. 65535   \* two octets
FineDelays == 0 .. 4095   \* an octet and a half

(* The calls, with arguments for which there is room in a packet.          *)
AsyncRequest(r) ==
  /\ r.addr \in Addresses
  /\ \/ r.op = "switch_endpoint_sfp" /\ r.on \in BOOLEAN
     \/ r.op = "apply_endpoint_delay" /\ r.coarse \in 0 .. 15 /\ r.fine \in FineDelays
     \/ /\ r.op = "write_endpoint_data"
        /\ r.reg \in 0 .. 127 /\ r.mode \in 0 .. 1
        /\ r.data \in Seq(Octets) /\ Len(r.data) \in 1 .. 63
     \/ /\ r.op = "read_endpoint_data"
        /\ r.reg \in 0 .. 127 /\ r.mode \in 0 .. 1 /\ r.len \in 1 .. 63
     \/ /\ r.op = "configure_endpoint_command_decoder"
        /\ r.slot \in 0 .. 31 /\ r.command \in Octets

ASSUME AsyncAssumption == \A c \in Callers : \A r \in Asks["acmd"][c] : AsyncRequest(r)

VARIABLES
  acmd_buf,   \* the buffer: its flags, stat, and the words of the reply
  ep_regs,    \* per endpoint: its registers
  understood, \* per caller: who took its packet for what, and answered what
  reply       \* per caller: what its call returned

asyncBufVars == <<acmd_buf, ep_regs, understood, reply>>

NotHeard == [by |-> -1, ts |-> <<>>, answer |-> <<>>]

AsyncInit ==
  /\ acmd_buf = [stat |-> "none", words |-> <<>>]
  /\ ep_regs = [a \in Present |-> [r \in RegSpace |-> 0]]
  /\ understood = [c \in Callers |-> NotHeard]
  /\ reply = [c \in Callers |-> <<>>]

AsyncCall(c, r) ==
  /\ node = "acmd"
  /\ Begin(c, r, "acmd_tx")
  /\ understood' = [understood EXCEPT ![c] = NotHeard]
  /\ reply' = [reply EXCEPT ![c] = <<>>]
  /\ UNCHANGED <<acmd_buf, ep_regs>>

-----------------------------------------------------------------------------
(* All packets have the same sequence number.                              *)
Sequence == 171
Header(address) == << address % 256, address \div 256, Sequence >>

(* A transaction: register, direction, mode of the address and length in   *)
(* two words, and the data.                                                *)
WriteTo(reg, mode, data) == << 128 + reg, (128 * mode) + (Len(data) % 64) >> \o data
ReadFrom(reg, mode, len) == << reg, (128 * mode) + (len % 64) >>

(* Mutant of Closed: the mark takes the place of the word.                 *)
ClosedOver(packet) == [packet EXCEPT ![Len(packet)] = 256]

(* Bit 8 marks the last word.                                              *)
Closed(packet) == [packet EXCEPT ![Len(packet)] = @ + 256]

(* The packets of the calls.  The delay lies across two registers, after   *)
(* it 3 for "skew done" and 4 for a resync are written.                    *)
SwitchPacket(r) == Header(r.addr) \o WriteTo(112, 1, << IF r.on THEN 1 ELSE 0 >>)

DelayPacket(r) ==
  Header(r.addr)
    \o WriteTo(114, 1, << (16 * (r.fine % 16)) + (r.coarse % 16) >>)
    \o WriteTo(115, 1, << (r.fine \div 16) % 256 >>)
    \o WriteTo(112, 1, <<3>>) \o WriteTo(112, 1, <<4>>)

WritePacket(r) == Header(r.addr) \o WriteTo(r.reg, r.mode, r.data)
ReadPacket(r) == Header(r.addr) \o ReadFrom(r.reg, r.mode, r.len)
DecoderPacket(r) == Header(r.addr) \o WriteTo(96 + r.slot, 1, <<r.command>>)

Packet(r) == Closed(CASE r.op = "switch_endpoint_sfp"  -> SwitchPacket(r)
                      [] r.op = "apply_endpoint_delay" -> DelayPacket(r)
                      [] r.op = "write_endpoint_data"  -> WritePacket(r)
                      [] r.op = "read_endpoint_data"   -> ReadPacket(r)
                      [] r.op = "configure_endpoint_command_decoder" -> DecoderPacket(r))

(* The first two wait for no reply.                                        *)
Awaits(r) == r.op \notin {"switch_endpoint_sfp", "apply_endpoint_delay"}

-----------------------------------------------------------------------------
(* How an endpoint understands a packet: up to the first word that is      *)
(* marked, one transaction after the other.                                *)
Marked(packet) == {i \in DOMAIN packet : packet[i] >= 256}
UpToMark(packet) ==
  SubSeq(packet, 1, CHOOSE i \in Marked(packet) : \A j \in Marked(packet) : i <= j)

TransactionAt(w, i) ==
  LET write == w[i] >= 128
      len == w[i + 1] % 64
  IN  [write |-> write, reg |-> w[i] % 128, mode |-> w[i + 1] \div 128, len |-> len,
       data |-> IF write THEN SubSeq(w, i + 2, i + 1 + len) ELSE <<>>]

(* Those from word i on, for each i.                                       *)
Parsed(w) ==
  LET from[i \in 4 .. Len(w) + 65] ==
        IF i >= Len(w) THEN <<>>
        ELSE << TransactionAt(w, i) >> \o from[i + 2 + Len(TransactionAt(w, i).data)]
  IN  from

Transactions(packet) ==
  Parsed([i \in DOMAIN UpToMark(packet) |-> packet[i] % 256])[4]

Addressee(packet) == packet[1] + (256 * packet[2])

(* Mode 1 counts the register up from word to word, mode 0 does not.       *)
Register(t, i) == t.reg + (t.mode * (i - 1))

(* The writes of the first n transactions, one after the other, for each n.*)
WritesIn(t) == [i \in DOMAIN t.data |-> <<Register(t, i), t.data[i]>>]

WritesUpTo(ts) ==
  LET upTo[n \in 0 .. Len(ts)] == IF n = 0 THEN <<>> ELSE upTo[n - 1] \o WritesIn(ts[n])
  IN  upTo

WritesOf(ts) == WritesUpTo(ts)[Len(ts)]

(* The last write to a register counts; where there is no register, a      *)
(* write does nothing and a read finds 0.                                  *)
Written(regs, writes) ==
  [r \in RegSpace |->
     LET to == {i \in DOMAIN writes : writes[i][1] = r}
     IN  IF to = {} THEN regs[r] ELSE writes[CHOOSE i \in to : \A j \in to : j <= i][2]]

Answered(regs, t) ==
  [i \in 1 .. (IF t.write THEN 0 ELSE t.len) |->
     IF Register(t, i) \in RegSpace THEN regs[Register(t, i)] ELSE 0]

(* The endpoint that hears the packet does what it says and answers.       *)
Hears(c, packet) ==
  LET a == Addressee(packet)
      ts == Transactions(packet)
      answer == Answered(ep_regs[a], ts[1])
      body == IF answer = <<>> THEN <<>> ELSE Closed(answer)
  IN  /\ a \in Present
      /\ ep_regs' = [ep_regs EXCEPT ![a] = Written(@, WritesOf(ts))]
      /\ understood' = [understood EXCEPT ![c] = [by |-> a, ts |-> ts, answer |-> answer]]
      /\ acmd_buf' = [stat |-> "busy", words |-> << 255, 255, packet[3] >> \o body]

(* A packet may be lost, and one for an address of nobody is.              *)
IsLost ==
  /\ acmd_buf' = [stat |-> "busy", words |-> <<>>]
  /\ UNCHANGED <<ep_regs, understood>>

(* The words that fit into the buffer to send from, and into the other.    *)
BufferWords == 32

(* transmit_async_packet resets the buffer and writes the packet in one    *)
(* dispatch; a negative timeout means that no reply is awaited.            *)
Transmit(c) ==
  /\ at[c] = "acmd_tx" /\ Len(Packet(asks[c])) <= BufferWords
  /\ IsLost \/ Hears(c, Packet(asks[c]))
  /\ GoOn(c, IF Awaits(asks[c]) THEN "acmd_poll" ELSE "idle")
  /\ UNCHANGED reply

(* uhal refuses a packet that does not fit.                                *)
PacketRefused(c) ==
  /\ at[c] = "acmd_tx" /\ Len(Packet(asks[c])) > BufferWords
  /\ Fail(c, "BulkTransferRequestedTooLarge")
  /\ UNCHANGED asyncBufVars

(* The buffer sets one of its two flags, sooner or later.                  *)
BufferAnswers ==
  /\ acmd_buf.stat = "busy"
  /\ acmd_buf' = [acmd_buf EXCEPT !.stat = IF acmd_buf.words = <<>> THEN "timeout" ELSE "ready"]
  /\ UNCHANGED <<callerVars, ep_regs, understood, reply>>

(* Both flags are polled in one dispatch; the buffer's timeout comes first.*)
ReplyReady(c) ==
  /\ at[c] = "acmd_poll" /\ acmd_buf.stat = "ready"
  /\ GoOn(c, "acmd_rx")
  /\ UNCHANGED asyncBufVars

ReplyTimesOut(c) ==
  /\ at[c] = "acmd_poll"
  /\ \/ acmd_buf.stat = "timeout" /\ Fail(c, "VLCommandReplyTimeout")
     \/ acmd_buf.stat = "busy" /\ Fail(c, "VLCommandReplyBufferFlagTimeout")
  /\ UNCHANGED asyncBufVars

(* What may be found in memory behind the words of a buffer.               *)
Leftovers == {0, 1}

(* The whole buffer is read in a dispatch of its own, with zeros after the *)
(* reply; a wrong header is only reported.  read_endpoint_data takes as    *)
(* many words after the header as it was asked for, and the mark off the   *)
(* last.                                                                   *)
ReadReply(c) ==
  /\ at[c] = "acmd_rx"
  /\ \E m \in Leftovers :
       LET word(i) == CASE i > BufferWords -> m
                        [] i <= BufferWords /\ i <= Len(acmd_buf.words) -> acmd_buf.words[i]
                        [] OTHER -> 0
           len == asks[c].len
       IN  reply' = [reply EXCEPT ![c] =
             IF asks[c].op = "read_endpoint_data"
             THEN [i \in 1 .. len |-> IF i = len THEN word(3 + i) % 256 ELSE word(3 + i)]
             ELSE <<>>]
  /\ GoOn(c, "idle")
  /\ UNCHANGED <<acmd_buf, ep_regs, understood>>

AsyncStep(c) == Transmit(c) \/ PacketRefused(c) \/ ReplyReady(c) \/ ReplyTimesOut(c) \/ ReadReply(c)

AsyncFails(c) == node = "acmd" /\ DispatchFails(c) /\ UNCHANGED asyncBufVars

AsyncNext ==
  \/ \E c \in Callers :
       (\E r \in Asks[node][c] : AsyncCall(c, r)) \/ AsyncStep(c) \/ AsyncFails(c)
  \/ BufferAnswers

AsyncSpec == CallsInit({"acmd"}) /\ AsyncInit /\ [][AsyncNext]_<<callerVars, asyncBufVars>>

-----------------------------------------------------------------------------
(* The registers a call asks an endpoint to write, in order.               *)
AskedWrites(r) ==
  CASE r.op = "switch_endpoint_sfp" -> << <<112, IF r.on THEN 1 ELSE 0>> >>
    [] r.op = "write_endpoint_data" ->
         [i \in DOMAIN r.data |-> <<r.reg + (r.mode * (i - 1)), r.data[i]>>]
    [] r.op = "configure_endpoint_command_decoder" -> << <<96 + r.slot, r.command>> >>
    [] OTHER -> <<>>

(* What a call that reads returns, when no other overlaps.                 *)
ReturnsAnswer(c) ==
  asks[c].op = "read_endpoint_data" /\ understood[c].ts # <<>>
    /\ alone[c] /\ at[c] = "idle" /\ fate[c] = "ok" => reply[c] = understood[c].answer

(* The endpoint that hears a packet is the one it was meant for, and       *)
(* understands it as what was asked for: the registers to write and their  *)
(* values, in their order, no more and no fewer, the two parts of a delay  *)
(* put together again; and a call that reads as many words as there is     *)
(* room for behind the header, when no other overlaps, returns what the    *)
(* endpoint answered, with neither header nor mark.                        *)
PacketsSayWhatWasAsked ==
  \A c \in Callers :
    understood[c].ts # <<>> =>
      LET r == asks[c]
          ts == understood[c].ts
          ws == WritesOf(ts)
      IN  /\ understood[c].by = r.addr
          /\ r.op = "apply_endpoint_delay" =>
               /\ Len(ws) = 4 /\ ws[1][1] = 114 /\ ws[2][1] = 115
               /\ r.coarse = ws[1][2] % 16
               /\ r.fine = (ws[1][2] \div 16) + (16 * ws[2][2])
               /\ ws[3] = <<112, 3>> /\ ws[4] = <<112, 4>>
          /\ r.op = "read_endpoint_data" =>
               /\ Len(ts) = 1 /\ ~ts[1].write
               /\ ts[1].reg = r.reg /\ ts[1].len = r.len /\ ts[1].mode = r.mode
               /\ r.len <= BufferWords - 3 => ReturnsAnswer(c)
          /\ r.op \notin {"apply_endpoint_delay", "read_endpoint_data"} => ws = AskedWrites(r)
=============================================================================
