----------------------------- MODULE HSIReadout -----------------------------
(***************************************************************************)
(* HSINode: configuration and readout of the hardware signal interface.    *)
(*                                                                         *)
(* The firmware writes an event as five words into a FIFO.  A read takes   *)
(* the fill count in one dispatch and the words in another.  Words are     *)
(* identified by their number since the start: word n belongs to event     *)
(* n \div 5, so the contents of the FIFO are the numbers between two       *)
(* bounds.                                                                 *)
(***************************************************************************)
EXTENDS PeriodicRate

CONSTANTS
  Clients,      \* callers of the library
  Requests,     \* per client: the calls it may make
  Configs,      \* values of source and masks
  Zero,         \* the value of source and masks after a reset
  BufferLimit,  \* the most words a read takes: 1024
  Depth,        \* the words the FIFO has room for
  LastWord      \* bound: the firmware writes words 0 .. LastWord - 1

(* hsi_buffer_event_words_number                                           *)
EventWords == 5

(* all is read_all, fail is fail_on_error; cfg and period are arguments of *)
(* configure_hsi.                                                          *)
Request == [op : {"read", "configure", "start", "stop", "reset"},
            all : BOOLEAN, fail : BOOLEAN, cfg : Configs, period : Nat]

ASSUME ReadoutAssumption ==
  /\ Requests \in [Clients -> SUBSET Request]
  /\ BufferLimit \in Nat
  /\ Depth \in Nat
  /\ LastWord \in Nat
  /\ Zero \in Configs

VARIABLES
  pc,       \* per client: the next dispatch of its call
  req,      \* per client: its current or last call
  words,    \* per client: words_to_read, from the count it has read
  got,      \* per client: the first word it was given last, and how many
  out,      \* per client: how its last call ended
  queue,    \* per client: source and masks of a configuration left queued
  written,  \* the number of the next word the firmware writes
  taken,    \* the number of the first word in the FIFO
  err,      \* csr.stat.buf_err
  en,       \* csr.ctrl.en
  cfg,      \* csr.ctrl.src and the three masks
  rate      \* rate_div_d and rate_div_p

fifo == <<written, taken, err>>
setup == <<en, cfg, rate>>
vars == <<pc, req, words, got, out, queue, written, taken, err, en, cfg, rate>>

Count == written - taken

NothingQueued == <<>>

NoRequest == [op |-> "stop", all |-> FALSE, fail |-> FALSE, cfg |-> Zero, period |-> 0]

Goto(c, l) == pc' = [pc EXCEPT ![c] = l]
Ends(c, outcome) ==
  /\ pc' = [pc EXCEPT ![c] = "idle"]
  /\ out' = [out EXCEPT ![c] = outcome]

(* The writes left in the queue of c go out with its next dispatch.        *)
Flushed(c) == IF queue[c] = NothingQueued THEN cfg ELSE queue[c][1]
Dispatched(c) == queue' = [queue EXCEPT ![c] = NothingQueued]

Pair(x) == [d |-> Divisor(x), p |-> Prescale(x, Divisor(x))]

(* A rate that uhal refuses to write.                                      *)
Refused(r) == /\ r.op = "configure"
              /\ InRange(r.period)
              /\ Pair(r.period).p \notin PrescaleField

Limited(n) == IF n > BufferLimit THEN BufferLimit ELSE n

(* Mutants of WordsToRead: the words are not rounded to events, limited    *)
(* after they are rounded, or rounded up.                                  *)
WordsToReadUnrounded(all, n) == Limited(n)
WordsToReadRoundedFirst(all, n) ==
  IF all THEN Limited(n) ELSE Limited((n \div EventWords) * EventWords)
WordsToReadRoundedUp(all, n) ==
  IF all THEN Limited(n)
  ELSE ((Limited(n) + EventWords - 1) \div EventWords) * EventWords

(* All there is, or as many words as make complete events, but never more  *)
(* than the buffer is believed to have.                                    *)
WordsToRead(all, n) ==
  IF all THEN Limited(n) ELSE (Limited(n) \div EventWords) * EventWords

-----------------------------------------------------------------------------
Init ==
  /\ pc = [c \in Clients |-> "idle"]
  /\ req = [c \in Clients |-> NoRequest]
  /\ words = [c \in Clients |-> 0]
  /\ got = [c \in Clients |-> [first |-> 0, n |-> 0]]
  /\ out = [c \in Clients |-> "none"]
  /\ queue = [c \in Clients |-> NothingQueued]
  /\ written = 0 /\ taken = 0
  /\ err = FALSE
  /\ en = FALSE
  /\ cfg = Zero
  /\ rate = [d |-> 0, p |-> 0]

Call(c, r) ==
  /\ pc[c] = "idle"
  /\ req' = [req EXCEPT ![c] = r]
  /\ out' = [out EXCEPT ![c] = "none"]
  /\ Goto(c, r.op)
  /\ UNCHANGED <<words, got, queue, fifo, setup>>

(* read_data_buffer reads the state and the count of the buffer and works  *)
(* out what to read; with fail_on_error a buffer in error, or one that is  *)
(* fuller than it can be, is left alone.                                   *)
ReadState(c) ==
  /\ pc[c] = "read"
  /\ IF req[c].fail /\ (err \/ Count > BufferLimit)
     THEN Ends(c, "buffer_error") /\ UNCHANGED words
     ELSE /\ words' = [words EXCEPT ![c] = WordsToRead(req[c].all, Count)]
          /\ Goto(c, "take")
          /\ UNCHANGED out
  /\ cfg' = Flushed(c) /\ Dispatched(c)
  /\ UNCHANGED <<req, got, fifo, en, rate>>

(* The words are read in a dispatch of their own; where the FIFO has run   *)
(* dry the read returns words that mean nothing.                           *)
Take(c) ==
  /\ pc[c] = "take"
  /\ got' = [got EXCEPT ![c] = [first |-> taken, n |-> words[c]]]
  /\ taken' = IF words[c] > Count THEN written ELSE taken + words[c]
  /\ Ends(c, IF words[c] > Count THEN "short" ELSE "ok")
  /\ UNCHANGED <<req, words, queue, written, err, setup>>

(* Mutant of Configure: the prescale is not brought to the generator.      *)
ConfigureDivisorOnly(c) ==
  /\ pc[c] = "configure" /\ ~Refused(req[c])
  /\ IF InRange(req[c].period)
     THEN rate' = [rate EXCEPT !.d = Pair(req[c].period).d] /\ Ends(c, "ok")
     ELSE UNCHANGED rate /\ Ends(c, "rate_not_updated")
  /\ cfg' = req[c].cfg /\ Dispatched(c)
  /\ UNCHANGED <<req, words, got, fifo, en>>

(* configure_hsi writes source and masks, and the rate unless it is out of *)
(* range, which is only reported.                                          *)
Configure(c) ==
  /\ pc[c] = "configure" /\ ~Refused(req[c])
  /\ IF InRange(req[c].period)
     THEN rate' = Pair(req[c].period) /\ Ends(c, "ok")
     ELSE UNCHANGED rate /\ Ends(c, "rate_not_updated")
  /\ cfg' = req[c].cfg /\ Dispatched(c)
  /\ UNCHANGED <<req, words, got, fifo, en>>

(* A prescale that uhal refuses ends the call before the dispatch, with    *)
(* source and masks queued.                                                *)
ConfigureRefused(c) ==
  /\ pc[c] = "configure" /\ Refused(req[c])
  /\ queue' = [queue EXCEPT ![c] = <<req[c].cfg>>]
  /\ Ends(c, "bus_mask")
  /\ UNCHANGED <<req, words, got, fifo, setup>>

StartOrStop(c) ==
  /\ pc[c] \in {"start", "stop"}
  /\ en' = (pc[c] = "start")
  /\ cfg' = Flushed(c) /\ Dispatched(c)
  /\ Ends(c, "ok")
  /\ UNCHANGED <<req, words, got, fifo, rate>>

(* The number of the first word of the next event.                         *)
NextEvent == ((written + EventWords - 1) \div EventWords) * EventWords

(* reset_hsi disables the interface, flushes the buffer by switching it    *)
(* off and on, and clears source and masks.                                *)
Reset(c) ==
  /\ pc[c] = "reset"
  /\ en' = FALSE
  /\ written' = NextEvent /\ taken' = NextEvent /\ err' = FALSE
  /\ cfg' = Zero /\ Dispatched(c)
  /\ Ends(c, "ok")
  /\ UNCHANGED <<req, words, got, rate>>

(* A dispatch fails with a uhal exception, without effect.                 *)
BusError(c) ==
  /\ pc[c] # "idle"
  /\ ~Refused(req[c])
  /\ Ends(c, "bus_error")
  /\ Dispatched(c)
  /\ UNCHANGED <<req, words, got, fifo, setup>>

(* The firmware begins an event while the interface is enabled and always  *)
(* completes it; once the FIFO is full it stops writing until it is        *)
(* flushed.                                                                *)
FirmwareWrites ==
  /\ en \/ written % EventWords # 0
  /\ ~err
  /\ written < LastWord
  /\ IF Count < Depth
     THEN written' = written + 1 /\ UNCHANGED err
     ELSE err' = TRUE /\ UNCHANGED written
  /\ UNCHANGED <<pc, req, words, got, out, queue, taken, setup>>

Step(c) ==
  \/ ReadState(c) \/ Take(c)
  \/ Configure(c) \/ ConfigureRefused(c) \/ StartOrStop(c) \/ Reset(c)

Next ==
  \/ \E c \in Clients : (\E r \in Requests[c] : Call(c, r)) \/ Step(c) \/ BusError(c)
  \/ FirmwareWrites

Spec == Init /\ [][Next]_vars

-----------------------------------------------------------------------------
Labels == {"idle", "read", "take", "configure", "start", "stop", "reset"}

Outcomes == {"none", "ok", "short", "buffer_error", "rate_not_updated",
             "bus_mask", "bus_error"}

TypeOK ==
  /\ pc \in [Clients -> Labels]
  /\ req \in [Clients -> Request]
  /\ words \in [Clients -> 0 .. BufferLimit]
  /\ got \in [Clients -> [first : Nat, n : 0 .. BufferLimit]]
  /\ out \in [Clients -> Outcomes]
  /\ queue \in [Clients -> {NothingQueued} \cup {<<x>> : x \in Configs}]
  /\ written \in Nat /\ taken \in Nat /\ taken <= written
  /\ err \in BOOLEAN
  /\ en \in BOOLEAN
  /\ cfg \in Configs
  /\ rate \in [d : 0 .. DivisorMax, p : PrescaleField]

(* A read of events returns complete events only, from the first word of   *)
(* the first to the last word of the last one, although it counts the      *)
(* words in one dispatch and takes them in another, while the firmware     *)
(* writes; this needs that nobody reads "all".                             *)
CompleteEventsOnly ==
  \A c \in Clients :
    out[c] = "ok" /\ req[c].op = "read" /\ ~req[c].all =>
      got[c].n = 0 \/ (got[c].first % EventWords = 0 /\ got[c].n % EventWords = 0)

(* When only one client reads and resets, a read never takes words that    *)
(* the buffer does not have, and so returns no made-up data.               *)
NoShortRead == \A c \in Clients : out[c] # "short"

(* What the library promises a reader of events: whole events, in the      *)
(* order of their recording, none twice and none lost without a reset; an  *)
(* event of which a read took a part counts as delivered.  Like the two    *)
(* properties before it, this is about one client that reads and resets,   *)
(* and reads events only.                                                  *)
Stream == INSTANCE EventStream WITH
  recorded <- written \div EventWords,
  next <- (taken + EventWords - 1) \div EventWords

(* Every behaviour of the readout is one of the abstract stream.           *)
StreamSpec == Stream!ESpec

(* The divisor and the prescale of the emulation are always those of one   *)
(* request: refused and failed configurations leave no mixture of two.     *)
RateIsWhole ==
  \/ rate = [d |-> 0, p |-> 0]
  \/ \E c \in Clients : \E r \in Requests[c] :
       r.op = "configure" /\ InRange(r.period) /\ rate = Pair(r.period)
=============================================================================
