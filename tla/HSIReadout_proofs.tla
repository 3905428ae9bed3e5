------------------------- MODULE HSIReadout_proofs -------------------------
(***************************************************************************)
(* Whatever the sizes of buffer and FIFO, the requests and the failures: a *)
(* client that alone reads and resets, and reads events only, is given     *)
(* complete events, in order, each once.                                   *)
(***************************************************************************)
EXTENDS HSIReadout, FiniteSetTheorems, TLAPS

(* The theorems below suppose that only one client reads or resets ...     *)
OneReader ==
  \A a, b \in Clients : \A r \in Requests[a], s \in Requests[b] :
    r.op \in {"read", "reset"} /\ s.op \in {"read", "reset"} => a = b

(* ... and that it never reads "all".                                      *)
EventsOnly ==
  \A c \in Clients : \A r \in Requests[c] : r.op = "read" => ~r.all

(* The types the arithmetic of the readout needs.                          *)
Shapes ==
  /\ pc \in [Clients -> Labels]
  /\ DOMAIN req = Clients
  /\ words \in [Clients -> Nat]
  /\ got \in [Clients -> [first : Nat, n : Nat]]
  /\ out \in [Clients -> Outcomes]
  /\ written \in Nat /\ taken \in Nat

(* The label of a call belongs to its request.                             *)
Running(c) ==
  pc[c] # "idle" => /\ req[c] \in Requests[c]
                    /\ req[c].op = IF pc[c] = "take" THEN "read" ELSE pc[c]

(* The FIFO begins with the first word of an event, and a reader between   *)
(* its two dispatches is owed whole events that are all there.             *)
Aligned ==
  /\ taken <= written
  /\ taken % EventWords = 0
  /\ \A c \in Clients :
       pc[c] = "take" => words[c] % EventWords = 0 /\ words[c] <= written - taken

RInv ==
  /\ Shapes
  /\ \A c \in Clients : Running(c)
  /\ Aligned
  /\ CompleteEventsOnly
  /\ NoShortRead

-----------------------------------------------------------------------------
(* What read_data_buffer asks for is whole events that were counted.       *)
LEMMA WholeEvents ==
  ASSUME NEW n \in Nat
  PROVE  /\ WordsToRead(FALSE, n) \in Nat
         /\ WordsToRead(FALSE, n) <= n
         /\ WordsToRead(FALSE, n) % EventWords = 0
  BY ReadoutAssumption DEF WordsToRead, Limited, EventWords

(* A flush goes on at the first word of an event.                          *)
LEMMA NextIsAligned ==
  ASSUME written \in Nat
  PROVE  /\ NextEvent \in Nat
         /\ NextEvent >= written
         /\ NextEvent % EventWords = 0
         /\ NextEvent \div EventWords \in {written \div EventWords, written \div EventWords + 1}
  BY DEF NextEvent, EventWords

(* With whole words in the buffer, taking w words is delivering whole      *)
(* events of the abstract stream.                                          *)
LEMMA TakingDelivers ==
  ASSUME NEW t \in Nat, NEW w \in Nat, NEW n \in Nat,
         t % EventWords = 0, w % EventWords = 0, t + w <= n
  PROVE  /\ (t + w + EventWords - 1) \div EventWords
              = (t + EventWords - 1) \div EventWords + w \div EventWords
         /\ w \div EventWords \in Nat
         /\ w # 0 => w \div EventWords >= 1
         /\ (t + w) % EventWords = 0
         /\ w \div EventWords <= n \div EventWords - (t + EventWords - 1) \div EventWords
  BY DEF EventWords

(* One more word completes at most one event.                              *)
LEMMA OneWordMore ==
  ASSUME NEW n \in Nat
  PROVE  (n + 1) \div EventWords \in {n \div EventWords, n \div EventWords + 1}
  BY DEF EventWords

LEMMA InitRInv == Init => RInv
  BY DEF Init, RInv, Shapes, Running, Aligned, CompleteEventsOnly, NoShortRead, Labels,
         Outcomes, NoRequest, EventWords

LEMMA StepRInv ==
  ASSUME OneReader, EventsOnly
  PROVE  RInv /\ [Next]_vars => RInv'
<1> SUFFICES ASSUME RInv, [Next]_vars PROVE RInv'
  OBVIOUS
<1> USE DEF RInv
<1>1. ASSUME NEW c \in Clients, NEW r \in Requests[c], Call(c, r) PROVE RInv'
  <2>1. r.op \in {"read", "configure", "start", "stop", "reset"}
    BY ReadoutAssumption DEF Request
  <2> QED
    BY <1>1, <2>1 DEF Call, Goto, fifo, setup, Shapes, Running, Aligned, CompleteEventsOnly,
                     NoShortRead, Labels, Outcomes
<1>2. ASSUME NEW c \in Clients, ReadState(c) PROVE RInv'
  <2>1. ~req[c].all
    BY <1>2, EventsOnly DEF EventsOnly, ReadState, Running
  <2>2. Count \in Nat
    BY DEF Count, Shapes, Aligned
  <2> DEFINE w == WordsToRead(FALSE, Count)
  <2>3. w \in Nat /\ w <= Count /\ w % EventWords = 0
    BY <2>2, WholeEvents
  <2>4. \/ pc' = [pc EXCEPT ![c] = "idle"] /\ out' = [out EXCEPT ![c] = "buffer_error"] /\ words' = words
        \/ /\ pc' = [pc EXCEPT ![c] = "take"] /\ out' = out
           /\ words' = [words EXCEPT ![c] = w]
    BY <1>2, <2>1 DEF ReadState, Ends, Goto, WordsToRead
  <2>5. UNCHANGED <<req, got, written, taken>> /\ pc[c] = "read"
    BY <1>2 DEF ReadState, fifo
  <2> HIDE DEF w
  <2>7. Shapes'
    BY <2>3, <2>4, <2>5 DEF Shapes, Labels, Outcomes
  <2>8. \A b \in Clients : Running(b)'
    BY <2>4, <2>5 DEF Running, Shapes
  <2>9. Aligned'
    BY <2>3, <2>4, <2>5 DEF Count, Aligned, Shapes
  <2>10. CompleteEventsOnly' /\ NoShortRead'
    BY <2>4, <2>5 DEF CompleteEventsOnly, NoShortRead, Shapes
  <2> QED
    BY <2>7, <2>8, <2>9, <2>10
<1>3. ASSUME NEW c \in Clients, Take(c) PROVE RInv'
  <2>1. ~(words[c] > Count) /\ words[c] \in Nat /\ words[c] % EventWords = 0
    BY <1>3 DEF Take, Aligned, Shapes, Count
  <2>2. \A b \in Clients : pc[b] = "take" => b = c
    BY <1>3, OneReader DEF OneReader, Take, Running
  <2>3. /\ got' = [got EXCEPT ![c] = [first |-> taken, n |-> words[c]]]
        /\ taken' = taken + words[c]
        /\ pc' = [pc EXCEPT ![c] = "idle"] /\ out' = [out EXCEPT ![c] = "ok"]
        /\ UNCHANGED <<req, words, written>>
    BY <1>3, <2>1 DEF Take, Ends
  <2>4. taken' % EventWords = 0 /\ taken' \in Nat /\ taken' <= written
    <3>1. words[c] <= written - taken /\ taken % EventWords = 0 /\ written \in Nat /\ taken \in Nat
      BY <1>3 DEF Take, Aligned, Shapes
    <3>2. taken + words[c] <= written
      BY <3>1, <2>1
    <3> QED
      BY <3>1, <3>2, <2>1, <2>3, TakingDelivers
  <2>5. Shapes'
    <3>1. [first |-> taken, n |-> words[c]] \in [first : Nat, n : Nat]
      BY <2>1 DEF Shapes
    <3>2. got' \in [Clients -> [first : Nat, n : Nat]]
      BY <3>1, <2>3 DEF Shapes
    <3>3. pc' \in [Clients -> Labels] /\ out' \in [Clients -> Outcomes]
      BY <2>3 DEF Shapes, Labels, Outcomes
    <3> QED
      BY <3>2, <3>3, <2>3, <2>4 DEF Shapes
  <2>7. \A b \in Clients : Running(b)'
    BY <2>3 DEF Shapes, Running
  <2>8. Aligned'
    BY <2>2, <2>3, <2>4 DEF Shapes, Aligned
  <2>6. CompleteEventsOnly' /\ NoShortRead'
    BY <2>1, <2>3 DEF Shapes, Aligned, CompleteEventsOnly, NoShortRead
  <2> QED
    BY <2>5, <2>6, <2>7, <2>8
<1>4. ASSUME NEW c \in Clients, Reset(c) PROVE RInv'
  <2>1. \A b \in Clients : pc[b] # "take"
    BY <1>4, OneReader DEF OneReader, Reset, Running
  <2>2. NextEvent \in Nat /\ NextEvent % EventWords = 0
    BY NextIsAligned DEF Shapes
  <2>3. /\ pc[c] = "reset" /\ written' = NextEvent /\ taken' = NextEvent
        /\ pc' = [pc EXCEPT ![c] = "idle"] /\ out' = [out EXCEPT ![c] = "ok"]
        /\ UNCHANGED <<req, words, got>>
    BY <1>4 DEF Reset, Ends
  <2> QED
    BY <2>1, <2>2, <2>3 DEF Shapes, Running, Aligned, CompleteEventsOnly, NoShortRead, Labels,
                           Outcomes
<1>5. ASSUME NEW c \in Clients,
             Configure(c) \/ ConfigureRefused(c) \/ StartOrStop(c) \/ BusError(c)
      PROVE  RInv'
  <2>1. PICK o \in {"ok", "rate_not_updated", "bus_mask", "bus_error"} :
          /\ pc' = [pc EXCEPT ![c] = "idle"] /\ out' = [out EXCEPT ![c] = o]
          /\ o = "ok" => req[c].op # "read"
    BY <1>5 DEF Configure, ConfigureRefused, StartOrStop, BusError, Ends, Running
  <2>2. UNCHANGED <<req, words, got, written, taken>>
    BY <1>5 DEF Configure, ConfigureRefused, StartOrStop, BusError, fifo
  <2> QED
    BY <2>1, <2>2 DEF Shapes, Running, Aligned, CompleteEventsOnly, NoShortRead, Labels, Outcomes
<1>6. CASE FirmwareWrites
  <2>1. written' \in {written, written + 1} /\ UNCHANGED <<pc, req, words, got, out, taken>>
    BY <1>6 DEF FirmwareWrites
  <2> QED
    BY <2>1 DEF Shapes, Running, Aligned, CompleteEventsOnly, NoShortRead
<1>7. CASE UNCHANGED vars
  BY <1>7 DEF vars, Shapes, Running, Aligned, CompleteEventsOnly, NoShortRead
<1> QED
  BY <1>1, <1>2, <1>3, <1>4, <1>5, <1>6, <1>7 DEF Next, Step

(* The invariant of the readout holds in every reachable state.            *)
THEOREM Readout ==
  ASSUME OneReader, EventsOnly
  PROVE  Spec => []RInv
  BY InitRInv, StepRInv, PTL DEF Spec

(* Reads of events return complete events only.                            *)
THEOREM ReadsAreCompleteEvents ==
  ASSUME OneReader, EventsOnly
  PROVE  Spec => []CompleteEventsOnly
<1>1. RInv => CompleteEventsOnly
  BY DEF RInv
<1> QED
  BY <1>1, Readout, PTL

(* No read takes words the buffer does not have.                           *)
THEOREM NoDataMadeUp ==
  ASSUME OneReader, EventsOnly
  PROVE  Spec => []NoShortRead
<1>1. RInv => NoShortRead
  BY DEF RInv
<1> QED
  BY <1>1, Readout, PTL

-----------------------------------------------------------------------------
LEMMA InitRefines == Init => Stream!EInit
  BY DEF Init, Stream!EInit, EventWords

(* Every step of the readout is a step of the abstract stream, or none.    *)
LEMMA StepRefines == RInv /\ [Next]_vars => [Stream!ENext]_(Stream!streamVars)
<1> SUFFICES ASSUME RInv, [Next]_vars PROVE [Stream!ENext]_(Stream!streamVars)
  OBVIOUS
<1> USE DEF RInv
<1>1. ASSUME UNCHANGED <<written, taken>> PROVE UNCHANGED Stream!streamVars
  BY <1>1 DEF Stream!streamVars
<1>2. ASSUME NEW c \in Clients, Take(c) PROVE [Stream!ENext]_(Stream!streamVars)
  <2>1. /\ ~(words[c] > Count) /\ words[c] \in Nat /\ words[c] % EventWords = 0
        /\ words[c] <= written - taken
    BY <1>2 DEF Take, Aligned, Shapes, Count
  <2>2. taken' = taken + words[c] /\ written' = written
    BY <1>2, <2>1 DEF Take
  <2> DEFINE k == words[c] \div EventWords
  <2>3. /\ (taken' + EventWords - 1) \div EventWords
             = (taken + EventWords - 1) \div EventWords + k
        /\ k \in Nat
        /\ words[c] # 0 => k >= 1
        /\ k <= written \div EventWords - (taken + EventWords - 1) \div EventWords
    BY <2>1, <2>2, TakingDelivers DEF Shapes, Aligned
  <2>4. CASE words[c] = 0
    BY <2>2, <2>4, <1>1 DEF Shapes
  <2>5. CASE words[c] # 0
    <3>1. k \in 1 .. (written \div EventWords - (taken + EventWords - 1) \div EventWords)
      BY <2>3, <2>5 DEF Shapes, EventWords
    <3> QED
      BY <3>1, <2>2, <2>3 DEF Stream!ENext, Stream!Deliver
  <2> QED
    BY <2>4, <2>5
<1>3. ASSUME NEW c \in Clients, Reset(c) PROVE [Stream!ENext]_(Stream!streamVars)
  <2>1. written' = NextEvent /\ taken' = NextEvent
    BY <1>3 DEF Reset
  <2>2. /\ NextEvent \in Nat /\ NextEvent % EventWords = 0
        /\ NextEvent \div EventWords \in {written \div EventWords, written \div EventWords + 1}
    BY NextIsAligned DEF Shapes
  <2>3. (NextEvent + EventWords - 1) \div EventWords = NextEvent \div EventWords
    BY <2>2 DEF EventWords
  <2> QED
    BY <2>1, <2>2, <2>3 DEF Stream!ENext, Stream!Flush
<1>4. CASE FirmwareWrites
  <2>1. written' \in {written, written + 1} /\ taken' = taken
    BY <1>4 DEF FirmwareWrites
  <2>2. written' \div EventWords \in {written \div EventWords, written \div EventWords + 1}
    <3>1. (written + 1) \div EventWords
             \in {written \div EventWords, written \div EventWords + 1}
      BY OneWordMore DEF Shapes
    <3> QED
      BY <3>1, <2>1
  <2>3. CASE written' \div EventWords = written \div EventWords
    BY <2>1, <2>3 DEF Stream!streamVars
  <2>4. CASE written' \div EventWords = written \div EventWords + 1
    BY <2>1, <2>4 DEF Stream!ENext, Stream!Record
  <2> QED
    BY <2>2, <2>3, <2>4
<1>5. ASSUME NEW c \in Clients,
             \/ \E r \in Requests[c] : Call(c, r)
             \/ ReadState(c) \/ Configure(c) \/ ConfigureRefused(c)
             \/ StartOrStop(c) \/ BusError(c)
      PROVE  UNCHANGED <<written, taken>>
  BY <1>5 DEF Call, ReadState, Configure, ConfigureRefused, StartOrStop, BusError, fifo
<1>6. CASE UNCHANGED vars
  BY <1>6, <1>1 DEF vars
<1> QED
  BY <1>1, <1>2, <1>3, <1>4, <1>5, <1>6 DEF Next, Step

(* The readout implements the abstract stream: events are delivered in     *)
(* order, whole, each once, and lost only by a reset.                      *)
THEOREM ReadoutImplementsStream ==
  ASSUME OneReader, EventsOnly
  PROVE  Spec => StreamSpec
  BY InitRefines, StepRefines, Readout, PTL DEF Spec, StreamSpec, Stream!ESpec

-----------------------------------------------------------------------------
(* What holds for any clients and requests: the types, and that the rate   *)
(* in the registers is one that somebody asked for.                        *)
SetupInv == TypeOK /\ (\A c \in Clients : Running(c)) /\ RateIsWhole

(* A divisor fits in its field: it counts elements of 0 .. 14.             *)
LEMMA DivisorFits == \A x : Divisor(x) \in 0 .. DivisorMax
<1> TAKE x
<1> DEFINE all == 0 .. DivisorMax - 1
           few == {d \in all : ~Reaches(d, x)}
<1>1. IsFiniteSet(all) /\ Cardinality(all) = 15
  <2>1. 0 \in Int /\ DivisorMax - 1 \in Int /\ DivisorMax = 15
    BY DEF DivisorMax
  <2>2. /\ IsFiniteSet(0 .. DivisorMax - 1)
        /\ Cardinality(0 .. DivisorMax - 1) =
             IF 0 > DivisorMax - 1 THEN 0 ELSE (DivisorMax - 1) - 0 + 1
    BY <2>1, FS_Interval
  <2> QED
    BY <2>1, <2>2
<1>2. Cardinality(few) <= 15 /\ Cardinality(few) \in Nat
  BY <1>1, FS_Subset, FS_CardinalityType
<1> QED
  BY <1>2 DEF Divisor, DivisorMax

LEMMA AnyWords ==
  ASSUME NEW n \in Nat, NEW all
  PROVE  WordsToRead(all, n) \in 0 .. BufferLimit
<1>1. Limited(n) \in 0 .. BufferLimit
  BY ReadoutAssumption DEF Limited
<1>2. \A m \in 0 .. BufferLimit : (m \div EventWords) * EventWords \in 0 .. BufferLimit
  BY ReadoutAssumption DEF EventWords
<1> QED
  BY <1>1, <1>2 DEF WordsToRead

LEMMA SetupInit == Init => SetupInv
<1> SUFFICES ASSUME Init PROVE SetupInv
  OBVIOUS
<1>1. NoRequest \in Request
  BY ReadoutAssumption DEF NoRequest, Request
<1>2. rate \in [d : 0 .. DivisorMax, p : PrescaleField]
  BY DEF Init, DivisorMax, PrescaleField
<1>3. TypeOK
  <2>1. words \in [Clients -> 0 .. BufferLimit] /\ got \in [Clients -> [first : Nat, n : 0 .. BufferLimit]]
    BY ReadoutAssumption DEF Init
  <2>2. pc \in [Clients -> Labels] /\ req \in [Clients -> Request] /\ out \in [Clients -> Outcomes]
    BY <1>1 DEF Init, Labels, Outcomes
  <2>3. /\ queue \in [Clients -> {NothingQueued} \cup {<<x>> : x \in Configs}]
        /\ written \in Nat /\ taken \in Nat /\ taken <= written
        /\ cfg \in Configs
    BY ReadoutAssumption DEF Init
  <2>4. err \in BOOLEAN /\ en \in BOOLEAN
    BY DEF Init
  <2> QED
    BY <1>2, <2>1, <2>2, <2>3, <2>4 DEF TypeOK
<1> QED
  BY <1>3 DEF Init, SetupInv, Running, RateIsWhole

LEMMA SetupStep == SetupInv /\ [Next]_vars => SetupInv'
<1> SUFFICES ASSUME SetupInv, [Next]_vars PROVE SetupInv'
  OBVIOUS
<1> USE DEF SetupInv
<1>a. \A c \in Clients : Flushed(c) \in Configs
  BY DEF TypeOK, Flushed, NothingQueued
<1>1. ASSUME NEW c \in Clients, NEW r \in Requests[c], Call(c, r) PROVE SetupInv'
  <2>1. r \in Request /\ r.op \in {"read", "configure", "start", "stop", "reset"}
    BY ReadoutAssumption DEF Request
  <2>2. /\ req' = [req EXCEPT ![c] = r] /\ pc' = [pc EXCEPT ![c] = r.op]
        /\ out' = [out EXCEPT ![c] = "none"]
        /\ UNCHANGED <<words, got, queue, written, taken, err, en, cfg, rate>>
    BY <1>1 DEF Call, Goto, fifo, setup
  <2>3. TypeOK'
    BY <2>1, <2>2 DEF TypeOK, Labels, Outcomes
  <2>4. \A b \in Clients : Running(b)'
    BY <2>1, <2>2 DEF TypeOK, Running
  <2> QED
    BY <2>2, <2>3, <2>4 DEF RateIsWhole
<1>2. ASSUME NEW c \in Clients, ReadState(c) PROVE SetupInv'
  <2>1. WordsToRead(req[c].all, Count) \in 0 .. BufferLimit
    <3>1. Count \in Nat
      BY DEF TypeOK, Count
    <3> QED
      BY <3>1, AnyWords
  <2>2. /\ pc[c] = "read" /\ cfg' \in Configs /\ queue' = [queue EXCEPT ![c] = NothingQueued]
        /\ words' = words \/ words' = [words EXCEPT ![c] = WordsToRead(req[c].all, Count)]
        /\ \/ pc' = [pc EXCEPT ![c] = "idle"] /\ out' = [out EXCEPT ![c] = "buffer_error"]
           \/ pc' = [pc EXCEPT ![c] = "take"] /\ out' = out
        /\ UNCHANGED <<req, got, written, taken, err, en, rate>>
    BY <1>2, <1>a DEF ReadState, Ends, Goto, Dispatched, fifo
  <2>3. TypeOK'
    BY <2>1, <2>2 DEF TypeOK, Labels, Outcomes, NothingQueued
  <2>4. \A b \in Clients : Running(b)'
    BY <2>2 DEF TypeOK, Running
  <2> QED
    BY <2>2, <2>3, <2>4 DEF RateIsWhole
<1>3. ASSUME NEW c \in Clients, Take(c) PROVE SetupInv'
  <2>1. /\ pc' = [pc EXCEPT ![c] = "idle"]
        /\ \E o \in {"short", "ok"} : out' = [out EXCEPT ![c] = o]
        /\ got' = [got EXCEPT ![c] = [first |-> taken, n |-> words[c]]]
        /\ taken' = (IF words[c] > Count THEN written ELSE taken + words[c])
        /\ UNCHANGED <<req, words, queue, written, err, en, cfg, rate>>
    BY <1>3 DEF Take, Ends, setup
  <2>2. taken' \in Nat /\ taken' <= written
    <3>1. written \in Nat /\ taken \in Nat /\ words[c] \in Nat /\ taken <= written
      BY DEF TypeOK
    <3> QED
      BY <2>1, <3>1 DEF Count
  <2>3. [first |-> taken, n |-> words[c]] \in [first : Nat, n : 0 .. BufferLimit]
    BY DEF TypeOK
  <2>4. TypeOK'
    BY <2>1, <2>2, <2>3 DEF TypeOK, Labels, Outcomes
  <2>5. \A b \in Clients : Running(b)'
    BY <2>1 DEF TypeOK, Running
  <2> QED
    BY <2>1, <2>4, <2>5 DEF RateIsWhole
<1>4. ASSUME NEW c \in Clients, Configure(c) PROVE SetupInv'
  <2>1. /\ pc' = [pc EXCEPT ![c] = "idle"]
        /\ \E o \in {"rate_not_updated", "ok"} : out' = [out EXCEPT ![c] = o]
        /\ cfg' = req[c].cfg /\ queue' = [queue EXCEPT ![c] = NothingQueued]
        /\ rate' = rate \/ (InRange(req[c].period) /\ rate' = Pair(req[c].period))
        /\ UNCHANGED <<req, words, got, written, taken, err, en>>
    BY <1>4 DEF Configure, Ends, Dispatched, fifo
  <2>2. req[c] \in Requests[c] /\ req[c].op = "configure" /\ req[c].cfg \in Configs
    BY <1>4, ReadoutAssumption DEF Configure, Running, Request
  <2>3. InRange(req[c].period) => Pair(req[c].period) \in [d : 0 .. DivisorMax, p : PrescaleField]
    BY <1>4, <2>2, DivisorFits DEF Configure, Refused, Pair
  <2>4. TypeOK'
    BY <2>1, <2>2, <2>3 DEF TypeOK, Labels, Outcomes, NothingQueued
  <2>5. \A b \in Clients : Running(b)'
    BY <2>1 DEF TypeOK, Running
  <2>6. RateIsWhole'
    BY <2>1, <2>2 DEF RateIsWhole
  <2> QED
    BY <2>4, <2>5, <2>6
<1>5. ASSUME NEW c \in Clients, ConfigureRefused(c) \/ BusError(c) PROVE SetupInv'
  <2>1. /\ pc' = [pc EXCEPT ![c] = "idle"]
        /\ \E o \in {"bus_mask", "bus_error"} : out' = [out EXCEPT ![c] = o]
        /\ \E q \in {NothingQueued, <<req[c].cfg>>} : queue' = [queue EXCEPT ![c] = q]
        /\ UNCHANGED <<req, words, got, written, taken, err, en, cfg, rate>>
    BY <1>5 DEF ConfigureRefused, BusError, Ends, Dispatched, fifo, setup
  <2>2. req[c].cfg \in Configs
    BY DEF TypeOK, Request
  <2>3. TypeOK'
    BY <2>1, <2>2 DEF TypeOK, Labels, Outcomes, NothingQueued
  <2>4. \A b \in Clients : Running(b)'
    BY <2>1 DEF TypeOK, Running
  <2> QED
    BY <2>1, <2>3, <2>4 DEF RateIsWhole
<1>6. ASSUME NEW c \in Clients, StartOrStop(c) \/ Reset(c) PROVE SetupInv'
  <2>1. /\ pc' = [pc EXCEPT ![c] = "idle"] /\ out' = [out EXCEPT ![c] = "ok"]
        /\ cfg' \in Configs /\ queue' = [queue EXCEPT ![c] = NothingQueued] /\ en' \in BOOLEAN
        /\ UNCHANGED <<req, words, got, rate>>
    BY <1>6, <1>a, ReadoutAssumption DEF StartOrStop, Reset, Ends, Dispatched, fifo
  <2>2. written' \in Nat /\ taken' \in Nat /\ taken' <= written' /\ err' \in BOOLEAN
    <3>1. written \in Nat /\ taken \in Nat /\ taken <= written /\ err \in BOOLEAN /\ NextEvent \in Nat
      BY NextIsAligned DEF TypeOK
    <3>2. CASE StartOrStop(c)
      BY <3>1, <3>2 DEF StartOrStop, fifo
    <3>3. CASE Reset(c)
      <4>1. written' = NextEvent /\ taken' = NextEvent /\ err' = FALSE
        BY <3>3 DEF Reset
      <4>2. written' \in Nat /\ taken' \in Nat /\ taken' <= written'
        BY <3>1, <4>1
      <4>3. err' \in BOOLEAN
        BY <4>1
      <4> QED
        BY <4>2, <4>3
    <3> QED
      BY <1>6, <3>2, <3>3
  <2>3. TypeOK'
    BY <2>1, <2>2 DEF TypeOK, Labels, Outcomes, NothingQueued
  <2>4. \A b \in Clients : Running(b)'
    BY <2>1 DEF TypeOK, Running
  <2> QED
    BY <2>1, <2>3, <2>4 DEF RateIsWhole
<1>7. CASE FirmwareWrites
  <2>1. /\ written' \in {written, written + 1} /\ err' \in BOOLEAN
        /\ UNCHANGED <<pc, req, words, got, out, queue, taken, en, cfg, rate>>
    BY <1>7 DEF FirmwareWrites, setup, TypeOK
  <2>2. TypeOK'
    BY <2>1 DEF TypeOK
  <2> QED
    BY <2>1, <2>2 DEF Running, RateIsWhole
<1>8. CASE UNCHANGED vars
  BY <1>8 DEF vars, TypeOK, Running, RateIsWhole
<1> QED
  BY <1>1, <1>2, <1>3, <1>4, <1>5, <1>6, <1>7, <1>8 DEF Next, Step

(* No assumption on the clients is needed for the types: a count is never  *)
(* negative and never more than the buffer is believed to have.            *)
THEOREM TypeCorrect == Spec => []TypeOK
<1>1. SetupInv => TypeOK
  BY DEF SetupInv
<1> QED
  BY <1>1, SetupInit, SetupStep, PTL DEF Spec

(* Whatever rates are refused and whatever configurations fail, the        *)
(* divisor and the prescale are always those of one request                *)
(* (HSINode::configure_hsi).                                               *)
THEOREM RateIsOneRequests == Spec => []RateIsWhole
<1>1. SetupInv => RateIsWhole
  BY DEF SetupInv
<1> QED
  BY <1>1, SetupInit, SetupStep, PTL DEF Spec
=============================================================================
