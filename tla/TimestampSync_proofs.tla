------------------------ MODULE TimestampSync_proofs ------------------------
(***************************************************************************)
(* Whatever the clock shows and however wide its registers are: timestamps *)
(* are never torn, and a call that no other overlaps loads its own.        *)
(***************************************************************************)
EXTENDS TimestampSync, TLAPS

(* The halves of one timestamp.                                            *)
Whole == {Split(t) : t \in Times \cup {0}}

(* Registers are only written whole, and loaded whole.                     *)
WInv ==
  /\ asked \in [Clients -> Times \cup {0}]
  /\ init \in Whole
  /\ start \in Whole

-----------------------------------------------------------------------------
(* A timestamp fits in two registers and is read back from them.           *)
LEMMA SplitFits ==
  ASSUME NEW t \in Times \cup {0}
  PROVE  Split(t) \in [l : Word, h : Word]
<1>1. t \in Nat /\ t <= Base * Base - 1 /\ Base \in Nat /\ Base > 0
  <2>1. Base * Base >= 1
    BY SyncAssumption
  <2> QED
    BY <2>1, SyncAssumption
<1>2. t % Base \in 0 .. Base - 1
  BY <1>1
<1>3. t \div Base \in Nat /\ Base * (t \div Base) <= t
  BY <1>1
<1>4. t \div Base < Base
  <2> DEFINE q == t \div Base
  <2>1. q \in Nat /\ Base * q <= Base * Base - 1
    BY <1>1, <1>3
  <2>2. q >= Base => Base * q >= Base * Base
    BY <1>1, <2>1
  <2> HIDE DEF q
  <2>3. q < Base
    BY <1>1, <2>1, <2>2
  <2> QED
    BY <2>3 DEF q
<1> QED
  BY <1>1, <1>2, <1>3, <1>4 DEF Split, Word

LEMMA JoinedSplit ==
  ASSUME NEW t \in Times \cup {0}
  PROVE  Joined(Split(t)) = t
<1>1. t \in Nat /\ Base \in Nat /\ Base > 0
  BY SyncAssumption
<1>2. (t % Base) + Base * (t \div Base) = t
  BY <1>1
<1> QED
  BY <1>2 DEF Joined, Split

-----------------------------------------------------------------------------
(* The registers of the software timestamp and what the generator loads    *)
(* from them are whole timestamps, through every interleaving of clients.  *)
THEOREM WholeTimestamps == Spec => []WInv
<1>1. Init => WInv
  BY DEF Init, WInv, Whole
<1>2. WInv /\ [Next]_vars => WInv'
  <2> SUFFICES ASSUME WInv, [Next]_vars PROVE WInv'
    OBVIOUS
  <2> USE DEF WInv, Whole
  <2>1. ASSUME NEW c \in Clients, Load(c) PROVE WInv'
    BY <2>1 DEF Load, NewInit
  <2>2. CASE GeneratorLoads
    BY <2>2 DEF GeneratorLoads
  <2>3. ASSUME UNCHANGED <<asked, init, start>> PROVE WInv'
    BY <2>3
  <2>4. ASSUME NEW c \in Clients, (\E r \in Requests : Call(c, r)) \/ Step(c) \/ BusError(c)
        PROVE  WInv'
    <3>1. CASE Load(c)
      BY <2>1, <3>1
    <3>2. CASE \E r \in Requests : Call(c, r)
      BY <3>2 DEF Call
    <3>3. CASE ~Load(c) /\ ~(\E r \in Requests : Call(c, r))
      BY <2>3, <2>4, <3>3
         DEF Step, BusError, ReadOld, Reset, Ready, NotReady, ReadStart, ReadNew, Switch
    <3> QED
      BY <3>1, <3>2, <3>3
  <2>5. CASE GeneratorFails
    BY <2>3, <2>5 DEF GeneratorFails
  <2>6. CASE UNCHANGED vars
    BY <2>3, <2>6 DEF vars
  <2> QED
    BY <2>2, <2>4, <2>5, <2>6 DEF Next
<1> QED
  BY <1>1, <1>2, PTL DEF Spec

(* The two halves of the timestamp that is loaded belong together.         *)
THEOREM TimestampsNeverTorn == Spec => []NeverTorn
<1>1. WInv => NeverTorn
  BY JoinedSplit DEF WInv, Whole, NeverTorn
<1> QED
  BY <1>1, WholeTimestamps, PTL

-----------------------------------------------------------------------------
(* The type invariant, whatever the clients do.                            *)
THEOREM TypeCorrect == Spec => []TypeOK
<1>1. Whole \subseteq [l : Word, h : Word]
  BY SplitFits DEF Whole
<1>2. Init => TypeOK
  BY <1>1 DEF Init, TypeOK, Labels, Sources, Whole
<1>3. TypeOK /\ [Next]_vars => TypeOK'
  <2> SUFFICES ASSUME TypeOK, [Next]_vars PROVE TypeOK'
    OBVIOUS
  <2> USE DEF TypeOK, Labels
  <2>1. ASSUME NEW c \in Clients, NEW r \in Requests, Call(c, r) PROVE TypeOK'
    BY <2>1 DEF Call, Goto
  <2>2. ASSUME NEW c \in Clients, Step(c) PROVE TypeOK'
    <3>1. CASE Reset(c)
      <4>1. req[c] \in Request
        BY SyncAssumption
      <4>2. req[c].source \in Sources
        BY <4>1 DEF Request
      <4> QED
        BY <3>1, <4>2 DEF Reset, Goto
    <3>2. CASE Load(c)
      <4>1. init' \in [l : Word, h : Word]
        BY <3>2, SplitFits DEF Load, NewInit
      <4>2. asked' \in [Clients -> Times \cup {0}]
        BY <3>2 DEF Load
      <4>3. pc' \in [Clients -> Labels] /\ gen' \in {"reset", "armed", "loaded"}
        BY <3>2 DEF Load, Goto
      <4> QED
        BY <3>2, <4>1, <4>2, <4>3 DEF Load
    <3>3. CASE ReadOld(c) \/ Ready(c) \/ NotReady(c) \/ ReadStart(c) \/ ReadNew(c)
      BY <3>3 DEF ReadOld, Ready, NotReady, ReadStart, ReadNew, Goto, Ends
    <3>4. CASE Switch(c)
      BY <3>4 DEF Switch, Goto, Ends
    <3> QED
      BY <2>2, <3>1, <3>2, <3>3, <3>4 DEF Step
  <2>3. ASSUME NEW c \in Clients, BusError(c) PROVE TypeOK'
    BY <2>3 DEF BusError, Goto, Ends
  <2>4. CASE GeneratorLoads
    BY <2>4, SplitFits DEF GeneratorLoads
  <2>5. CASE GeneratorFails
    BY <2>5 DEF GeneratorFails
  <2>6. CASE UNCHANGED vars
    BY <2>6 DEF vars
  <2> QED
    BY <2>1, <2>2, <2>3, <2>4, <2>5, <2>6 DEF Next
<1> QED
  BY <1>2, <1>3, PTL DEF Spec

-----------------------------------------------------------------------------
(* What the generator holds is what the call of c has asked for.           *)
Own(c) ==
  /\ gen = "loaded" /\ source = req[c].source
  /\ req[c].source # "upstream" => start = Split(asked[c])

(* How far the sole client has got: the generator is in reset before it    *)
(* loads, and from then on works on the timestamp of this call alone.      *)
Progress(c) ==
  /\ pc[c] \in {"read_old", "reset", "load", "poll", "read_start", "read_new"} =>
       req[c].op \in {"sync", "set"}
  /\ pc[c] = "load" => gen = "reset" /\ source = req[c].source
  /\ pc[c] = "poll" =>
       /\ gen # "reset" /\ source = req[c].source
       /\ source # "upstream" => init = Split(asked[c])
       /\ gen = "loaded" => Own(c)
  /\ pc[c] \in {"read_start", "read_new"} => Own(c)
  /\ pc[c] = "switch" => req[c].op # "set" /\ (req[c].op = "sync" => Own(c))
  /\ pc[c] = "idle" /\ out[c] = "ok" /\ req[c].op = "sync" => Own(c) /\ ts_en

(* While a client is the sole one, the others have no call under way.      *)
Sole(c) == \A d \in Clients \ {c} : pc[d] = "idle"

Alone == \A c \in sole : sole = {c} /\ Sole(c) /\ Progress(c)

(* The operation of every call is one of the four.                         *)
LEMMA Operations ==
  ASSUME TypeOK, NEW c \in Clients
  PROVE  req[c].op \in {"sync", "set", "on", "off"}
<1>1. req[c] \in Request
  BY SyncAssumption DEF TypeOK
<1> QED
  BY <1>1 DEF Request

(* The sole client makes a step of its call.                               *)
LEMMA SoleSteps ==
  ASSUME TypeOK, NEW c \in Clients, Progress(c), Step(c) \/ BusError(c)
  PROVE  Progress(c)'
<1> USE DEF TypeOK, Progress, Own
<1>1. CASE ReadOld(c)
  BY <1>1 DEF ReadOld, Goto
<1>2. CASE Reset(c)
  BY <1>2 DEF Reset, Goto
<1>3. CASE Load(c)
  BY <1>3 DEF Load, NewInit, Goto
<1>4. CASE Ready(c)
  BY <1>4 DEF Ready, Loaded, Goto
<1>5. CASE NotReady(c)
  BY <1>5 DEF NotReady, Goto, Ends
<1>6. CASE ReadStart(c)
  BY <1>6 DEF ReadStart, Goto
<1>7. CASE ReadNew(c)
  BY <1>7 DEF ReadNew, Goto, Ends
<1>8. CASE Switch(c)
  BY <1>8 DEF Switch, Goto, Ends
<1>9. CASE BusError(c)
  BY <1>9 DEF BusError, Goto, Ends
<1> QED
  BY <1>1, <1>2, <1>3, <1>4, <1>5, <1>6, <1>7, <1>8, <1>9 DEF Step

(* A step of a call leaves the labels of the other clients alone.          *)
LEMMA StepsAreOfCalls ==
  ASSUME TypeOK, NEW c \in Clients, Step(c) \/ BusError(c)
  PROVE  /\ pc[c] # "idle"
         /\ sole' = sole
         /\ \A d \in Clients \ {c} : pc'[d] = pc[d]
  BY DEF TypeOK, Step, BusError, ReadOld, Reset, Load, Ready, NotReady, ReadStart, ReadNew,
         Switch, Goto, Ends

LEMMA AloneStep ==
  ASSUME TypeOK, Alone, [Next]_vars
  PROVE  Alone'
<1> USE DEF Alone
<1>1. ASSUME NEW c \in Clients, NEW r \in Requests, Call(c, r) PROVE Alone'
  <2>1. CASE \A d \in Clients \ {c} : pc[d] = "idle"
    <3>1. sole' = {c} /\ Sole(c)'
      BY <1>1, <2>1 DEF Call, Goto, Sole, TypeOK
    <3>2. r.op \in {"sync", "set", "on", "off"}
      BY SyncAssumption DEF Request
    <3>3. Progress(c)'
      BY <1>1, <3>2 DEF Call, Goto, TypeOK, Progress, Own
    <3> QED
      BY <3>1, <3>3
  <2>2. CASE ~ \A d \in Clients \ {c} : pc[d] = "idle"
    BY <1>1, <2>2 DEF Call
  <2> QED
    BY <2>1, <2>2
<1>2. ASSUME NEW c \in Clients, Step(c) \/ BusError(c) PROVE Alone'
  <2> SUFFICES ASSUME NEW d \in sole' PROVE (sole = {d} /\ Sole(d) /\ Progress(d))'
    OBVIOUS
  <2>1. d \in sole /\ sole' = sole /\ d = c
    BY <1>2, StepsAreOfCalls DEF Sole, TypeOK
  <2>2. Progress(c)'
    BY <1>2, <2>1, SoleSteps
  <2>3. Sole(c)'
    BY <1>2, <2>1, StepsAreOfCalls DEF Sole
  <2> QED
    BY <2>1, <2>2, <2>3
<1>3. CASE GeneratorLoads
  BY <1>3 DEF GeneratorLoads, Sole, Progress, Own, TypeOK
<1>4. CASE GeneratorFails
  BY <1>4 DEF GeneratorFails, Sole, Progress, Own, TypeOK
<1>5. CASE UNCHANGED vars
  BY <1>5 DEF vars, Sole, Progress, Own
<1> QED
  BY <1>1, <1>2, <1>3, <1>4, <1>5 DEF Next

LEMMA OneAtATime == Spec => [](TypeOK /\ Alone)
<1>1. Init => Alone
  BY DEF Init, Alone
<1>2. TypeOK /\ Alone /\ [Next]_vars => Alone'
  BY AloneStep
<1> QED
  BY <1>1, <1>2, TypeCorrect, PTL DEF Spec

(* A sync_timestamp that no other call overlaps loads its own timestamp.   *)
THEOREM SyncLoadsAsAsked == Spec => []LoadedAsAsked
<1>1. ASSUME TypeOK, Alone PROVE LoadedAsAsked
  <2> SUFFICES ASSUME NEW c \in sole, pc[c] = "idle", out[c] = "ok", req[c].op = "sync"
               PROVE  /\ ts_en
                      /\ gen = "loaded" /\ source = req[c].source
                      /\ source # "upstream" => Joined(start) = asked[c]
    BY DEF LoadedAsAsked
  <2>1. Own(c) /\ ts_en
    BY <1>1 DEF Alone, Progress
  <2>2. Joined(Split(asked[c])) = asked[c]
    BY <1>1, JoinedSplit DEF TypeOK
  <2> QED
    BY <2>1, <2>2 DEF Own
<1> QED
  BY <1>1, OneAtATime, PTL

(* The broadcast begins with a timestamp that is loaded, or by hand.       *)
THEOREM BroadcastBeginsLoaded == Spec => BroadcastAfterLoad
<1> DEFINE A == ts_en' /\ ~ts_en /\ sole # {} =>
                  gen = "loaded" \/ (\E c \in Clients : pc[c] = "switch" /\ req[c].op = "on")
<1>1. TypeOK /\ Alone /\ [Next]_vars => [A]_vars
  <2> SUFFICES ASSUME TypeOK, Alone, Next, ts_en', ~ts_en, sole # {} PROVE A
    OBVIOUS
  <2>1. PICK c \in Clients : Switch(c)
    BY DEF Next, Step, Call, BusError, ReadOld, Reset, Load, Ready, NotReady, ReadStart,
           ReadNew, GeneratorLoads, GeneratorFails
  <2>2. Progress(c)
    BY <2>1 DEF Alone, Sole, Switch, TypeOK
  <2> QED
    BY <2>1, <2>2, Operations DEF Switch, Progress, Own
<1> QED
  BY <1>1, OneAtATime, PTL DEF Spec, BroadcastAfterLoad
=============================================================================
