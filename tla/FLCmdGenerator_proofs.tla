----------------------- MODULE FLCmdGenerator_proofs -----------------------
(***************************************************************************)
(* Theorems about FLCmdGenerator.  For any number of clients: type         *)
(* correctness.  When one client uses the generator at a time: an accepted *)
(* rate is the nearest there is.  When uhal takes every prescale as well:  *)
(* enabled channels run as asked, forced commands are the ones asked for,  *)
(* and a call disturbs no channel but its own.                             *)
(***************************************************************************)
EXTENDS FLCmdGenerator, FiniteSetTheorems, WellFoundedInduction, TLAPS

(* A divisor fits in its field: it counts elements of 0 .. 14.             *)
LEMMA DivisorInField == \A x : Divisor(x) \in 0 .. DivisorMax
<1> TAKE x
<1> DEFINE all == 0 .. DivisorMax - 1
           few == {d \in all : ~Reaches(d, x)}
<1>1. IsFiniteSet(all) /\ Cardinality(all) = 15
  <2>1. 0 \in Int /\ DivisorMax - 1 \in Int /\ DivisorMax = 15
    BY DEF DivisorMax
  <2>2. /\ IsFiniteSet(0 .. DivisorMax - 1)
        /\ Cardinality(0 .. DivisorMax - 1) =
             IF 0 > DivisorMax - 1 THEN 0 ELSE (DivisorMax - 1) - 0 + 1
    BY <2>1, FS_Interval
  <2>3. QED
    BY <2>1, <2>2
<1>2. few \subseteq all
  OBVIOUS
<1>3. Cardinality(few) <= 15 /\ Cardinality(few) \in Nat
  BY <1>1, <1>2, FS_Subset, FS_CardinalityType
<1> QED
  BY <1>3 DEF Divisor, DivisorMax

(* What the calls in progress and their labels have to do with each other. *)
SendInv ==
  \A c \in Clients :
    /\ pc[c] \in {"send", "force", "release", "log"} =>
         req[c].op = "send" /\ left[c] >= 1
    /\ pc[c] \in {"force", "release", "log"} => Accepted(req[c])
    /\ pc[c] \in {"enable", "disable"} => req[c].op = pc[c]

TInv == TypeOK /\ SendInv

LEMMA RequestFields ==
  ASSUME NEW r \in Requests
  PROVE  /\ r \in Request
         /\ r.op \in {"send", "enable", "disable"}
         /\ r.chan \in Nat
         /\ r.cmd \in Nat
         /\ r.rep \in Nat \ {0}
         /\ r.poisson \in BOOLEAN
BY GeneratorAssumption DEF Request

LEMMA PeriodicInSettings ==
  ASSUME NEW r \in Requests, r.op = "enable", Accepted(r)
  PROVE  Periodic(r) \in Settings
BY RequestFields, DivisorInField DEF Accepted, Valid, Fits, Periodic, Settings

LEMMA ClearedInSettings == Cleared \in Settings
BY DEF Cleared, Settings, Commands, DivisorMax, PrescaleField

LEMMA FlushedInSettings ==
  ASSUME TypeOK, NEW c \in Clients
  PROVE  Flushed(c) \in [Channels -> Settings]
<1> DEFINE q == queue[c]
<1>1. q.type \in Commands /\ q.d \in 0 .. DivisorMax /\ ctrl \in [Channels -> Settings]
  BY DEF TypeOK
<1>2. CASE q.chan \in Channels
  <2> DEFINE s == [[ctrl[q.chan] EXCEPT !.type = q.type] EXCEPT !.d = q.d]
  <2>1. s \in Settings
    BY <1>1, <1>2 DEF Settings
  <2>2. Flushed(c) = [ctrl EXCEPT ![q.chan] = s]
    BY <1>1, <1>2 DEF Flushed, Settings
  <2>3. QED
    BY <1>1, <2>1, <2>2
<1>3. CASE q.chan \notin Channels
  BY <1>1, <1>3 DEF Flushed
<1> QED
  BY <1>2, <1>3

LEMMA TInit == Init => TInv
<1> SUFFICES ASSUME Init
             PROVE  TInv
  OBVIOUS
<1>1. pc \in [Clients -> Labels] /\ left \in [Clients -> Nat]
  BY DEF Init, Labels
<1>2. req \in [Clients -> Requests] /\ out \in [Clients -> Outcomes]
  BY DEF Init, Outcomes
<1>3. queue \in [Clients -> [chan : Channels \cup {-1}, type : Commands,
                             d : 0 .. DivisorMax]]
  BY DEF Init, NothingQueued, Commands, DivisorMax
<1>4. sel \in Channels /\ ctrl \in [Channels -> Settings]
  BY ClearedInSettings DEF Init
<1>5. forced \in [chan : Channels \cup {-1}, cmd : Commands]
  BY DEF Init, NoCommand, Commands
<1>6. SendInv
  BY DEF Init, SendInv
<1> QED
  BY <1>1, <1>2, <1>3, <1>4, <1>5, <1>6 DEF TInv, TypeOK

LEMMA TStep == TInv /\ [Next]_vars => TInv'
<1> SUFFICES ASSUME TInv, [Next]_vars
             PROVE  TInv'
  OBVIOUS
<1> USE DEF TInv
<1>1. ASSUME NEW c \in Clients, NEW r \in Requests, Call(c, r)
      PROVE  TInv'
  BY <1>1, RequestFields DEF TypeOK, SendInv, Call, Ends, Goto, Labels, Outcomes
<1>2. ASSUME NEW c \in Clients, Refuse(c)
      PROVE  TInv'
  BY <1>2 DEF TypeOK, SendInv, Refuse, Ends, Goto, Labels, Outcomes
<1>3. ASSUME NEW c \in Clients, Select(c)
      PROVE  TInv'
  <2>1. TypeOK'
    <3>1. NothingQueued \in [chan : Channels \cup {-1}, type : Commands,
                             d : 0 .. DivisorMax]
      BY DEF NothingQueued, Commands, DivisorMax
    <3>2. req[c].chan \in Channels
      BY <1>3 DEF Select, Accepted, Valid
    <3> QED
      BY <1>3, <3>1, <3>2, FlushedInSettings, ClearedInSettings
      DEF TypeOK, Select, Goto, Labels
  <2>2. SendInv'
    BY <1>3 DEF TypeOK, SendInv, Select, Goto
  <2> QED
    BY <2>1, <2>2
<1>4. ASSUME NEW c \in Clients, ForceOut(c)
      PROVE  TInv'
  <2>1. req[c].cmd \in Commands
    BY <1>4 DEF ForceOut, SendInv, Accepted, Valid
  <2>2. [ctrl[sel] EXCEPT !.type = req[c].cmd] \in Settings
    BY <2>1 DEF TypeOK, Settings
  <2>3. TypeOK'
    BY <1>4, <2>1, <2>2 DEF TypeOK, ForceOut, Goto, Labels
  <2>4. SendInv'
    BY <1>4 DEF TypeOK, SendInv, ForceOut, Goto
  <2> QED
    BY <2>3, <2>4
<1>5. ASSUME NEW c \in Clients, Release(c)
      PROVE  TInv'
  BY <1>5 DEF TypeOK, SendInv, Release, Goto, Labels
<1>6. ASSUME NEW c \in Clients, ReadLog(c)
      PROVE  TInv'
  <2>1. left[c] >= 1 /\ left[c] \in Nat
    BY <1>6 DEF TypeOK, SendInv, ReadLog
  <2>2. TypeOK'
    BY <1>6, <2>1 DEF TypeOK, ReadLog, Goto, Labels
  <2>3. SendInv'
    BY <1>6, <2>1 DEF TypeOK, SendInv, ReadLog, Goto
  <2> QED
    BY <2>2, <2>3
<1>7. ASSUME NEW c \in Clients, Enable(c)
      PROVE  TInv'
  <2>1. NothingQueued \in [chan : Channels \cup {-1}, type : Commands,
                           d : 0 .. DivisorMax]
    BY DEF NothingQueued, Commands, DivisorMax
  <2>2. req[c].chan \in Channels
    BY <1>7 DEF Enable, Accepted, Valid
  <2>3. Periodic(req[c]) \in Settings
    BY <1>7, PeriodicInSettings DEF TypeOK, SendInv, Enable
  <2>4. TypeOK'
    BY <1>7, <2>1, <2>2, <2>3, FlushedInSettings DEF TypeOK, Enable, Goto, Labels
  <2>5. SendInv'
    BY <1>7 DEF TypeOK, SendInv, Enable, Goto
  <2> QED
    BY <2>4, <2>5
<1>8. ASSUME NEW c \in Clients, EnableRefused(c)
      PROVE  TInv'
  <2>1. req[c].chan \in Channels /\ req[c].cmd \in Commands
    BY <1>8 DEF SendInv, EnableRefused, Valid
  <2>2. Divisor(req[c].period) \in 0 .. DivisorMax
    BY DivisorInField
  <2>3. TypeOK'
    BY <1>8, <2>1, <2>2 DEF TypeOK, EnableRefused, Ends, Goto, Labels, Outcomes
  <2>4. SendInv'
    BY <1>8 DEF TypeOK, SendInv, EnableRefused, Goto
  <2> QED
    BY <2>3, <2>4
<1>9. ASSUME NEW c \in Clients, Disable(c)
      PROVE  TInv'
  <2>1. NothingQueued \in [chan : Channels \cup {-1}, type : Commands,
                           d : 0 .. DivisorMax]
    BY DEF NothingQueued, Commands, DivisorMax
  <2>2. req[c].chan \in Channels
    BY <1>9 DEF Disable, Accepted, Valid
  <2>3. TypeOK'
    BY <1>9, <2>1, <2>2, FlushedInSettings, ClearedInSettings
    DEF TypeOK, Disable, Goto, Labels
  <2>4. SendInv'
    BY <1>9 DEF TypeOK, SendInv, Disable, Goto
  <2> QED
    BY <2>3, <2>4
<1>10. ASSUME NEW c \in Clients, BusError(c)
       PROVE  TInv'
  BY <1>10 DEF TypeOK, SendInv, BusError, Ends, Goto, Labels, Outcomes,
               NothingQueued, Commands, DivisorMax
<1>11. CASE UNCHANGED vars
  BY <1>11 DEF TypeOK, SendInv, vars, Accepted, Valid, Ratable, Fits
<1> QED
  BY <1>1, <1>2, <1>3, <1>4, <1>5, <1>6, <1>7, <1>8, <1>9, <1>10, <1>11 DEF Next, Step

(* However many clients use the generator, its settings keep to the widths *)
(* of their fields: validate_command, the range check of                   *)
(* parse_periodic_fl_cmd_rate and the refusal of uhal leave nothing else.  *)
THEOREM TypeCorrect == Spec => []TypeOK
<1>1. TInv => TypeOK
  BY DEF TInv
<1> QED
  BY TInit, TStep, <1>1, PTL DEF Spec

-----------------------------------------------------------------------------
(* One client uses the generator at a time, and no request makes a         *)
(* prescale that uhal refuses.                                             *)
OneAtATime == \A c, d \in Clients : c = d

AllFit == \A r \in Requests : Valid(r) /\ Ratable(r) => Fits(r)

(* Between the dispatch that selects a channel and the one that uses the   *)
(* selection, the channel stays selected and cleared; nothing is queued.   *)
AskedInv ==
  /\ TInv
  /\ \A c \in Clients : queue[c] = NothingQueued
  /\ \A c \in Clients : pc[c] = "force" => sel = req[c].chan /\ ~ctrl[sel].en
  /\ ForcedAsAsked
  /\ EnabledRunsAsAsked

LEMMA NothingToFlush ==
  ASSUME NEW c \in Clients, queue[c] = NothingQueued
  PROVE  Flushed(c) = ctrl
<1>1. NothingQueued.chan \notin Channels
  BY GeneratorAssumption DEF NothingQueued
<1> QED
  BY <1>1 DEF Flushed

LEMMA AskedInit == Init => AskedInv
<1> SUFFICES ASSUME Init
             PROVE  AskedInv
  OBVIOUS
<1>1. \A k \in Channels : ~ctrl[k].en
  BY DEF Init, Cleared
<1> QED
  BY <1>1, TInit DEF Init, AskedInv, ForcedAsAsked, EnabledRunsAsAsked

LEMMA AskedStep ==
  ASSUME OneAtATime, AllFit
  PROVE  AskedInv /\ [Next]_vars => AskedInv'
<1> SUFFICES ASSUME AskedInv, [Next]_vars
             PROVE  AskedInv'
  OBVIOUS
<1>1. TInv'
  BY TStep DEF AskedInv
<1> DEFINE Rest ==
      /\ \A c \in Clients : queue[c] = NothingQueued
      /\ \A c \in Clients : pc[c] = "force" => sel = req[c].chan /\ ~ctrl[sel].en
      /\ ForcedAsAsked
      /\ EnabledRunsAsAsked
<1> SUFFICES Rest'
  BY <1>1 DEF AskedInv
<1> USE DEF AskedInv, TInv
<1>2. ASSUME NEW c \in Clients,
             \/ \E r \in Requests : Call(c, r)
             \/ Refuse(c) \/ Release(c) \/ ReadLog(c) \/ BusError(c)
      PROVE  Rest'
  <2>1. UNCHANGED <<sel, ctrl, forced>>
    BY <1>2 DEF Call, Refuse, Release, ReadLog, BusError
  <2>2. pc'[c] # "force" /\ (pc'[c] \in {"release", "log"} =>
                               pc[c] \in {"release", "log"} /\ req'[c] = req[c])
    BY <1>2, RequestFields
    DEF TypeOK, Call, Refuse, Release, ReadLog, BusError, Goto
  <2>3. \A d \in Clients : d = c
    BY DEF OneAtATime
  <2>4. queue'[c] = NothingQueued
    BY <1>2 DEF TypeOK, Call, Refuse, Release, ReadLog, BusError
  <2>5. EnabledRunsAsAsked'
    BY <2>1 DEF EnabledRunsAsAsked
  <2>6. ForcedAsAsked'
    BY <2>1, <2>2, <2>3 DEF ForcedAsAsked
  <2> QED
    BY <2>2, <2>3, <2>4, <2>5, <2>6
<1>3. ASSUME NEW c \in Clients, Select(c)
      PROVE  Rest'
  <2>1. sel' = req[c].chan /\ req'[c] = req[c] /\ pc'[c] = "force"
    BY <1>3 DEF Select, Goto, TypeOK
  <2>2. ctrl' = [ctrl EXCEPT ![req[c].chan] = Cleared] /\ ~Cleared.en
    BY <1>3, NothingToFlush DEF Select, Cleared
  <2>3. req[c].chan \in Channels
    BY <1>3 DEF Select, Accepted, Valid
  <2>4. \A k \in Channels : ctrl'[k].en => ctrl'[k] = ctrl[k]
    BY <2>2, <2>3 DEF TypeOK
  <2>5. EnabledRunsAsAsked'
    BY <2>4 DEF EnabledRunsAsAsked
  <2>6. \A d \in Clients : d = c
    BY DEF OneAtATime
  <2>7. queue'[c] = NothingQueued
    BY <1>3 DEF TypeOK, Select
  <2>8. ~ctrl'[sel'].en
    BY <2>1, <2>2, <2>3 DEF TypeOK
  <2> QED
    BY <2>1, <2>5, <2>6, <2>7, <2>8 DEF ForcedAsAsked
<1>4. ASSUME NEW c \in Clients, ForceOut(c)
      PROVE  Rest'
  <2>1. sel = req[c].chan /\ ~ctrl[sel].en /\ sel \in Channels
    BY <1>4 DEF ForceOut, TypeOK
  <2>2. \A k \in Channels : ctrl'[k].en => ctrl'[k] = ctrl[k]
    <3> DEFINE s == [ctrl[sel] EXCEPT !.type = req[c].cmd]
    <3>1. ctrl' = [ctrl EXCEPT ![sel] = s]
      BY <1>4 DEF ForceOut
    <3>2. ~s.en
      BY <2>1 DEF TypeOK, Settings
    <3> QED
      BY <2>1, <3>1, <3>2 DEF TypeOK
  <2>3. EnabledRunsAsAsked'
    BY <2>2 DEF EnabledRunsAsAsked
  <2>4. \A d \in Clients : d = c
    BY DEF OneAtATime
  <2>5. pc'[c] = "release" /\ req'[c] = req[c] /\ queue'[c] = NothingQueued
    BY <1>4 DEF ForceOut, Goto, TypeOK
  <2>6. forced' = [chan |-> req[c].chan, cmd |-> req[c].cmd]
    BY <1>4, <2>1 DEF ForceOut
  <2> QED
    BY <2>3, <2>4, <2>5, <2>6 DEF ForcedAsAsked
<1>5. ASSUME NEW c \in Clients, Enable(c)
      PROVE  Rest'
  <2>1. req[c] \in Requests /\ req[c].op = "enable" /\ req[c].chan \in Channels
    BY <1>5 DEF Enable, TypeOK, SendInv, Accepted, Valid
  <2>2. ctrl' = [ctrl EXCEPT ![req[c].chan] = Periodic(req[c])]
    BY <1>5, NothingToFlush DEF Enable
  <2>3. EnabledRunsAsAsked'
    BY <2>1, <2>2 DEF EnabledRunsAsAsked, TypeOK
  <2>4. \A d \in Clients : d = c
    BY DEF OneAtATime
  <2>5. pc'[c] = "idle" /\ queue'[c] = NothingQueued
    BY <1>5 DEF Enable, Goto, TypeOK
  <2> QED
    BY <2>3, <2>4, <2>5 DEF ForcedAsAsked
<1>6. ASSUME NEW c \in Clients, EnableRefused(c)
      PROVE  Rest'
  BY <1>6 DEF EnableRefused, AllFit, TypeOK
<1>7. ASSUME NEW c \in Clients, Disable(c)
      PROVE  Rest'
  <2>1. req[c].chan \in Channels
    BY <1>7 DEF Disable, Accepted, Valid
  <2>2. ctrl' = [ctrl EXCEPT ![req[c].chan] = Cleared] /\ ~Cleared.en
    BY <1>7, NothingToFlush DEF Disable, Cleared
  <2>3. \A k \in Channels : ctrl'[k].en => ctrl'[k] = ctrl[k]
    BY <2>1, <2>2 DEF TypeOK
  <2>4. EnabledRunsAsAsked'
    BY <2>3 DEF EnabledRunsAsAsked
  <2>5. \A d \in Clients : d = c
    BY DEF OneAtATime
  <2>6. pc'[c] = "idle" /\ queue'[c] = NothingQueued
    BY <1>7 DEF Disable, Goto, TypeOK
  <2> QED
    BY <2>4, <2>5, <2>6 DEF ForcedAsAsked
<1>8. CASE UNCHANGED vars
  BY <1>8 DEF vars, ForcedAsAsked, EnabledRunsAsAsked
<1> QED
  BY <1>2, <1>3, <1>4, <1>5, <1>6, <1>7, <1>8 DEF Next, Step

(* When one client uses the generator at a time and every prescale fits,   *)
(* an enabled channel runs exactly as a call asked, whatever sends,        *)
(* failures and calls for other channels come in between.                  *)
THEOREM EnabledChannelsRunAsAsked ==
  ASSUME OneAtATime, AllFit
  PROVE  Spec => []EnabledRunsAsAsked
<1>1. AskedInv => EnabledRunsAsAsked
  BY DEF AskedInv
<1> QED
  BY AskedInit, AskedStep, <1>1, PTL DEF Spec

(* Under the same conditions, every forced command is the one asked for    *)
(* and goes out on the channel asked for.                                  *)
THEOREM CommandsForcedAsAsked ==
  ASSUME OneAtATime, AllFit
  PROVE  Spec => []ForcedAsAsked
<1>1. AskedInv => ForcedAsAsked
  BY DEF AskedInv
<1> QED
  BY AskedInit, AskedStep, <1>1, PTL DEF Spec

(* And no step of a call disturbs a channel but its own: the selection a   *)
(* send relies on in its second dispatch is still the one of its first     *)
(* (MasterNode::send_fl_cmd and FLCmdGeneratorNode).                       *)
THEOREM CallsLeaveOtherChannels ==
  ASSUME OneAtATime, AllFit
  PROVE  Spec => OnlyTheAskedChannel
<1> DEFINE Own == \A k \in Channels : ctrl'[k] # ctrl[k] =>
                    \E c \in Clients : pc[c] # "idle" /\ req[c].chan = k
<1>1. AskedInv /\ [Next]_vars => [Own]_vars
  <2> SUFFICES ASSUME AskedInv, [Next]_vars, NEW k \in Channels, ctrl'[k] # ctrl[k]
               PROVE  \E c \in Clients : pc[c] # "idle" /\ req[c].chan = k
    OBVIOUS
  <2> USE DEF AskedInv, TInv, TypeOK
  <2>1. ASSUME NEW c \in Clients, Select(c) \/ Enable(c) \/ Disable(c)
        PROVE  pc[c] # "idle" /\ req[c].chan = k
    <3>1. \E s : ctrl' = [ctrl EXCEPT ![req[c].chan] = s]
      BY <2>1, NothingToFlush DEF Select, Enable, Disable
    <3> QED
      BY <2>1, <3>1 DEF Select, Enable, Disable
  <2>2. ASSUME NEW c \in Clients, ForceOut(c)
        PROVE  pc[c] # "idle" /\ req[c].chan = k
    BY <2>2 DEF ForceOut
  <2>3. ASSUME NEW c \in Clients,
               \/ \E r \in Requests : Call(c, r)
               \/ Refuse(c) \/ Release(c) \/ ReadLog(c) \/ EnableRefused(c) \/ BusError(c)
        PROVE  FALSE
    BY <2>3 DEF Call, Refuse, Release, ReadLog, EnableRefused, BusError
  <2>4. ~UNCHANGED vars
    BY DEF vars
  <2> QED
    BY <2>1, <2>2, <2>3, <2>4 DEF Next, Step
<1> QED
  BY <1>1, AskedInit, AskedStep, PTL DEF Spec, OnlyTheAskedChannel

---------------------------------------------------------------------------
(* The powers of two up to 2^15.                                           *)
LEMMA Sixteen ==
  ASSUME NEW d \in 0 .. 15
  PROVE  \/ d = 0 \/ d = 1 \/ d = 2 \/ d = 3 \/ d = 4 \/ d = 5 \/ d = 6 \/ d = 7
         \/ d = 8 \/ d = 9 \/ d = 10 \/ d = 11 \/ d = 12 \/ d = 13 \/ d = 14 \/ d = 15
OBVIOUS

LEMMA PowerTable ==
  /\ 2 ^ 0 = 1 /\ 2 ^ 1 = 2 /\ 2 ^ 2 = 4 /\ 2 ^ 3 = 8
  /\ 2 ^ 4 = 16 /\ 2 ^ 5 = 32 /\ 2 ^ 6 = 64 /\ 2 ^ 7 = 128
  /\ 2 ^ 8 = 256 /\ 2 ^ 9 = 512 /\ 2 ^ 10 = 1024 /\ 2 ^ 11 = 2048
  /\ 2 ^ 12 = 4096 /\ 2 ^ 13 = 8192 /\ 2 ^ 14 = 16384 /\ 2 ^ 15 = 32768
  /\ 2 ^ 16 = 65536
OBVIOUS

(* A name for the powers, and their laws; Pow is not expanded below.       *)
Pow(d) == 2 ^ d

LEMMA Powers ==
  ASSUME NEW d \in 0 .. 15
  PROVE  Pow(d) \in Nat \ {0} /\ Pow(d + 1) = 2 * Pow(d) /\ Pow(d) <= 32768
<1>1. CASE d = 0
  BY <1>1, PowerTable DEF Pow
<1>2. CASE d = 1
  BY <1>2, PowerTable DEF Pow
<1>3. CASE d = 2
  BY <1>3, PowerTable DEF Pow
<1>4. CASE d = 3
  BY <1>4, PowerTable DEF Pow
<1>5. CASE d = 4
  BY <1>5, PowerTable DEF Pow
<1>6. CASE d = 5
  BY <1>6, PowerTable DEF Pow
<1>7. CASE d = 6
  BY <1>7, PowerTable DEF Pow
<1>8. CASE d = 7
  BY <1>8, PowerTable DEF Pow
<1>9. CASE d = 8
  BY <1>9, PowerTable DEF Pow
<1>10. CASE d = 9
  BY <1>10, PowerTable DEF Pow
<1>11. CASE d = 10
  BY <1>11, PowerTable DEF Pow
<1>12. CASE d = 11
  BY <1>12, PowerTable DEF Pow
<1>13. CASE d = 12
  BY <1>13, PowerTable DEF Pow
<1>14. CASE d = 13
  BY <1>14, PowerTable DEF Pow
<1>15. CASE d = 14
  BY <1>15, PowerTable DEF Pow
<1>16. CASE d = 15
  BY <1>16, PowerTable DEF Pow
<1> QED
  BY Sixteen, <1>1, <1>2, <1>3, <1>4, <1>5, <1>6, <1>7, <1>8,
     <1>9, <1>10, <1>11, <1>12, <1>13, <1>14, <1>15, <1>16

(* A set of numbers that is not empty has a least one.                     *)
LEMMA Least ==
  ASSUME NEW S \in SUBSET Nat, S # {}
  PROVE  \E m \in S : \A k \in S : m <= k
<1> DEFINE R == OpToRel(<, Nat)
<1>1. IsWellFoundedOn(R, Nat)
  BY NatLessThanWellFounded
<1> HIDE DEF R
<1>2. PICK m \in S : \A k \in S : ~ (<<k, m>> \in R)
  BY <1>1, WFMin
<1>3. \A k \in Nat : k < m => <<k, m>> \in R
  BY DEF OpToRel, R
<1>4. \A k \in S : ~ (k < m)
  BY <1>2, <1>3
<1> QED
  BY <1>4

(* A greater power is a multiple of a smaller one.                         *)
LEMMA PowersDivide ==
  ASSUME NEW d \in 0 .. 15, NEW e \in d .. 15
  PROVE  \E k \in Nat \ {0} : Pow(e) = k * Pow(d)
<1> DEFINE S == {i \in d .. 15 : ~ \E k \in Nat \ {0} : Pow(i) = k * Pow(d)}
<1> SUFFICES ASSUME S # {}
             PROVE  FALSE
  OBVIOUS
<1>1. PICK m \in S : \A i \in S : m <= i
  <2>1. S \in SUBSET Nat
    OBVIOUS
  <2> HIDE DEF S
  <2> QED
    BY <2>1, Least
<1>2. m # d
  <2>1. Pow(d) = 1 * Pow(d)
    BY Powers
  <2> QED
    BY <2>1
<1>m. m \in d .. 15 /\ ~ \E k \in Nat \ {0} : Pow(m) = k * Pow(d)
  BY <1>1
<1>3. m - 1 \in d .. 15 /\ m - 1 \notin S
  BY <1>1, <1>2
<1>4. PICK k \in Nat \ {0} : Pow(m - 1) = k * Pow(d)
  BY <1>3
<1>5. Pow((m - 1) + 1) = 2 * Pow(m - 1) /\ (m - 1) + 1 = m
  <2>1. m - 1 \in 0 .. 15 /\ (m - 1) + 1 = m
    BY <1>3
  <2> QED
    BY <2>1, Powers
<1> DEFINE q == Pow(d)
<1>6. q \in Nat
  BY Powers
<1>7. Pow(m) = 2 * (k * q)
  BY <1>4, <1>5
<1> HIDE DEF q
<1>8. 2 * (k * q) = (2 * k) * q /\ 2 * k \in Nat \ {0}
  BY <1>6
<1> QED
  BY <1>7, <1>8, <1>m DEF q

(* The divisor is the least one that reaches the period, or the last one.  *)
LEMMA DivisorLeast ==
  ASSUME NEW x \in Nat
  PROVE  /\ Divisor(x) \in 0 .. 15
         /\ Divisor(x) < 15 => x <= 512 * Pow(Divisor(x))
         /\ \A d \in 0 .. 14 : d < Divisor(x) => 512 * Pow(d) < x
<1> DEFINE few == {d \in 0 .. 14 : ~Reaches(d, x)}
           D == Divisor(x)
<1>1. D = Cardinality(few)
  BY DEF Divisor, DivisorMax
<1>2. \A d \in 0 .. 15 : Reaches(d, x) <=> x <= 512 * Pow(d)
  BY Powers DEF Reaches, PrescaleMax, Pow
<1>3. ASSUME NEW m \in 0 .. 15, few = 0 .. m - 1
      PROVE  D = m
  <2>1. 0 \in Int /\ m - 1 \in Int /\ (0 > m - 1 => m = 0)
    OBVIOUS
  <2>2. Cardinality(0 .. m - 1) = IF 0 > m - 1 THEN 0 ELSE (m - 1) - 0 + 1
    BY <2>1, FS_Interval
  <2>3. D = Cardinality(0 .. m - 1)
    BY <1>1, <1>3
  <2> HIDE DEF D
  <2> QED
    BY <2>1, <2>2, <2>3
<1>4. CASE \A d \in 0 .. 14 : ~Reaches(d, x)
  <2>1. few = 0 .. 15 - 1
    BY <1>4
  <2>2. D = 15
    BY <2>1, <1>3
  <2> QED
    BY <2>2, <1>2, <1>4, Powers
<1>5. CASE \E d \in 0 .. 14 : Reaches(d, x)
  <2> DEFINE S == {d \in 0 .. 14 : Reaches(d, x)}
  <2>0. S \in SUBSET Nat /\ S # {}
    BY <1>5
  <2>1. PICK m \in S : \A d \in S : m <= d
    <3> HIDE DEF S
    <3> QED
      BY <2>0, Least
  <2>a. m \in 0 .. 14 /\ Reaches(m, x) /\ (\A d \in 0 .. 14 : Reaches(d, x) => m <= d)
    BY <2>1
  <2>b. \A d \in 0 .. 15 : Pow(d) \in Nat
    BY Powers
  <2>2. \A d \in 0 .. 14 : m <= d => Reaches(d, x)
    <3> SUFFICES ASSUME NEW d \in 0 .. 14, m <= d
                 PROVE  x <= 512 * Pow(d)
      BY <1>2
    <3>1. PICK k \in Nat \ {0} : Pow(d) = k * Pow(m)
      BY <2>a, PowersDivide
    <3>2. Pow(m) <= Pow(d)
      BY <3>1, <2>a, <2>b
    <3>3. x <= 512 * Pow(m) /\ Pow(m) \in Nat /\ Pow(d) \in Nat
      BY <1>2, <2>a, <2>b
    <3> QED
      BY <3>2, <3>3
  <2>3. few = 0 .. m - 1
    BY <2>a, <2>2
  <2>4. D = m
    BY <2>a, <2>3, <1>3
  <2>5. x <= 512 * Pow(m)
    BY <1>2, <2>a
  <2>6. \A d \in 0 .. 14 : d < m => 512 * Pow(d) < x
    <3> SUFFICES ASSUME NEW d \in 0 .. 14, d < m
                 PROVE  512 * Pow(d) < x
      OBVIOUS
    <3>1. ~Reaches(d, x) /\ d \in 0 .. 15
      BY <2>a
    <3> QED
      BY <1>2, <2>b, <3>1
  <2> QED
    BY <2>a, <2>4, <2>5, <2>6
<1> QED
  BY <1>4, <1>5

(* The quotient rounded: of all multiples of 2 * q the nearest to x.       *)
LEMMA Rounded ==
  ASSUME NEW x \in Nat, NEW q \in Nat \ {0}
  PROVE  LET p == (x + q) \div (2 * q)
         IN  p \in Nat /\ 2 * q * p <= x + q /\ x + q < 2 * q * p + 2 * q
<1> DEFINE r == 2 * q
           y == x + q
<1>1. r \in Nat \ {0} /\ y \in Nat
  OBVIOUS
<1> HIDE DEF r, y
<1>2. y \div r \in Nat /\ r * (y \div r) <= y /\ y < r * (y \div r) + r
  BY <1>1
<1> QED
  BY <1>2 DEF r, y

LEMMA NearestMultiple ==
  ASSUME NEW x \in Nat, NEW q \in Nat \ {0}, NEW k \in Int
  PROVE  Distance(2 * q * ((x + q) \div (2 * q)), x) <= Distance(2 * q * k, x)
<1> DEFINE r == 2 * q
           p == (x + q) \div (2 * q)
<1> SUFFICES Distance(r * p, x) <= Distance(r * k, x)
  OBVIOUS
<1>1. r \in Nat /\ q < r /\ r = 2 * q /\ p \in Nat /\ r * p <= x + q /\ x + q < r * p + r
  BY Rounded
<1> HIDE DEF r, p
<1>2. CASE k = p
  BY <1>1, <1>2 DEF Distance
<1>3. CASE k > p
  <2>1. r * k >= r * p + r
    <3>1. PICK j \in Nat : k = p + 1 + j
      BY <1>1, <1>3
    <3>2. r * (p + 1 + j) = r * p + r + r * j /\ r * j >= 0
      BY <1>1
    <3> QED
      BY <1>1, <3>1, <3>2
  <2> QED
    BY <1>1, <2>1 DEF Distance
<1>4. CASE k < p
  <2>1. r * k <= r * p - r
    <3>1. PICK j \in Nat : p = k + 1 + j
      BY <1>1, <1>4
    <3>2. r * (k + 1 + j) = r * k + r + r * j /\ r * j >= 0
      BY <1>1
    <3> QED
      BY <1>1, <3>1, <3>2
  <2> QED
    BY <1>1, <2>1 DEF Distance
<1> QED
  BY <1>1, <1>2, <1>3, <1>4

(* No divisor and prescale are nearer to a period than the code's own,     *)
(* when its prescale is in range.                                          *)
LEMMA BestRate ==
  ASSUME NEW x \in Nat, InRange(x), NEW d \in 0 .. DivisorMax, NEW p \in 1 .. PrescaleMax
  PROVE  Distance(Period(Divisor(x), Prescale(x, Divisor(x))), x) <= Distance(Period(d, p), x)
<1> DEFINE D == Divisor(x)
           q == Pow(D)
           P == (x + q) \div (2 * q)
<1>1. D \in 0 .. 15 /\ \A e \in 0 .. 14 : e < D => 512 * Pow(e) < x
  BY DivisorLeast
<1>2. q \in Nat \ {0} /\ Pow(D + 1) = 2 * q /\ d \in 0 .. 15 /\ p \in 1 .. 256
  BY <1>1, Powers DEF DivisorMax, PrescaleMax
<1>3. P \in Nat
  <2> HIDE DEF q
  <2> QED
    BY <1>2, Rounded
<1>4. Prescale(x, D) = P
  <2> HIDE DEF D
  <2>1. 2 ^ D = q /\ 2 ^ (D + 1) = 2 * q
    BY <1>2 DEF Pow
  <2> QED
    BY <2>1 DEF Prescale
<1>5. Period(D, P) = 2 * q * P
  <2>1. Period(D, P) = 2 * P * q
    BY DEF Period, Pow
  <2> HIDE DEF D, q, P
  <2> QED
    BY <1>2, <1>3, <2>1
<1>6. \A k \in Int : Distance(2 * q * P, x) <= Distance(2 * q * k, x)
  <2> HIDE DEF q
  <2> QED
    BY <1>2, NearestMultiple
<1> HIDE DEF D, q, P
<1>7. CASE D <= d
  <2>1. PICK k \in Nat \ {0} : Pow(d) = k * q
    <3>1. D \in 0 .. 15 /\ d \in D .. 15
      BY <1>1, <1>2, <1>7
    <3>2. \E k \in Nat \ {0} : Pow(d) = k * Pow(D)
      BY <3>1, PowersDivide
    <3> QED
      BY <3>2 DEF q
  <2>2. Period(d, p) = 2 * q * (p * k)
    <3>1. Period(d, p) = 2 * p * Pow(d)
      BY DEF Period, Pow
    <3>2. 2 * p * (k * q) = 2 * q * (p * k)
      BY <1>2
    <3> QED
      BY <2>1, <3>1, <3>2
  <2>3. p * k \in Int
    BY <1>2
  <2> QED
    BY <1>4, <1>5, <1>6, <2>2, <2>3 DEF D
<1>8. CASE d < D
  <2>1. D - 1 \in 0 .. 14 /\ (D - 1) + 1 = D /\ D - 1 \in d .. 15
    BY <1>1, <1>2, <1>8
  <2>2. 512 * Pow(D - 1) < x /\ Pow(D - 1) \in Nat /\ q = 2 * Pow(D - 1)
    BY <1>1, <2>1, Powers DEF q
  <2>3. Pow(d) <= Pow(D - 1) /\ Pow(d) \in Nat
    <3>1. PICK k \in Nat \ {0} : Pow(D - 1) = k * Pow(d)
      BY <1>2, <2>1, PowersDivide
    <3>2. Pow(d) \in Nat
      BY <1>2, Powers
    <3>3. k * Pow(d) >= Pow(d)
      BY <3>2
    <3> QED
      BY <3>1, <3>2, <3>3
  <2>4. Period(d, p) <= 256 * q /\ Period(d, p) \in Nat
    <3>1. Period(d, p) = 2 * p * Pow(d)
      BY DEF Period, Pow
    <3> DEFINE u == Pow(d)
    <3>2. u \in Nat /\ 2 * u <= q
      BY <2>2, <2>3
    <3> HIDE DEF u
    <3>3. p * (2 * u) <= 256 * (2 * u) /\ 2 * p * u = p * (2 * u) /\ 2 * p * u \in Nat
      BY <1>2, <3>2
    <3> QED
      BY <1>2, <3>1, <3>2, <3>3 DEF u
  <2>5. Distance(2 * q * P, x) <= Distance(2 * q * 128, x)
    BY <1>6
  <2>6. 2 * q * 128 = 256 * q /\ 256 * q < x
    BY <1>2, <2>2
  <2>7. Distance(256 * q, x) <= Distance(Period(d, p), x)
    BY <1>2, <2>4, <2>6 DEF Distance
  <2>8. 2 * q * P \in Nat
    BY <1>2, <1>3
  <2> QED
    BY <1>2, <1>4, <1>5, <2>4, <2>5, <2>6, <2>7, <2>8 DEF D, Distance
<1> QED
  BY <1>1, <1>2, <1>7, <1>8

(* A period whose prescale is out of range is zero or far from all others. *)
LEMMA OutOfReach ==
  ASSUME NEW x \in Nat, ~InRange(x), x # 0,
         NEW d \in 0 .. DivisorMax, NEW p \in 1 .. PrescaleMax
  PROVE  Distance(Period(d, p), x) >= 2 ^ DivisorMax
<1> DEFINE D == Divisor(x)
           q == Pow(D)
           P == (x + q) \div (2 * q)
<1>1. /\ D \in 0 .. 15 /\ (D < 15 => x <= 512 * q)
      /\ \A e \in 0 .. 14 : e < D => 512 * Pow(e) < x
  BY DivisorLeast
<1>2. q \in Nat \ {0} /\ Pow(D + 1) = 2 * q /\ d \in 0 .. 15 /\ p \in 1 .. 256
  BY <1>1, Powers DEF DivisorMax, PrescaleMax
<1>3. P \in Nat /\ 2 * q * P <= x + q /\ x + q < 2 * q * P + 2 * q
  <2> HIDE DEF q
  <2> QED
    BY <1>2, Rounded
<1>4. P \notin 1 .. 256
  <2>1. Prescale(x, D) = P
    <3> HIDE DEF D
    <3>1. 2 ^ D = q /\ 2 ^ (D + 1) = 2 * q
      BY <1>2 DEF Pow
    <3> QED
      BY <3>1 DEF Prescale
  <2> QED
    BY <2>1 DEF InRange, PrescaleMax
<1> HIDE DEF P
<1>5. P # 0
  <2> SUFFICES ASSUME P = 0
               PROVE  FALSE
    OBVIOUS
  <2>1. x < q
    BY <1>2, <1>3
  <2>2. D # 0
    <3>1. D = 0 => q = 1
      BY PowerTable DEF Pow
    <3> QED
      BY <2>1, <3>1
  <2>3. D - 1 \in 0 .. 14 /\ (D - 1) + 1 = D /\ D - 1 \in 0 .. 15
    BY <1>1, <2>2
  <2>4. 512 * Pow(D - 1) < x /\ Pow(D - 1) \in Nat /\ q = 2 * Pow(D - 1)
    <3> HIDE DEF D
    <3> QED
      BY <1>1, <2>3, Powers
  <2> HIDE DEF q
  <2> QED
    BY <2>1, <2>4
<1>6. x >= 513 * q
  <2> HIDE DEF q
  <2>1. P >= 257
    BY <1>3, <1>4, <1>5
  <2>2. 2 * q * P >= 2 * q * 257
    <3>1. PICK j \in Nat : P = 257 + j
      BY <1>3, <2>1
    <3>2. 2 * q * (257 + j) = 2 * q * 257 + 2 * q * j /\ 2 * q * j >= 0
      BY <1>2
    <3> QED
      BY <1>2, <3>1, <3>2
  <2> QED
    BY <1>2, <1>3, <2>2
<1>7. D = 15 /\ q = 32768
  <2>1. D = 15
    <3> HIDE DEF q
    <3> QED
      BY <1>1, <1>2, <1>6
  <2> QED
    BY <2>1, PowerTable DEF Pow
<1>8. Period(d, p) \in Nat /\ Period(d, p) <= 512 * 32768
  <2> DEFINE u == Pow(d)
  <2>1. u \in Nat /\ u <= 32768
    BY <1>2, Powers
  <2>a. Period(d, p) = 2 * p * u
    BY DEF Period, Pow
  <2> HIDE DEF u
  <2>2. p * u <= 256 * u /\ p * u \in Nat /\ 2 * p * u = 2 * (p * u)
    BY <1>2, <2>1
  <2> QED
    BY <2>1, <2>2, <2>a
<1>9. 2 ^ DivisorMax = 32768
  BY PowerTable DEF DivisorMax
<1> QED
  BY <1>6, <1>7, <1>8, <1>9 DEF Distance

-----------------------------------------------------------------------------
(* A call that ended well left its rate in the channel, in range, and a    *)
(* call that was refused for its rate asked for one out of range.          *)
RateInv ==
  /\ TInv
  /\ \A c \in Clients :
       pc[c] = "idle" /\ out[c] = "ok" /\ req[c].op = "enable" =>
         /\ req[c].chan \in Channels
         /\ InRange(req[c].period)
         /\ ctrl[req[c].chan] = Periodic(req[c])
  /\ \A c \in Clients : out[c] = "bad_rate" => ~InRange(req[c].period)

LEMMA PeriodIsNat == \A r \in Requests : r.period \in Nat
BY GeneratorAssumption DEF Request

LEMMA RateInit == Init => RateInv
<1> SUFFICES ASSUME Init
             PROVE  RateInv
  OBVIOUS
<1>1. TInv
  BY TInit
<1>2. \A c \in Clients : out[c] = "none"
  BY DEF Init
<1> QED
  BY <1>1, <1>2 DEF RateInv

LEMMA RateStep ==
  ASSUME OneAtATime
  PROVE  RateInv /\ [Next]_vars => RateInv'
<1> SUFFICES ASSUME RateInv, [Next]_vars
             PROVE  RateInv'
  OBVIOUS
<1>1. TInv'
  BY TStep DEF RateInv
<1> DEFINE Good(c) ==
             pc[c] = "idle" /\ out[c] = "ok" /\ req[c].op = "enable" =>
               /\ req[c].chan \in Channels
               /\ InRange(req[c].period)
               /\ ctrl[req[c].chan] = Periodic(req[c])
           Bad(c) == out[c] = "bad_rate" => ~InRange(req[c].period)
<1> SUFFICES ASSUME NEW c \in Clients
             PROVE  (Good(c) /\ Bad(c))'
  BY <1>1 DEF RateInv
<1>2. \A e \in Clients : e = c
  BY DEF OneAtATime
<1>3. Good(c) /\ Bad(c) /\ TypeOK /\ SendInv
  BY DEF RateInv, TInv
<1> USE DEF TypeOK
<1>4. ASSUME NEW r \in Requests, Call(c, r)
      PROVE  (Good(c) /\ Bad(c))'
  <2>1. pc'[c] = r.op /\ r.op # "idle" /\ out'[c] = "ok"
    BY <1>3, <1>4, RequestFields DEF Call, Goto, Ends
  <2> QED
    BY <2>1
<1>5. CASE Refuse(c)
  <2>1. req' = req /\ out'[c] \in {"invalid", "bad_rate"}
    BY <1>3, <1>5 DEF Refuse, Ends
  <2>2. out'[c] = "bad_rate" => ~InRange(req[c].period)
    <3>1. out'[c] = "bad_rate" => ~Ratable(req[c])
      BY <1>3, <1>5 DEF Refuse, Ends
    <3> QED
      BY <3>1 DEF Ratable
  <2> QED
    BY <2>1, <2>2
<1>6. CASE Select(c) \/ ForceOut(c) \/ Release(c) \/ ReadLog(c) \/ Disable(c)
  <2>1. req' = req /\ out' = out
    BY <1>6 DEF Select, ForceOut, Release, ReadLog, Disable
  <2>2. pc'[c] = "idle" => req[c].op # "enable"
    <3>1. CASE Disable(c)
      BY <1>3, <3>1 DEF Disable, SendInv
    <3>2. CASE Select(c) \/ ForceOut(c) \/ Release(c) \/ ReadLog(c)
      <4>1. pc[c] \in {"send", "force", "release", "log"}
        BY <3>2 DEF Select, ForceOut, Release, ReadLog
      <4> QED
        BY <1>3, <4>1 DEF SendInv
    <3> QED
      BY <1>6, <3>1, <3>2
  <2> QED
    BY <1>3, <2>1, <2>2
<1>7. CASE Enable(c)
  <2>1. req' = req /\ out' = out /\ req[c] \in Requests /\ req[c].op = "enable"
    BY <1>3, <1>7 DEF Enable, SendInv
  <2>2. req[c].chan \in Channels /\ InRange(req[c].period)
    BY <1>7, <2>1 DEF Enable, Accepted, Valid, Ratable
  <2>3. ctrl'[req[c].chan] = Periodic(req[c])
    <3>1. Flushed(c) \in [Channels -> Settings]
      BY <1>3, FlushedInSettings
    <3> QED
      BY <1>7, <2>2, <3>1 DEF Enable
  <2> QED
    BY <1>3, <2>1, <2>2, <2>3
<1>8. CASE EnableRefused(c) \/ BusError(c)
  <2>1. req' = req /\ out'[c] \in {"bus_mask", "bus_error"}
    BY <1>3, <1>8 DEF EnableRefused, BusError, Ends
  <2> QED
    BY <2>1
<1>9. CASE UNCHANGED vars
  BY <1>3, <1>9 DEF vars
<1> QED
  BY <1>2, <1>4, <1>5, <1>6, <1>7, <1>8, <1>9 DEF Next, Step

LEMMA RateIsNearest == RateInv => NearestRate
<1> SUFFICES ASSUME RateInv, NEW c \in Clients
             PROVE  /\ pc[c] = "idle" /\ out[c] = "ok" /\ req[c].op = "enable" =>
                         LET s == ctrl[req[c].chan]
                             off == Distance(Period(s.d, s.p), req[c].period)
                         IN  \A d \in 0 .. DivisorMax, p \in 1 .. PrescaleMax :
                               off <= Distance(Period(d, p), req[c].period)
                    /\ out[c] = "bad_rate" =>
                         \/ req[c].period = 0
                         \/ \A d \in 0 .. DivisorMax, p \in 1 .. PrescaleMax :
                              Distance(Period(d, p), req[c].period) >= 2 ^ DivisorMax
  BY DEF NearestRate, Nearest, RefusedOutOfReach
<1> DEFINE x == req[c].period
<1>1. x \in Nat
  BY PeriodIsNat DEF RateInv, TInv, TypeOK
<1>2. ASSUME pc[c] = "idle", out[c] = "ok", req[c].op = "enable",
             NEW d \in 0 .. DivisorMax, NEW p \in 1 .. PrescaleMax
      PROVE  Distance(Period(ctrl[req[c].chan].d, ctrl[req[c].chan].p), x)
               <= Distance(Period(d, p), x)
  <2>1. /\ InRange(x)
        /\ ctrl[req[c].chan].d = Divisor(x)
        /\ ctrl[req[c].chan].p = Prescale(x, Divisor(x))
    <3>1. InRange(x) /\ ctrl[req[c].chan] = Periodic(req[c])
      BY <1>2 DEF RateInv
    <3> QED
      BY <3>1 DEF Periodic
  <2> HIDE DEF x
  <2> QED
    BY <1>1, <2>1, BestRate
<1>3. ASSUME out[c] = "bad_rate", x # 0,
             NEW d \in 0 .. DivisorMax, NEW p \in 1 .. PrescaleMax
      PROVE  Distance(Period(d, p), x) >= 2 ^ DivisorMax
  <2>1. ~InRange(x)
    BY <1>3 DEF RateInv
  <2> HIDE DEF x
  <2> QED
    BY <1>1, <1>3, <2>1, OutOfReach
<1> QED
  BY <1>2, <1>3

(* When one client uses the generator at a time, a periodic command that   *)
(* was accepted runs at the rate nearest to the one asked for of all the   *)
(* firmware has, and one that was refused has none near, whatever the      *)
(* period and even if uhal refuses a prescale on the way                   *)
(* (parse_periodic_fl_cmd_rate, enable_periodic_fl_cmd).                   *)
THEOREM RatesAreNearest ==
  ASSUME OneAtATime
  PROVE  Spec => []NearestRate
BY RateInit, RateStep, RateIsNearest, PTL DEF Spec
=============================================================================
