------------------------- MODULE EndpointLink_proofs ------------------------
(***************************************************************************)
(* Proofs about EndpointLink, for any clients, endpoints, channels and     *)
(* calls.                                                                  *)
(***************************************************************************)
EXTENDS EndpointLink, TLAPS

LEMMA JobFields ==
  ASSUME NEW j \in Jobs
  PROVE  /\ j.op \in {"measure", "apply", "scan", "scan_mux"}
         /\ j.ept \in Endpoints
         /\ j.sfp \in BOOLEAN /\ j.rtt \in BOOLEAN
         /\ j.mux \in {-1} \cup Ports
  BY LinkAssumption DEF Job

LEMMA InitIInv == Init => IInv
<1> SUFFICES ASSUME Init PROVE IInv
  OBVIOUS
<1> USE LinkAssumption DEF Init
<1>1. TypeOK
  <2>1. 0 \in Ports /\ 0 \in 0 .. NumPorts
    BY DEF Ports
  <2>2. /\ pc \in [Clients -> Labels]
        /\ job \in [Clients -> Jobs]
        /\ round \in [Clients -> {1, 2}]
        /\ slot \in [Clients -> 0 .. NumPorts]
        /\ found \in [Clients -> SUBSET Ports]
        /\ out \in [Clients -> Outcomes]
    BY <2>1 DEF Labels, Outcomes
  <2>3. /\ rtt \in [Clients -> Endpoints \cup {None}]
        /\ seen \in [Clients -> [ept : Endpoints \cup {None}, val : EptStates]]
        /\ mux \in Ports
    BY <2>1 DEF EptStates
  <2>4. /\ echo \in [done : BOOLEAN, ept : Endpoints \cup {None}]
        /\ acmd \in [flag : {"busy", "ready", "timeout"},
                     ept : Endpoints \cup {None}]
        /\ rxbuf \in [ept : Endpoints \cup {None}, val : EptStates]
    BY DEF EptStates
  <2> QED
    BY <2>2, <2>3, <2>4 DEF TypeOK
<1>2. CallInv
  BY DEF CallInv
<1>3. LaserAccounted
  BY DEF LaserAccounted
<1> QED
  BY <1>1, <1>2, <1>3 DEF IInv

LEMMA CallPreserves ==
  ASSUME IInv, NEW c \in Clients, Call(c)
  PROVE  IInv'
<1> USE LinkAssumption DEF Call
<1>1. PICK j \in Jobs : job' = [job EXCEPT ![c] = j] /\ pc' = [pc EXCEPT ![c] = FirstLabel(j)]
  BY DEF Goto
<1>2. FirstLabel(j) \in {"mux", "sfp_on", "echo_go", "send_delay", "resync_set"}
  BY JobFields DEF FirstLabel, AfterMux
<1>3. TypeOK'
  BY <1>1, <1>2 DEF IInv, TypeOK, Labels, Outcomes, EptStates, Ports, asyncVars
<1>4. CallInv'
  <2>1. /\ FirstLabel(j) = "mux" => SetsMux(j)
        /\ FirstLabel(j) = "sfp_on" => ControlsLaser(j)
        /\ FirstLabel(j) = "send_delay" => j.op \in {"apply", "scan"}
        /\ j.op = "scan_mux" => FirstLabel(j) \in {"mux", "resync_set"}
    BY JobFields DEF FirstLabel, AfterMux, SetsMux, ControlsLaser
  <2> QED
    BY <1>1, <1>2, <2>1 DEF IInv, TypeOK, CallInv
<1>5. LaserAccounted'
  <2>1. ASSUME NEW d \in Clients, NEW e \in Endpoints, Holds(d, e)
        PROVE  Holds(d, e)'
    BY <1>1, <2>1 DEF IInv, TypeOK, Holds
  <2> QED
    BY <2>1 DEF IInv, LaserAccounted, Held
<1> QED
  BY <1>3, <1>4, <1>5 DEF IInv, asyncVars

(* A step that changes neither lasers nor calls keeps the accounts.        *)
LEMMA AccountsKept ==
  ASSUME IInv, UNCHANGED <<laser, abandoned>>, NEW c \in Clients, UNCHANGED job,
         \A d \in Clients \ {c} : pc'[d] = pc[d],
         \/ ~ControlsLaser(job[c])
         \/ pc[c] \in {"idle", "mux", "sfp_on"}
         \/ pc'[c] \notin {"idle", "mux", "sfp_on"}
  PROVE  LaserAccounted'
<1>1. ASSUME NEW d \in Clients, NEW e \in Endpoints, Holds(d, e)
      PROVE  Holds(d, e)'
  BY <1>1 DEF Holds
<1> QED
  BY <1>1 DEF IInv, LaserAccounted, Held

LEMMA SelectMuxPreserves ==
  ASSUME IInv, NEW c \in Clients, SelectMux(c)
  PROVE  IInv'
<1> USE DEF SelectMux, Goto, asyncVars, Relock, AfterMux
<1>1. TypeOK'
  BY LinkAssumption, JobFields DEF IInv, TypeOK, CallInv, SetsMux, Labels, Outcomes, EptStates, Ports
<1>2. CallInv'
  BY JobFields DEF IInv, TypeOK, CallInv, ControlsLaser
<1>3. LaserAccounted'
  BY AccountsKept, JobFields DEF IInv, TypeOK, CallInv, ControlsLaser
<1> QED
  BY <1>1, <1>2, <1>3 DEF IInv

LEMMA ResyncSetPreserves ==
  ASSUME IInv, NEW c \in Clients, ResyncSet(c)
  PROVE  IInv'
<1> USE DEF ResyncSet, Goto, asyncVars
<1>1. TypeOK'
  BY LinkAssumption, JobFields DEF IInv, TypeOK, CallInv, SetsMux, Labels, Outcomes, EptStates, Ports
<1>2. CallInv'
  BY JobFields DEF IInv, TypeOK, CallInv, ControlsLaser
<1>3. LaserAccounted'
  BY AccountsKept, JobFields DEF IInv, TypeOK, CallInv, ControlsLaser
<1> QED
  BY <1>1, <1>2, <1>3 DEF IInv

LEMMA ResyncClearPreserves ==
  ASSUME IInv, NEW c \in Clients, ResyncClear(c)
  PROVE  IInv'
<1> USE DEF ResyncClear, Goto, asyncVars
<1>1. TypeOK'
  BY LinkAssumption, JobFields DEF IInv, TypeOK, CallInv, SetsMux, Labels, Outcomes, EptStates, Ports
<1>2. CallInv'
  BY JobFields DEF IInv, TypeOK, CallInv, ControlsLaser
<1>3. LaserAccounted'
  BY AccountsKept, JobFields DEF IInv, TypeOK, CallInv, ControlsLaser
<1> QED
  BY <1>1, <1>2, <1>3 DEF IInv

LEMMA EchoGoPreserves ==
  ASSUME IInv, NEW c \in Clients, EchoGo(c)
  PROVE  IInv'
<1> USE DEF EchoGo, Goto, asyncVars
<1>1. TypeOK'
  BY LinkAssumption, JobFields DEF IInv, TypeOK, CallInv, SetsMux, Labels, Outcomes, EptStates, Ports
<1>2. CallInv'
  BY JobFields DEF IInv, TypeOK, CallInv, ControlsLaser
<1>3. LaserAccounted'
  BY AccountsKept, JobFields DEF IInv, TypeOK, CallInv, ControlsLaser
<1> QED
  BY <1>1, <1>2, <1>3 DEF IInv

LEMMA EchoTakenPreserves ==
  ASSUME IInv, NEW c \in Clients, EchoTaken(c)
  PROVE  IInv'
<1> USE DEF EchoTaken, Goto, asyncVars, AfterEcho, LastLabel
<1>1. TypeOK'
  BY LinkAssumption, JobFields DEF IInv, TypeOK, CallInv, SetsMux, Labels, Outcomes, EptStates, Ports
<1>2. CallInv'
  BY JobFields DEF IInv, TypeOK, CallInv, ControlsLaser
<1>3. LaserAccounted'
  BY AccountsKept, JobFields DEF IInv, TypeOK, CallInv, ControlsLaser
<1> QED
  BY <1>1, <1>2, <1>3 DEF IInv

LEMMA SendDelayPreserves ==
  ASSUME IInv, NEW c \in Clients, SendDelay(c)
  PROVE  IInv'
<1> USE DEF SendDelay, Goto, asyncVars, Transmit, AfterDelay, Heard
<1>1. TypeOK'
  BY LinkAssumption, JobFields DEF IInv, TypeOK, CallInv, SetsMux, Labels, Outcomes, EptStates, Ports
<1>2. CallInv'
  BY JobFields DEF IInv, TypeOK, CallInv, ControlsLaser
<1>3. LaserAccounted'
  BY AccountsKept, JobFields DEF IInv, TypeOK, CallInv, ControlsLaser
<1> QED
  BY <1>1, <1>2, <1>3, LinkAssumption, JobFields DEF IInv, TypeOK

LEMMA ReadTxPreserves ==
  ASSUME IInv, NEW c \in Clients, ReadTx(c)
  PROVE  IInv'
<1> USE DEF ReadTx, Goto, asyncVars, Transmit
<1>1. TypeOK'
  BY LinkAssumption, JobFields DEF IInv, TypeOK, CallInv, SetsMux, Labels, Outcomes, EptStates, Ports
<1>2. CallInv'
  BY JobFields DEF IInv, TypeOK, CallInv, ControlsLaser
<1>3. LaserAccounted'
  BY AccountsKept, JobFields DEF IInv, TypeOK, CallInv, ControlsLaser
<1> QED
  BY <1>1, <1>2, <1>3, LinkAssumption, JobFields DEF IInv, TypeOK

LEMMA ReadReadyPreserves ==
  ASSUME IInv, NEW c \in Clients, ReadReady(c)
  PROVE  IInv'
<1> USE DEF ReadReady, Goto, asyncVars
<1>1. TypeOK'
  BY LinkAssumption, JobFields DEF IInv, TypeOK, CallInv, SetsMux, Labels, Outcomes, EptStates, Ports
<1>2. CallInv'
  BY JobFields DEF IInv, TypeOK, CallInv, ControlsLaser
<1>3. LaserAccounted'
  BY AccountsKept, JobFields DEF IInv, TypeOK, CallInv, ControlsLaser
<1> QED
  BY <1>1, <1>2, <1>3 DEF IInv

LEMMA ReadRxPreserves ==
  ASSUME IInv, NEW c \in Clients, ReadRx(c)
  PROVE  IInv'
<1> USE DEF ReadRx, Goto, asyncVars, AfterRead, LastLabel
<1>1. TypeOK'
  BY LinkAssumption, JobFields DEF IInv, TypeOK, CallInv, SetsMux, Labels, Outcomes, EptStates, Ports
<1>2. CallInv'
  BY JobFields DEF IInv, TypeOK, CallInv, ControlsLaser
<1>3. LaserAccounted'
  BY AccountsKept, JobFields DEF IInv, TypeOK, CallInv, ControlsLaser
<1> QED
  BY <1>1, <1>2, <1>3 DEF IInv
LEMMA NextSlotFacts ==
  ASSUME IInv, NEW c \in Clients, job[c].op = "scan_mux", pc[c] # "idle", NextSlot(c)
  PROVE  /\ slot' \in [Clients -> 0 .. NumPorts]
         /\ found' \in [Clients -> SUBSET Ports]
         /\ \E l \in {"mux", "idle"} :
              /\ pc' = [pc EXCEPT ![c] = l]
              /\ l # "idle" => slot'[c] < NumPorts
         /\ \A d \in Clients \ {c} : slot'[d] = slot[d]
         /\ ~ControlsLaser(job[c])
<1>1. slot[c] \in Ports
  BY LinkAssumption DEF IInv, TypeOK, CallInv, Ports
<1>2. /\ slot[c] + 1 \in 0 .. NumPorts
      /\ slot'[c] = slot[c] + 1
  BY <1>1, LinkAssumption DEF IInv, TypeOK, NextSlot, Ports
<1>3. slot' \in [Clients -> 0 .. NumPorts]
  BY <1>2 DEF IInv, TypeOK, NextSlot
<1>4. found' \in [Clients -> SUBSET Ports]
  BY <1>1 DEF IInv, TypeOK, NextSlot
<1>5. \E l \in {"mux", "idle"} :
        pc' = [pc EXCEPT ![c] = l] /\ (l # "idle" => slot'[c] < NumPorts)
  BY <1>2 DEF NextSlot, Goto
<1> QED
  BY <1>3, <1>4, <1>5 DEF IInv, TypeOK, NextSlot, ControlsLaser

LEMMA NextSlotPreserves ==
  ASSUME IInv, NEW c \in Clients, job[c].op = "scan_mux", pc[c] # "idle", NextSlot(c),
         UNCHANGED <<job, round, out, rtt, seen, mux, laser, resync, upstream, echo,
                     asyncVars, state, abandoned>>
  PROVE  IInv'
<1>1. PICK l \in {"mux", "idle"} :
        pc' = [pc EXCEPT ![c] = l] /\ (l # "idle" => slot'[c] < NumPorts)
  BY NextSlotFacts
<1>2. TypeOK'
  BY <1>1, NextSlotFacts DEF IInv, TypeOK, Labels, asyncVars
<1>3. CallInv'
  <2>1. pc'[c] = l /\ \A d \in Clients \ {c} : pc'[d] = pc[d]
    BY <1>1 DEF IInv, TypeOK
  <2>2. ASSUME NEW d \in Clients, pc'[d] = "mux"
        PROVE  SetsMux(job'[d])
    BY <2>1, <2>2 DEF IInv, CallInv, SetsMux
  <2>3. \A d \in Clients \ {c} : slot'[d] = slot[d]
    BY NextSlotFacts
  <2> QED
    BY <1>1, <2>1, <2>2, <2>3 DEF IInv, TypeOK, CallInv
<1>4. LaserAccounted'
  BY <1>1, NextSlotFacts, AccountsKept DEF IInv, TypeOK
<1> QED
  BY <1>2, <1>3, <1>4 DEF IInv, asyncVars

LEMMA ReceiverReadyPreserves ==
  ASSUME IInv, NEW c \in Clients, ReceiverReady(c)
  PROVE  IInv'
<1>1. CASE job[c].op = "scan_mux"
  BY <1>1, NextSlotPreserves DEF ReceiverReady
<1>2. CASE job[c].op # "scan_mux"
  <2> USE <1>2 DEF ReceiverReady, Goto, asyncVars
  <2>1. TypeOK'
    BY DEF IInv, TypeOK, Labels
  <2>2. CallInv'
    BY DEF IInv, TypeOK, CallInv
  <2>3. LaserAccounted'
    BY AccountsKept DEF IInv, TypeOK
  <2> QED
    BY <2>1, <2>2, <2>3 DEF IInv
<1> QED
  BY <1>1, <1>2

LEMMA ReceiverTimeoutPreserves ==
  ASSUME IInv, NEW c \in Clients, ReceiverTimeout(c)
  PROVE  IInv'
<1>1. CASE job[c].op = "scan_mux"
  BY <1>1, NextSlotPreserves DEF ReceiverTimeout
<1>2. CASE job[c].op # "scan_mux"
  <2> USE <1>2 DEF ReceiverTimeout, Goto, asyncVars, LastLabel
  <2>1. TypeOK'
    BY DEF IInv, TypeOK, Labels, Outcomes
  <2>2. CallInv'
    BY DEF IInv, TypeOK, CallInv, ControlsLaser
  <2>3. LaserAccounted'
    BY AccountsKept DEF IInv, TypeOK
  <2> QED
    BY <2>1, <2>2, <2>3 DEF IInv
<1> QED
  BY <1>1, <1>2

(* A call that ends with an uncaught exception leaves its laser to         *)
(* "abandoned".                                                            *)
LEMMA EscapePreserves ==
  ASSUME IInv, NEW c \in Clients, NEW o \in Outcomes, Escape(c, o),
         UNCHANGED <<job, round, slot, found, rtt, seen, mux, laser, resync, upstream,
                     echo, asyncVars, state>>
  PROVE  IInv'
<1> USE DEF Escape, Goto, asyncVars
<1>1. TypeOK'
  BY DEF IInv, TypeOK, Labels
<1>2. CallInv'
  BY DEF IInv, TypeOK, CallInv
<1>3. LaserAccounted'
  <2>1. ASSUME NEW d \in Clients \ {c}, NEW e \in Endpoints, Holds(d, e)
        PROVE  Holds(d, e)'
    BY <2>1 DEF IInv, TypeOK, Holds
  <2>2. ASSUME NEW e \in Endpoints, laser[e], Holds(c, e)
        PROVE  e \in abandoned'
    BY <2>2
  <2> QED
    BY <2>1, <2>2 DEF IInv, LaserAccounted, Held
<1> QED
  BY <1>1, <1>2, <1>3 DEF IInv

LEMMA EchoThrowsPreserves ==
  ASSUME IInv, NEW c \in Clients, EchoThrows(c)
  PROVE  IInv'
  BY EscapePreserves DEF EchoThrows, Outcomes

LEMMA ReadThrowsPreserves ==
  ASSUME IInv, NEW c \in Clients, ReadThrows(c)
  PROVE  IInv'
  BY EscapePreserves DEF ReadThrows, Outcomes

LEMMA BusErrorPreserves ==
  ASSUME IInv, NEW c \in Clients, BusError(c)
  PROVE  IInv'
<1>1. CASE job[c].op = "scan_mux"
  BY <1>1, NextSlotPreserves DEF BusError
<1>2. CASE job[c].op # "scan_mux"
  BY <1>2, EscapePreserves DEF BusError, Outcomes
<1> QED
  BY <1>1, <1>2

LEMMA SwitchOnPreserves ==
  ASSUME IInv, NEW c \in Clients, SwitchOn(c)
  PROVE  IInv'
<1> USE DEF SwitchOn, Goto, Transmit
<1>1. PICK heard \in BOOLEAN :
        laser' = [laser EXCEPT ![job[c].ept] = @ \/ heard]
  BY DEF Heard
<1>2. job[c].ept \in Endpoints
  BY JobFields DEF IInv, TypeOK
<1>3. laser' \in [Endpoints -> BOOLEAN]
  BY <1>1, <1>2 DEF IInv, TypeOK
<1>4. upstream' \in Endpoints \cup {None}
  BY DEF IInv, TypeOK, Relock
<1>5. TypeOK'
  BY <1>2, <1>3, <1>4 DEF IInv, TypeOK, Labels
<1>6. CallInv'
  BY JobFields DEF IInv, TypeOK, CallInv, ControlsLaser
<1>7. LaserAccounted'
  <2>1. Holds(c, job[c].ept)'
    BY DEF IInv, TypeOK, CallInv, Holds
  <2>2. ASSUME NEW d \in Clients, NEW e \in Endpoints, Holds(d, e)
        PROVE  Holds(d, e)'
    BY <2>2 DEF IInv, TypeOK, Holds
  <2>3. \A e \in Endpoints : laser'[e] => laser[e] \/ e = job[c].ept
    BY <1>1, <1>2 DEF IInv, TypeOK
  <2> QED
    BY <2>1, <2>2, <2>3 DEF IInv, LaserAccounted, Held
<1> QED
  BY <1>2, <1>5, <1>6, <1>7, LinkAssumption DEF IInv

LEMMA SwitchOffPreserves ==
  ASSUME IInv, NEW c \in Clients, SwitchOff(c)
  PROVE  IInv'
<1> USE DEF SwitchOff, Goto, Transmit
<1>1. job[c].ept \in Endpoints
  BY JobFields DEF IInv, TypeOK
<1>2. upstream' \in Endpoints \cup {None}
  BY DEF IInv, TypeOK, Relock
<1>3. /\ laser' \in [Endpoints -> BOOLEAN]
      /\ abandoned' \subseteq Endpoints
  BY <1>1 DEF IInv, TypeOK
<1>4. TypeOK'
  BY <1>1, <1>2, <1>3 DEF IInv, TypeOK, Labels
<1>5. CallInv'
  BY DEF IInv, TypeOK, CallInv
<1>6. LaserAccounted'
  <2>1. ASSUME NEW d \in Clients \ {c}, NEW e \in Endpoints, Holds(d, e)
        PROVE  Holds(d, e)'
    BY <2>1 DEF IInv, TypeOK, Holds
  <2>2. ASSUME NEW e \in Endpoints, laser'[e], Holds(c, e)
        PROVE  e \in abandoned'
    BY <2>2, <1>1 DEF IInv, TypeOK, Holds
  <2>3. ASSUME NEW e \in Endpoints, laser'[e]
        PROVE  laser[e] /\ (e \in abandoned => e \in abandoned')
    BY <2>3, <1>1 DEF IInv, TypeOK
  <2> QED
    BY <2>1, <2>2, <2>3 DEF IInv, LaserAccounted, Held
<1> QED
  BY <1>1, <1>4, <1>5, <1>6, LinkAssumption DEF IInv

(* The hardware neither changes calls nor lasers.                          *)
LEMMA HardwarePreserves ==
  ASSUME IInv, Hardware
  PROVE  IInv'
<1>1. UNCHANGED <<callVars, mux, laser, resync, abandoned>>
  BY DEF Hardware, ReceiverLocks, ReceiverLosesLock, EchoEnds, PacketEnds, EndpointMoves
<1>2. CallInv' /\ LaserAccounted'
  BY <1>1 DEF IInv, CallInv, LaserAccounted, Held, Holds, callVars
<1>3. TypeOK' /\ (acmd'.flag = "busy" => acmd'.ept # None)
  <2> USE <1>1 DEF IInv, TypeOK, callVars, asyncVars
  <2>1. CASE ReceiverLocks
    BY <2>1 DEF ReceiverLocks
  <2>2. CASE ReceiverLosesLock
    BY <2>2 DEF ReceiverLosesLock
  <2>3. CASE EchoEnds
    BY <2>3 DEF EchoEnds
  <2>4. CASE PacketEnds
    BY <2>4 DEF PacketEnds
  <2>5. CASE \E e \in Moving : EndpointMoves(e)
    BY <2>5, LinkAssumption DEF EndpointMoves, EptStates
  <2> QED
    BY <2>1, <2>2, <2>3, <2>4, <2>5 DEF Hardware
<1> QED
  BY <1>2, <1>3 DEF IInv

LEMMA StutterPreserves == IInv /\ UNCHANGED vars => IInv'
  BY DEF IInv, TypeOK, CallInv, LaserAccounted, Held, Holds, vars

LEMMA NextIInv == IInv /\ [Next]_vars => IInv'
<1> SUFFICES ASSUME IInv, [Next]_vars PROVE IInv'
  OBVIOUS
<1>1. ASSUME NEW c \in Clients, Call(c) \/ Step(c) \/ BusError(c)
      PROVE  IInv'
  BY <1>1, CallPreserves, BusErrorPreserves, SelectMuxPreserves, SwitchOnPreserves,
     ResyncSetPreserves, ResyncClearPreserves, ReceiverReadyPreserves,
     ReceiverTimeoutPreserves, EchoGoPreserves, EchoTakenPreserves,
     EchoThrowsPreserves, SendDelayPreserves, ReadTxPreserves, ReadReadyPreserves,
     ReadThrowsPreserves, ReadRxPreserves, SwitchOffPreserves DEF Step
<1> QED
  BY <1>1, HardwarePreserves, StutterPreserves DEF Next

(* The conjunction of types, CallInv and LaserAccounted is an invariant.   *)
THEOREM Invariance == Spec => []IInv
  BY InitIInv, NextIInv, PTL DEF Spec

(* No interleaving of calls, however they fail, leaves a laser on that     *)
(* neither a call in progress nor an unhandled failure accounts for: the   *)
(* handlers of measure_endpoint_rtt, apply_endpoint_delay and              *)
(* scan_endpoint cover every other way out.                                *)
THEOREM LasersAreAccountedFor == Spec => []LaserAccounted
<1>1. IInv => LaserAccounted
  BY DEF IInv
<1> QED
  BY <1>1, Invariance, PTL

-----------------------------------------------------------------------------
(* The calls implement the lease of lasers of LaserLease.                  *)

(* The values the lease's variables take.                                  *)
Lighted == {e \in Endpoints : laser[e]}
Holders == [e \in Endpoints |-> {c \in Clients : Holds(c, e)}]

NotHolding == {"idle", "mux", "sfp_on"}

(* The lease does not see a step that leaves outcomes and lasers alone and *)
(* crosses no point where a call takes or gives up its laser.              *)
LEMMA UnseenStep ==
  ASSUME UNCHANGED <<job, out, laser, abandoned>>, NEW c \in Clients,
         \A d \in Clients \ {c} : pc'[d] = pc[d],
         ~ControlsLaser(job[c]) \/ (pc[c] \in NotHolding <=> pc'[c] \in NotHolding)
  PROVE  UNCHANGED Lease!leaseVars
<1>1. \A d \in Clients, e \in Endpoints : Holds(d, e)' <=> Holds(d, e)
  BY DEF Holds, NotHolding
<1>2. UNCHANGED Holders
  BY <1>1 DEF Holders
<1> QED
  BY <1>2 DEF Lease!leaseVars, Holders

LEMMA LeaseNext ==
  ASSUME NEW c \in Clients, NEW e \in Endpoints,
         \/ Lease!Acquire(c, e) \/ Lease!Fail(c, e) \/ Lease!Release(c, e)
         \/ Lease!Abandon(c, e) \/ Lease!ForceOff(c, e)
  PROVE  Lease!Next
  BY Zenon DEF Lease!Next

(* A client that holds no laser may change its outcome.                    *)
LEMMA ElsewhereStep ==
  ASSUME NEW c \in Clients, NEW o \in Outcomes, out' = [out EXCEPT ![c] = o],
         UNCHANGED <<laser, abandoned>>,
         \A e \in Endpoints : ~Holds(c, e) /\ ~Holds(c, e)',
         \A d \in Clients \ {c} : job'[d] = job[d] /\ pc'[d] = pc[d]
  PROVE  Lease!Next
<1>1. \A d \in Clients, e \in Endpoints : Holds(d, e)' <=> Holds(d, e)
  BY DEF Holds
<1>2. UNCHANGED Holders
  BY <1>1 DEF Holders
<1>3. Lease!HoldsNone(c)
  BY DEF Lease!HoldsNone
<1>4. o \in Lease!Handled \cup Lease!Unhandled
  BY DEF Outcomes, Lease!Handled, Lease!Unhandled
<1>5. Lease!Elsewhere(c)
  BY <1>2, <1>3, <1>4 DEF Lease!Elsewhere, Holders
<1> QED
  BY <1>5 DEF Lease!Next

(* After a step of c at which its call gives up its laser, all other       *)
(* holders are what they were.                                             *)
LEMMA HolderLeaves ==
  ASSUME IInv, NEW c \in Clients, UNCHANGED job, pc' = [pc EXCEPT ![c] = "idle"]
  PROVE  Holders' = [Holders EXCEPT ![job[c].ept] = @ \ {c}]
<1>1. \A d \in Clients, e \in Endpoints : Holds(d, e)' <=> Holds(d, e) /\ d # c
  BY DEF Holds, IInv, TypeOK
<1>2. \A e \in Endpoints : e # job[c].ept => ~Holds(c, e)
  BY DEF Holds
<1>3. \A e \in Endpoints :
        Holders'[e] = IF e = job[c].ept THEN Holders[e] \ {c} ELSE Holders[e]
  BY <1>1, <1>2 DEF Holders
<1> QED
  BY <1>3 DEF Holders

LEMMA EscapeLease ==
  ASSUME IInv, NEW c \in Clients, NEW o \in Lease!Unhandled, Escape(c, o),
         UNCHANGED <<job, laser>>
  PROVE  Lease!Next
<1>1. PICK e \in Endpoints : e = job[c].ept
  BY JobFields DEF IInv, TypeOK
<1>2. o \in Outcomes
  BY DEF Lease!Unhandled, Outcomes
<1>3. CASE Holds(c, e)
  <2>1. Holders' = [Holders EXCEPT ![e] = @ \ {c}]
    BY <1>1, HolderLeaves DEF Escape, Goto
  <2>2. abandoned' = abandoned \cup (Lighted \cap {e})
    BY <1>1, <1>3 DEF Escape, Lighted, Holds
  <2>3. c \in Holders[e]
    BY <1>1, <1>3 DEF Holders
  <2>4. Lease!Abandon(c, e)
    BY <2>1, <2>2, <2>3 DEF Lease!Abandon, Escape, Holders, Lighted
  <2> QED
    BY <1>1, <2>4, LeaseNext
<1>4. CASE ~Holds(c, e)
  <2>1. \A f \in Endpoints : ~Holds(c, f) /\ ~Holds(c, f)'
    BY <1>1, <1>4 DEF Holds, Escape, Goto, IInv, TypeOK
  <2>2. UNCHANGED abandoned
    BY <1>1, <2>1 DEF Escape, IInv, TypeOK
  <2> QED
    BY <1>2, <2>1, <2>2, ElsewhereStep DEF Escape, Goto, IInv, TypeOK
<1> QED
  BY <1>3, <1>4

LEMMA SwitchOnLease ==
  ASSUME IInv, NEW c \in Clients, SwitchOn(c)
  PROVE  Lease!Next
<1>1. PICK e \in Endpoints : e = job[c].ept /\ ControlsLaser(job[c])
  BY JobFields DEF IInv, TypeOK, CallInv, SwitchOn
<1>2. Lease!HoldsNone(c)
  BY DEF Lease!HoldsNone, SwitchOn, Holds
<1>3. Holders' = [Holders EXCEPT ![e] = @ \cup {c}]
  <2>1. \A d \in Clients, f \in Endpoints :
          Holds(d, f)' <=> Holds(d, f) \/ (d = c /\ f = e)
    BY <1>1 DEF Holds, SwitchOn, Goto, IInv, TypeOK
  <2>2. \A f \in Endpoints :
          Holders'[f] = IF f = e THEN Holders[f] \cup {c} ELSE Holders[f]
    BY <2>1 DEF Holders
  <2> QED
    BY <2>2 DEF Holders
<1>4. Lighted' = Lighted \cup {e} \/ (PacketLoss /\ Lighted' = Lighted)
  <2>1. PICK heard \in Heard : laser' = [laser EXCEPT ![e] = @ \/ heard]
    BY <1>1 DEF SwitchOn
  <2>2. CASE heard
    <3>1. laser' = [laser EXCEPT ![e] = TRUE]
      BY <1>1, <2>1, <2>2 DEF IInv, TypeOK
    <3> QED
      BY <1>1, <3>1 DEF Lighted, IInv, TypeOK
  <2>3. CASE ~heard
    BY <1>1, <2>1, <2>3, LinkAssumption DEF Lighted, IInv, TypeOK, Heard
  <2> QED
    BY <2>2, <2>3
<1>5. Lease!Acquire(c, e)
  BY <1>2, <1>3, <1>4 DEF Lease!Acquire, SwitchOn, Holders, Lighted
<1> QED
  BY <1>1, <1>5, LeaseNext

LEMMA ReceiverTimeoutLease ==
  ASSUME IInv, NEW c \in Clients, ReceiverTimeout(c)
  PROVE  [Lease!Next]_(Lease!leaseVars)
<1>1. PICK e \in Endpoints : e = job[c].ept
  BY JobFields DEF IInv, TypeOK
<1>2. CASE job[c].op = "scan_mux"
  BY <1>2, UnseenStep DEF ReceiverTimeout, NextSlot, Goto, ControlsLaser, IInv, TypeOK
<1>3. CASE job[c].op # "scan_mux" /\ ControlsLaser(job[c])
  <2>1. UNCHANGED Holders
    <3>1. \A d \in Clients, f \in Endpoints : Holds(d, f)' <=> Holds(d, f)
      BY <1>3 DEF Holds, ReceiverTimeout, Goto, LastLabel, IInv, TypeOK
    <3> QED
      BY <3>1 DEF Holders
  <2>2. c \in Holders[e]
    BY <1>1, <1>3 DEF Holders, Holds, ReceiverTimeout
  <2>3. Lease!Fail(c, e)
    BY <2>1, <2>2, <1>3 DEF Lease!Fail, ReceiverTimeout, Holders
  <2> QED
    BY <1>1, <2>3, LeaseNext
<1>4. CASE job[c].op # "scan_mux" /\ ~ControlsLaser(job[c])
  <2>1. \E o \in Outcomes : out' = [out EXCEPT ![c] = o]
    BY <1>4 DEF ReceiverTimeout, Outcomes
  <2> QED
    BY <1>4, <2>1, ElsewhereStep DEF ReceiverTimeout, Goto, Holds, IInv, TypeOK
<1> QED
  BY <1>2, <1>3, <1>4

LEMMA SwitchOffLease ==
  ASSUME IInv, NEW c \in Clients, SwitchOff(c)
  PROVE  [Lease!Next]_(Lease!leaseVars)
<1>1. PICK e \in Endpoints : e = job[c].ept
  BY JobFields DEF IInv, TypeOK
<1>2. FALSE \in Heard <=> PacketLoss
  BY LinkAssumption DEF Heard
<1>3. laser' = [laser EXCEPT ![e] = FALSE] => Lighted' = Lighted \ {e}
  BY <1>1 DEF Lighted, IInv, TypeOK
<1>4. CASE ControlsLaser(job[c])
  <2>1. Holds(c, e) /\ c \in Holders[e]
    BY <1>1, <1>4 DEF Holders, Holds, SwitchOff
  <2>2. Holders' = [Holders EXCEPT ![e] = @ \ {c}]
    BY <1>1, HolderLeaves DEF SwitchOff, Goto
  <2>3. \A f \in Endpoints : Holds(c, f) <=> f = e
    BY <1>1, <2>1 DEF Holds
  <2>4. out[c] \in Lease!Handled
    BY DEF SwitchOff, IInv, CallInv, Lease!Handled
  <2>5. \/ Lighted' = Lighted \ {e} /\ abandoned' = abandoned \ {e}
        \/ /\ PacketLoss /\ Lighted' = Lighted
           /\ abandoned' = abandoned \cup (Lighted \cap {e})
    <3>1. CASE laser' = [laser EXCEPT ![e] = FALSE] /\ abandoned' = abandoned \ {e}
      BY <1>3, <3>1
    <3>2. CASE /\ FALSE \in Heard
               /\ abandoned' = abandoned \cup {f \in Endpoints : laser[f] /\ Holds(c, f)}
               /\ UNCHANGED laser
      BY <1>1, <1>2, <2>3, <3>2 DEF Lighted
    <3> QED
      BY <1>1, <3>1, <3>2 DEF SwitchOff
  <2>6. Lease!Release(c, e)
    BY <2>1, <2>2, <2>4, <2>5 DEF Lease!Release, SwitchOff, Holders, Lighted
  <2> QED
    BY <1>1, <2>6, LeaseNext
<1>5. CASE ~ControlsLaser(job[c])
  <2>1. \A f \in Endpoints : ~Holds(c, f) /\ ~Holds(c, f)'
    BY <1>5 DEF Holds, SwitchOff
  <2>2. \A d \in Clients, f \in Endpoints : Holds(d, f)' <=> Holds(d, f)
    BY <2>1 DEF Holds, SwitchOff, Goto, IInv, TypeOK
  <2>3. UNCHANGED Holders
    BY <2>2 DEF Holders
  <2>4. CASE laser' = [laser EXCEPT ![e] = FALSE] /\ abandoned' = abandoned \ {e}
    <3>1. out[c] = "dead"
      BY <1>5 DEF SwitchOff, IInv, CallInv
    <3>2. Lease!HoldsNone(c)
      BY <2>1 DEF Lease!HoldsNone
    <3>3. Lease!ForceOff(c, e)
      BY <1>1, <1>3, <2>3, <2>4, <3>1, <3>2 DEF Lease!ForceOff, SwitchOff, Holders, Lighted
    <3> QED
      BY <1>1, <3>3, LeaseNext
  <2>5. CASE UNCHANGED <<laser, abandoned>>
    BY <2>3, <2>5 DEF Lease!leaseVars, SwitchOff, Holders
  <2>6. abandoned' = abandoned \ {e} \/ UNCHANGED abandoned
    BY <1>1, <2>1 DEF SwitchOff, IInv, TypeOK
  <2> QED
    BY <1>1, <2>1, <2>4, <2>5 DEF SwitchOff, IInv, TypeOK
<1> QED
  BY <1>4, <1>5

LEMMA CallLease ==
  ASSUME IInv, NEW c \in Clients, Call(c)
  PROVE  Lease!Next
<1>1. PICK j \in Jobs : job' = [job EXCEPT ![c] = j] /\ pc' = [pc EXCEPT ![c] = FirstLabel(j)]
  BY DEF Call, Goto
<1>2. ControlsLaser(j) => FirstLabel(j) \in NotHolding
  BY DEF FirstLabel, AfterMux, NotHolding, ControlsLaser
<1>3. \A e \in Endpoints : ~Holds(c, e) /\ ~Holds(c, e)'
  BY <1>1, <1>2 DEF Holds, Call, NotHolding, IInv, TypeOK
<1> QED
  BY <1>1, <1>3, ElsewhereStep DEF Call, Outcomes, IInv, TypeOK

LEMMA QuietLease ==
  ASSUME IInv, NEW c \in Clients,
         \/ SelectMux(c) \/ ResyncSet(c) \/ ResyncClear(c) \/ ReceiverReady(c)
         \/ EchoGo(c) \/ EchoTaken(c) \/ SendDelay(c)
         \/ ReadTx(c) \/ ReadReady(c) \/ ReadRx(c)
  PROVE  UNCHANGED Lease!leaseVars
<1>1. UNCHANGED <<job, out, laser, abandoned>>
  BY DEF SelectMux, ResyncSet, ResyncClear, ReceiverReady, EchoGo, EchoTaken,
         SendDelay, ReadTx, ReadReady, ReadRx, NextSlot
<1>2. \E l : pc' = [pc EXCEPT ![c] = l]
  BY DEF SelectMux, ResyncSet, ResyncClear, ReceiverReady, EchoGo, EchoTaken,
         SendDelay, ReadTx, ReadReady, ReadRx, NextSlot, Goto
<1>3. ~ControlsLaser(job[c]) \/ (pc[c] \in NotHolding <=> pc'[c] \in NotHolding)
  <2> USE DEF NotHolding, Goto, IInv, TypeOK
  <2>1. CASE SelectMux(c)
    BY <2>1, JobFields DEF SelectMux, AfterMux, ControlsLaser
  <2>2. CASE ResyncSet(c) \/ ResyncClear(c) \/ EchoGo(c) \/ ReadTx(c) \/ ReadReady(c)
    BY <2>2 DEF ResyncSet, ResyncClear, EchoGo, ReadTx, ReadReady
  <2>3. CASE ReceiverReady(c)
    BY <2>3 DEF ReceiverReady, NextSlot, ControlsLaser
  <2>4. CASE EchoTaken(c)
    BY <2>4 DEF EchoTaken, AfterEcho, LastLabel
  <2>5. CASE SendDelay(c)
    BY <2>5, JobFields DEF SendDelay, AfterDelay, ControlsLaser, CallInv
  <2>6. CASE ReadRx(c)
    BY <2>6 DEF ReadRx, AfterRead, LastLabel
  <2> QED
    BY <2>1, <2>2, <2>3, <2>4, <2>5, <2>6
<1> QED
  BY <1>1, <1>2, <1>3, UnseenStep DEF IInv, TypeOK

LEMMA BusErrorLease ==
  ASSUME IInv, NEW c \in Clients, BusError(c)
  PROVE  [Lease!Next]_(Lease!leaseVars)
<1>1. CASE job[c].op = "scan_mux"
  BY <1>1, UnseenStep DEF BusError, NextSlot, Goto, ControlsLaser, IInv, TypeOK
<1>2. CASE job[c].op # "scan_mux"
  BY <1>2, EscapeLease DEF BusError, Lease!Unhandled
<1> QED
  BY <1>1, <1>2

LEMMA UntouchedLease ==
  UNCHANGED <<pc, job, out, laser, abandoned>> => UNCHANGED Lease!leaseVars
<1> SUFFICES ASSUME UNCHANGED <<pc, job, out, laser, abandoned>>
             PROVE  UNCHANGED Lease!leaseVars
  OBVIOUS
<1>1. UNCHANGED Holders
  BY DEF Holders, Holds
<1> QED
  BY <1>1 DEF Lease!leaseVars, Holders

LEMMA LeaseStep == IInv /\ [Next]_vars => [Lease!Next]_(Lease!leaseVars)
<1> SUFFICES ASSUME IInv, [Next]_vars PROVE [Lease!Next]_(Lease!leaseVars)
  OBVIOUS
<1>1. ASSUME NEW c \in Clients, Call(c) \/ BusError(c)
      PROVE  [Lease!Next]_(Lease!leaseVars)
  BY <1>1, CallLease, BusErrorLease
<1>2. ASSUME NEW c \in Clients, Step(c)
      PROVE  [Lease!Next]_(Lease!leaseVars)
  <2>1. CASE EchoThrows(c) \/ ReadThrows(c)
    BY <2>1, EscapeLease DEF EchoThrows, ReadThrows, Lease!Unhandled
  <2> QED
    BY <1>2, <2>1, QuietLease, SwitchOnLease, ReceiverTimeoutLease, SwitchOffLease DEF Step
<1>3. CASE Hardware
  <2>1. UNCHANGED <<callVars, laser, abandoned>>
    BY <1>3 DEF Hardware, ReceiverLocks, ReceiverLosesLock, EchoEnds, PacketEnds,
                EndpointMoves
  <2> QED
    BY <2>1, UntouchedLease DEF callVars
<1>4. CASE UNCHANGED vars
  BY <1>4, UntouchedLease DEF vars
<1> QED
  BY <1>1, <1>2, <1>3, <1>4 DEF Next

LEMMA LeaseInit == Init => Lease!Init
<1> SUFFICES ASSUME Init PROVE Lease!Init
  OBVIOUS
<1>1. Holders = [e \in Endpoints |-> {}]
  BY DEF Holders, Holds, Init
<1> QED
  BY <1>1 DEF Init, Lease!Init, Holders

(* Every call sequence implements the lease: a laser comes on only for the *)
(* call that holds it, and a call gives it up only by asking for it to be  *)
(* switched off or by failing with one of the failures nobody catches.     *)
THEOREM CallsImplementLease == Spec => LeaseSpec
  BY LeaseInit, LeaseStep, Invariance, PTL DEF Spec, LeaseSpec, Lease!Spec


-----------------------------------------------------------------------------
(* One client uses the master at a time.                                   *)
SoleClient == \A c, d \in Clients : c = d

(* The receiver is locked only to the one endpoint it hears.               *)
LockInv == upstream # None => Lit(laser, mux) = {upstream}

(* The channel stays selected, and an echo is that of the endpoint that    *)
(* was heard behind it.                                                    *)
EchoInv(c) ==
  /\ SetsMux(job[c]) /\ job[c].op # "scan_mux" /\ pc[c] \notin {"idle", "mux"} =>
       mux = job[c].mux
  /\ pc[c] = "echo_wait" /\ echo.ept # None =>
       /\ ControlsLaser(job[c]) => echo.ept \in {job[c].ept} \cup abandoned
       /\ SetsMux(job[c]) => Port[echo.ept] = job[c].mux

(* A reply is that of the endpoint that is scanned; when it has told that  *)
(* it waits for delays, it still has none when they are sent.              *)
ReplyInv(c) ==
  /\ pc[c] = "read_poll" /\ acmd.flag = "busy" => acmd.ept = job[c].ept
  /\ (pc[c] = "read_poll" /\ acmd.flag = "ready") \/ pc[c] = "read_rx" =>
       /\ rxbuf.ept = job[c].ept
       /\ rxbuf.val = 6 => state[job[c].ept] \in {0, 6}
  /\ pc[c] = "read_rx" => acmd.flag = "ready"
  /\ pc[c] = "send_delay" =>
       round[c] = 1 /\ (job[c].op = "scan" => state[job[c].ept] \in {0, 6})

TargetInv(c) ==
  /\ rtt[c] # None /\ ControlsLaser(job[c]) => rtt[c] \in {job[c].ept} \cup abandoned
  /\ rtt[c] # None /\ SetsMux(job[c]) => Port[rtt[c]] = job[c].mux
  /\ seen[c].ept \in {None, job[c].ept}

SoleInv == LockInv /\ \A c \in Clients : EchoInv(c) /\ ReplyInv(c) /\ TargetInv(c)

LEMMA LockKept == IInv /\ LockInv /\ [Next]_vars => LockInv'
<1> SUFFICES ASSUME IInv, LockInv, [Next]_vars PROVE LockInv'
  OBVIOUS
<1>1. CASE upstream' = Relock(laser', mux')
  BY <1>1 DEF LockInv, Relock
<1>2. CASE UNCHANGED <<upstream, laser, mux>> \/ upstream' = None
  BY <1>2 DEF LockInv
<1>3. CASE ReceiverLocks
  BY <1>3 DEF LockInv, ReceiverLocks
<1>4. ASSUME NEW c \in Clients, Call(c) \/ Step(c) \/ BusError(c)
      PROVE  upstream' = Relock(laser', mux') \/ UNCHANGED <<upstream, laser, mux>> \/ upstream' = None
  <2>1. CASE SelectMux(c) \/ SwitchOn(c) \/ SwitchOff(c)
    BY <2>1 DEF SelectMux, SwitchOn, SwitchOff
  <2>2. CASE ~(SelectMux(c) \/ SwitchOn(c) \/ SwitchOff(c))
    BY <1>4, <2>2 DEF Step, Call, BusError, ResyncSet, ResyncClear, ReceiverReady, ReceiverTimeout,
       EchoGo, EchoTaken, EchoThrows, SendDelay, ReadTx, ReadReady, ReadThrows, ReadRx
  <2> QED
    BY <2>1, <2>2
<1>5. CASE ReceiverLosesLock \/ EchoEnds \/ PacketEnds \/ \E e \in Moving : EndpointMoves(e)
  BY <1>2, <1>5 DEF ReceiverLosesLock, EchoEnds, PacketEnds, EndpointMoves
<1> QED
  BY <1>1, <1>2, <1>3, <1>4, <1>5 DEF Next, Hardware, vars

(* What the receiver hears is the endpoint of the call or one whose laser  *)
(* somebody left on, behind the selected channel.                          *)
LEMMA HeardIsTarget ==
  ASSUME SoleClient, IInv, LockInv, NEW c \in Clients, upstream # None
  PROVE  /\ ControlsLaser(job[c]) => upstream \in {job[c].ept} \cup abandoned
         /\ Port[upstream] = mux
<1>1. upstream \in Endpoints /\ laser[upstream] /\ Port[upstream] = mux
  BY DEF LockInv, Lit
<1>2. upstream \in abandoned \cup Held
  BY <1>1 DEF IInv, LaserAccounted
<1>3. upstream \in Held => upstream = job[c].ept
  BY DEF Held, Holds, SoleClient
<1> QED
  BY <1>1, <1>2, <1>3

(* A step of a call that takes neither echo nor reply.                     *)
LEMMA OtherStages ==
  ASSUME NEW c \in Clients, EchoInv(c), TargetInv(c), pc[c] # "idle",
         pc[c] # "mux" \/ pc'[c] = "idle" \/ job[c].op = "scan_mux",
         pc'[c] \notin {"echo_wait", "read_poll", "read_rx", "send_delay"},
         UNCHANGED <<job, rtt, seen, mux>>, abandoned \ {job[c].ept} \subseteq abandoned'
  PROVE  EchoInv(c)' /\ ReplyInv(c)' /\ TargetInv(c)'
<1>1. EchoInv(c)'
  BY DEF EchoInv
<1>2. ReplyInv(c)'
  BY DEF ReplyInv
<1>3. TargetInv(c)'
  BY DEF TargetInv
<1> QED
  BY <1>1, <1>2, <1>3

LEMMA StepTargets ==
  ASSUME SoleClient, IInv, SoleInv, NEW c \in Clients, Call(c) \/ Step(c) \/ BusError(c)
  PROVE  EchoInv(c)' /\ ReplyInv(c)' /\ TargetInv(c)'
<1> USE DEF Goto
<1>a. EchoInv(c) /\ ReplyInv(c) /\ TargetInv(c)
  BY DEF SoleInv
<1>b. /\ job[c] \in Jobs /\ pc \in [Clients -> Labels]
      /\ job[c].op \in {"measure", "apply", "scan", "scan_mux"}
  BY JobFields DEF IInv, TypeOK
<1>1. CASE \/ SwitchOn(c) \/ ResyncSet(c) \/ ResyncClear(c) \/ SwitchOff(c) \/ SendDelay(c)
           \/ ReceiverReady(c) \/ ReceiverTimeout(c) \/ EchoThrows(c) \/ ReadThrows(c) \/ BusError(c)
  <2>1. CASE SwitchOn(c) \/ ResyncSet(c) \/ ResyncClear(c) \/ SwitchOff(c) \/ SendDelay(c)
    <3>1. /\ pc[c] \notin {"idle", "mux"} /\ UNCHANGED <<job, rtt, seen, mux>>
          /\ abandoned \ {job[c].ept} \subseteq abandoned'
      BY <2>1 DEF SwitchOn, ResyncSet, ResyncClear, SwitchOff, SendDelay
    <3>2. pc'[c] \notin {"echo_wait", "read_poll", "read_rx", "send_delay"}
      BY <1>b, <2>1 DEF SwitchOn, ResyncSet, ResyncClear, SwitchOff, SendDelay, AfterDelay
    <3> QED
      BY <1>a, <3>1, <3>2, OtherStages
  <2>2. CASE ReceiverReady(c) \/ ReceiverTimeout(c)
    <3>1. /\ pc[c] \notin {"idle", "mux"} /\ UNCHANGED <<job, rtt, seen, mux, abandoned>>
      BY <2>2 DEF ReceiverReady, ReceiverTimeout
    <3>2. pc'[c] \notin {"echo_wait", "read_poll", "read_rx", "send_delay"}
      BY <1>b, <2>2 DEF ReceiverReady, ReceiverTimeout, NextSlot, LastLabel
    <3> QED
      BY <1>a, <3>1, <3>2, OtherStages
  <2>3. CASE EchoThrows(c) \/ ReadThrows(c) \/ BusError(c)
    <3>1. /\ pc[c] # "idle" /\ UNCHANGED <<job, rtt, seen, mux>> /\ abandoned \subseteq abandoned'
      BY <2>3 DEF EchoThrows, ReadThrows, BusError, Escape
    <3>2. pc'[c] = "idle" \/ (job[c].op = "scan_mux" /\ pc'[c] = "mux")
      BY <1>b, <2>3 DEF EchoThrows, ReadThrows, BusError, Escape, NextSlot
    <3> QED
      BY <1>a, <3>1, <3>2, OtherStages
  <2> QED
    BY <1>1, <2>1, <2>2, <2>3
<1>2. CASE SelectMux(c)
  <2>1. SetsMux(job[c])
    BY <1>2 DEF SelectMux, IInv, CallInv
  <2>2. pc'[c] \notin {"idle", "echo_wait", "read_poll", "read_rx", "send_delay"}
    BY <1>b, <1>2, <2>1 DEF SelectMux, AfterMux, SetsMux
  <2>3. job[c].op # "scan_mux" => mux' = job[c].mux
    BY <1>2 DEF SelectMux
  <2>4. UNCHANGED <<job, rtt, seen, abandoned>>
    BY <1>2 DEF SelectMux
  <2> QED
    BY <1>a, <2>2, <2>3, <2>4 DEF EchoInv, ReplyInv, TargetInv
<1>3. CASE EchoGo(c)
  <2>1. /\ pc[c] = "echo_go" /\ pc'[c] = "echo_wait" /\ echo'.ept = None
        /\ UNCHANGED <<job, rtt, seen, mux, abandoned>>
    BY <1>b, <1>3 DEF EchoGo
  <2> QED
    BY <1>a, <2>1 DEF EchoInv, ReplyInv, TargetInv
<1>4. CASE EchoTaken(c)
  <2>1. /\ pc[c] = "echo_wait" /\ echo.ept # None /\ rtt'[c] = echo.ept
        /\ UNCHANGED <<job, seen, mux, abandoned, state, round>>
    BY <1>4 DEF EchoTaken, IInv, TypeOK
  <2>2. /\ pc'[c] \in {"send_delay", "read_tx", "sfp_off", "idle"}
        /\ pc'[c] = "send_delay" => job[c].op = "apply" /\ round[c] = 1
    BY <1>b, <1>4 DEF EchoTaken, AfterEcho, LastLabel
  <2> QED
    BY <1>a, <2>1, <2>2 DEF EchoInv, ReplyInv, TargetInv
<1>5. CASE ReadTx(c)
  <2>1. /\ pc[c] = "read_tx" /\ pc'[c] = "read_poll" /\ acmd' = [flag |-> "busy", ept |-> job[c].ept]
        /\ UNCHANGED <<job, rtt, seen, mux, abandoned>>
    BY <1>b, <1>5 DEF ReadTx, Transmit
  <2> QED
    BY <1>a, <2>1 DEF EchoInv, ReplyInv, TargetInv
<1>6. CASE ReadReady(c)
  <2>1. /\ pc[c] = "read_poll" /\ pc'[c] = "read_rx" /\ acmd.flag = "ready"
        /\ UNCHANGED <<job, rtt, seen, mux, abandoned, acmd, rxbuf, state>>
    BY <1>b, <1>6 DEF ReadReady, asyncVars
  <2> QED
    BY <1>a, <2>1 DEF EchoInv, ReplyInv, TargetInv
<1>7. CASE ReadRx(c)
  <2>1. /\ pc[c] = "read_rx" /\ seen'[c] = rxbuf
        /\ UNCHANGED <<job, rtt, mux, abandoned, state, round>>
    BY <1>7 DEF ReadRx, IInv, TypeOK
  <2>2. /\ pc'[c] \in {"echo_go", "send_delay", "sfp_off", "idle"}
        /\ pc'[c] = "send_delay" => rxbuf.val = 6 /\ round[c] = 1
    BY <1>b, <1>7 DEF ReadRx, AfterRead, LastLabel
  <2> QED
    BY <1>a, <2>1, <2>2 DEF EchoInv, ReplyInv, TargetInv
<1>8. CASE Call(c)
  <2>1. PICK j \in Jobs : job'[c] = j /\ pc'[c] = FirstLabel(j)
    BY <1>8, <1>b DEF Call, IInv, TypeOK
  <2>2. /\ round'[c] = 1 /\ rtt'[c] = None /\ seen'[c].ept = None
    BY <1>8 DEF Call, IInv, TypeOK
  <2>3. /\ pc'[c] \notin {"echo_wait", "read_poll", "read_rx"}
        /\ SetsMux(j) => pc'[c] = "mux"
        /\ pc'[c] = "send_delay" => j.op = "apply"
    BY <2>1, JobFields DEF FirstLabel, AfterMux
  <2> QED
    BY <2>1, <2>2, <2>3 DEF EchoInv, ReplyInv, TargetInv
<1> QED
  BY <1>1, <1>2, <1>3, <1>4, <1>5, <1>6, <1>7, <1>8 DEF Step

LEMMA HardwareTargets ==
  ASSUME SoleClient, IInv, SoleInv, NEW c \in Clients, Hardware
  PROVE  EchoInv(c)' /\ ReplyInv(c)' /\ TargetInv(c)'
<1>a. EchoInv(c) /\ ReplyInv(c) /\ TargetInv(c)
  BY DEF SoleInv
<1>b. UNCHANGED <<pc, job, round, rtt, seen, mux, abandoned>>
  BY DEF Hardware, ReceiverLocks, ReceiverLosesLock, EchoEnds, PacketEnds, EndpointMoves, callVars
<1>1. CASE ReceiverLocks \/ ReceiverLosesLock
  BY <1>a, <1>b, <1>1 DEF ReceiverLocks, ReceiverLosesLock, EchoInv, ReplyInv, TargetInv, asyncVars
<1>2. CASE EchoEnds
  <2>1. echo'.ept \in {upstream, None} /\ UNCHANGED <<acmd, rxbuf, state>>
    BY <1>2 DEF EchoEnds, asyncVars
  <2>2. EchoInv(c)'
    <3>1. job[c].op # "scan_mux" \/ pc[c] # "echo_wait"
      BY DEF IInv, CallInv
    <3> QED
      BY <1>a, <1>b, <2>1, <3>1, HeardIsTarget DEF EchoInv, SoleInv
  <2> QED
    BY <1>a, <1>b, <2>1, <2>2 DEF ReplyInv, TargetInv
<1>3. CASE PacketEnds
  <2>1. EchoInv(c)' /\ TargetInv(c)'
    BY <1>a, <1>b, <1>3 DEF PacketEnds, EchoInv, TargetInv
  <2>2. ReplyInv(c)'
    BY <1>a, <1>b, <1>3 DEF PacketEnds, ReplyInv
  <2> QED
    BY <2>1, <2>2
<1>4. ASSUME NEW e \in Moving, EndpointMoves(e)
      PROVE  EchoInv(c)' /\ ReplyInv(c)' /\ TargetInv(c)'
  <2>1. EchoInv(c)' /\ TargetInv(c)'
    BY <1>a, <1>b, <1>4 DEF EndpointMoves, EchoInv, TargetInv
  <2>2. \A f \in Endpoints : state[f] \in {0, 6} => state'[f] \in {0, 6}
    BY <1>4 DEF EndpointMoves, IInv, TypeOK, EptStates
  <2>3. job[c].ept \in Endpoints /\ UNCHANGED <<acmd, rxbuf>>
    BY <1>4, JobFields DEF EndpointMoves, IInv, TypeOK, asyncVars
  <2> QED
    BY <1>a, <1>b, <2>1, <2>2, <2>3 DEF ReplyInv
<1> QED
  BY <1>1, <1>2, <1>3, <1>4 DEF Hardware

LEMMA SoleInit == Init => SoleInv
  BY DEF Init, SoleInv, LockInv, EchoInv, ReplyInv, TargetInv

LEMMA SoleStep ==
  ASSUME SoleClient
  PROVE  IInv /\ SoleInv /\ [Next]_vars => SoleInv'
<1> SUFFICES ASSUME IInv, SoleInv, [Next]_vars PROVE SoleInv'
  OBVIOUS
<1>1. LockInv'
  BY LockKept DEF SoleInv
<1>2. ASSUME NEW c \in Clients PROVE EchoInv(c)' /\ ReplyInv(c)' /\ TargetInv(c)'
  <2>1. CASE \E d \in Clients : Call(d) \/ Step(d) \/ BusError(d)
    <3>1. Call(c) \/ Step(c) \/ BusError(c)
      BY <2>1 DEF SoleClient
    <3> QED
      BY <3>1, StepTargets
  <2>2. CASE Hardware
    BY <2>2, HardwareTargets
  <2>3. CASE UNCHANGED vars
    BY <2>3 DEF vars, SoleInv, EchoInv, ReplyInv, TargetInv
  <2> QED
    BY <2>1, <2>2, <2>3 DEF Next
<1> QED
  BY <1>1, <1>2 DEF SoleInv

LEMMA Sole ==
  ASSUME SoleClient
  PROVE  Spec => [](IInv /\ SoleInv)
<1>1. Init => IInv /\ SoleInv
  BY InitIInv, SoleInit
<1>2. IInv /\ SoleInv /\ [Next]_vars => (IInv /\ SoleInv)'
  BY NextIInv, SoleStep
<1> QED
  BY <1>1, <1>2, PTL DEF Spec

(* One client at a time: what it measures and what it reads is of the      *)
(* endpoint it addressed, or of one whose laser was abandoned, although    *)
(* neither the echo nor the reply carries an address (EchoMonitorNode's    *)
(* send_echo_and_measure_delay and VLCmdGeneratorNode's replies).          *)
THEOREM MeasurementsAreOfTarget ==
  ASSUME SoleClient
  PROVE  Spec => []MeasuresTarget
<1>1. SoleInv => MeasuresTarget
  BY DEF SoleInv, TargetInv, MeasuresTarget
<1> QED
  BY <1>1, Sole, PTL

(* And scan_endpoint never sends delays to an endpoint that has them,      *)
(* although the endpoint goes on between the read and the packet.          *)
THEOREM ScansSpareAligned ==
  ASSUME SoleClient
  PROVE  Spec => ScanSparesAligned
<1> DEFINE Spares == \A c \in Clients :
             job[c].op = "scan" /\ pc[c] = "send_delay" /\ round'[c] = 2
               => state[job[c].ept] \notin {7, 8}
<1>1. IInv /\ SoleInv /\ [Next]_vars => [Spares]_vars
  BY DEF SoleInv, ReplyInv
<1> QED
  BY <1>1, Sole, PTL DEF Spec, ScanSparesAligned
=============================================================================
