----------------------------- MODULE LaserLease -----------------------------
(***************************************************************************)
(* What the calls of a timing master promise about the transmit lasers of  *)
(* the endpoints, without saying how: a laser is lit on behalf of a call   *)
(* that holds it, and a call that returns, or that fails in a way it       *)
(* handles, asks for the laser to be switched off again.  A call that      *)
(* fails otherwise leaves its laser to whoever comes next.                 *)
(***************************************************************************)
CONSTANTS Clients, Endpoints, PacketLoss

VARIABLES
  lit,        \* the lasers that are on
  holders,    \* per endpoint: the clients whose call holds its laser
  out,        \* per client: how its last call ended, or is about to end
  abandoned   \* lit lasers left behind

leaseVars == <<lit, holders, out, abandoned>>

Handled == {"ok", "dead", "not_ready"}
Unhandled == {"no_reply", "no_flag", "vl_timeout", "bus_error"}

HoldsNone(c) == \A e \in Endpoints : c \notin holders[e]

Init ==
  /\ lit \subseteq Endpoints
  /\ holders = [e \in Endpoints |-> {}]
  /\ out = [c \in Clients |-> "ok"]
  /\ abandoned = lit

(* A call takes the laser of one endpoint; its packet may get lost.        *)
Acquire(c, e) ==
  /\ HoldsNone(c)
  /\ holders' = [holders EXCEPT ![e] = @ \cup {c}]
  /\ \/ lit' = lit \cup {e}
     \/ PacketLoss /\ lit' = lit
  /\ UNCHANGED <<out, abandoned>>

(* A call that holds a laser meets a failure it handles.                   *)
Fail(c, e) ==
  /\ c \in holders[e]
  /\ out' = [out EXCEPT ![c] = "dead"] \/ out' = [out EXCEPT ![c] = "not_ready"]
  /\ UNCHANGED <<lit, holders, abandoned>>

Release(c, e) ==
  /\ c \in holders[e]
  /\ out[c] \in Handled
  /\ holders' = [holders EXCEPT ![e] = @ \ {c}]
  /\ \/ lit' = lit \ {e} /\ abandoned' = abandoned \ {e}
     \/ PacketLoss /\ lit' = lit /\ abandoned' = abandoned \cup (lit \cap {e})
  /\ UNCHANGED out

Abandon(c, e) ==
  /\ c \in holders[e]
  /\ \E o \in Unhandled : out' = [out EXCEPT ![c] = o]
  /\ holders' = [holders EXCEPT ![e] = @ \ {c}]
  /\ abandoned' = abandoned \cup (lit \cap {e})
  /\ UNCHANGED lit

(* scan_endpoint switches the laser of a dead endpoint off even when it    *)
(* was told not to control it.                                             *)
ForceOff(c, e) ==
  /\ HoldsNone(c)
  /\ out[c] = "dead"
  /\ lit' = lit \ {e}
  /\ abandoned' = abandoned \ {e}
  /\ UNCHANGED <<holders, out>>

(* A call that holds no laser starts, fails or ends.                       *)
Elsewhere(c) ==
  /\ HoldsNone(c)
  /\ \E o \in Handled \cup Unhandled : out' = [out EXCEPT ![c] = o]
  /\ UNCHANGED <<lit, holders, abandoned>>

Next ==
  \E c \in Clients :
    \/ Elsewhere(c)
    \/ \E e \in Endpoints :
         Acquire(c, e) \/ Fail(c, e) \/ Release(c, e) \/ Abandon(c, e)
           \/ ForceOff(c, e)

Spec == Init /\ [][Next]_leaseVars
=============================================================================
