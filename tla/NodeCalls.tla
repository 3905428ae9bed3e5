----------------------------- MODULE NodeCalls -----------------------------
(***************************************************************************)
(* What the calls into the smaller nodes of a device have in common: a     *)
(* caller is idle or about to make its next dispatch, and the callers      *)
(* interleave at dispatches.  The modules of the nodes extend this one.    *)
(***************************************************************************)
EXTENDS Integers, Sequences

CONSTANTS
  Callers,  \* processes that use the library
  Asks      \* per node and caller: the calls it may make, records with a field op

VARIABLES
  node,     \* the node of the device that is looked at; never changes
  at,       \* per caller: the next dispatch of its call
  asks,     \* per caller: its current or last call
  fate,     \* per caller: how the call ended, or is about to end
  alone     \* per caller: has no other call overlapped this one?

callerVars == <<node, at, asks, fate, alone>>

NoCall == [op |-> "none"]

CallsInit(nodes) ==
  /\ node \in nodes
  /\ at = [c \in Callers |-> "idle"]
  /\ asks = [c \in Callers |-> NoCall]
  /\ fate = [c \in Callers |-> "none"]
  /\ alone = [c \in Callers |-> FALSE]

(* A caller makes a call whose first dispatch is first.                    *)
Begin(c, r, first) ==
  /\ at[c] = "idle"
  /\ r \in Asks[node][c]
  /\ at' = [at EXCEPT ![c] = first]
  /\ asks' = [asks EXCEPT ![c] = r]
  /\ fate' = [fate EXCEPT ![c] = "ok"]
  /\ alone' = [d \in Callers |->
                 IF d = c THEN \A e \in Callers \ {c} : at[e] = "idle"
                          ELSE alone[d] /\ at[d] = "idle"]
  /\ UNCHANGED node

(* The dispatch before was the last one, or the next is l.                 *)
GoOn(c, l) == at' = [at EXCEPT ![c] = l] /\ UNCHANGED <<node, asks, fate, alone>>

(* The call ends otherwise than well.                                      *)
Fail(c, how) ==
  /\ at' = [at EXCEPT ![c] = "idle"]
  /\ fate' = [fate EXCEPT ![c] = how]
  /\ UNCHANGED <<node, asks, alone>>

(* uhal throws; nobody catches it, and the registers stay as they are.     *)
DispatchFails(c) == at[c] # "idle" /\ Fail(c, "bus_error")
=============================================================================
