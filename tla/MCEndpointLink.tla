--------------------------- MODULE MCEndpointLink ---------------------------
(* Small instances of EndpointLink for TLC.                                *)
EXTENDS EndpointLink

CONSTANTS e1, e2

(* Both endpoints share the fibre of port 0.                               *)
OneFibre == [e \in Endpoints |-> 0]

(* Every call a client can make, on every endpoint.                        *)
AllJobs ==
  {j \in Job : /\ j.op = "scan_mux" => j.ept = e1 /\ ~j.sfp
               /\ j.op # "apply" => ~j.rtt
               /\ j.op \in {"scan", "scan_mux"} => j.mux = -1
               /\ ~SetsMux(j) => j.mux = -1}

(* The calls that control lasers, on a plain master or through the mux,    *)
(* also to a port where there is nobody, a scan that does not, and the     *)
(* scan of the mux.                                                        *)
LinkJobs ==
  {j \in AllJobs :
     \/ j.mux = -1 /\ (ControlsLaser(j) \/ j.op = "scan")
     \/ j.op = "scan_mux"
     \/ SetsMux(j) /\ j.ept = e1}

(* Two clients contend for one laser: one measures while the other         *)
(* measures as well, or scans without laser control.                       *)
PairJobs ==
  {j \in AllJobs : j.mux = -1 /\ j.ept = e1
                     /\ \/ j.op = "measure" /\ j.sfp
                        \/ j.op = "scan" /\ ~j.sfp}
=============================================================================
