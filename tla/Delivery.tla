------------------------------ MODULE Delivery ------------------------------
(***************************************************************************)
(* What messgr promises a producer about one accepted request, without     *)
(* queues, leases, processes or crashes: it is handed to the provider zero *)
(* or more times while it is in flight, it ends once, with one status that *)
(* never changes, and it is reported sent only if the provider took it.    *)
(*                                                                         *)
(* For a request in waived (the dispatcher waives it when a new leader     *)
(* sweeps its lease from under a live task) less is promised: it may be    *)
(* handed over again after it ended, and one final status may replace      *)
(* another.  It still never goes back in flight.                           *)
(***************************************************************************)
EXTENDS Naturals

CONSTANTS Requests, Final

VARIABLES
    status,     \* "absent", "inflight" or the final status
    handoffs,   \* how often the provider has accepted the request
    waived      \* requests two tasks may be working on

Init ==
    /\ status = [r \in Requests |-> "absent"]
    /\ handoffs = [r \in Requests |-> 0]
    /\ waived = {}

Open(r) == status[r] = "inflight" \/ (r \in waived /\ status[r] \in Final)

Submit(r) ==
    /\ status[r] = "absent"
    /\ status' = [status EXCEPT ![r] = "inflight"]
    /\ UNCHANGED <<handoffs, waived>>

HandOff(r) ==
    /\ Open(r)
    /\ handoffs' = [handoffs EXCEPT ![r] = @ + 1]
    /\ UNCHANGED <<status, waived>>

Finish(r, s) ==
    /\ Open(r)
    /\ s = "sent" => handoffs[r] > 0
    /\ status' = [status EXCEPT ![r] = s]
    /\ UNCHANGED <<handoffs, waived>>

\* One sweep may meet several running tasks.
Waive(S) ==
    /\ \A r \in S : status[r] = "inflight"
    /\ waived' = waived \cup S
    /\ UNCHANGED <<status, handoffs>>

Next ==
    \/ \E r \in Requests : Submit(r) \/ HandOff(r) \/ \E s \in Final : Finish(r, s)
    \/ \E S \in SUBSET Requests : Waive(S)

Spec == Init /\ [][Next]_<<status, handoffs, waived>>
=============================================================================
