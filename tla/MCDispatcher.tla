---------------------------- MODULE MCDispatcher ----------------------------
(***************************************************************************)
(* Instances of Dispatcher for TLC.  Every instance is a choice of tasks   *)
(* (claim loops of two processes, and the kill-switch tasks a standby may  *)
(* run), of the requests' class, and of how many faults of each kind may   *)
(* happen.                                                                 *)
(***************************************************************************)
EXTENDS Dispatcher, TLC

CONSTANTS r1, r2, d1, d2, w1, w2, w3, w4

RequestSymmetry == Permutations(Requests)

\* w2 runs in d2, the others in d1.
HomeOf == [w \in Workers |-> IF w = w2 THEN d2 ELSE d1]

OnlyClaims == [w \in Workers |-> "claim"]
\* w3 is the release drain of a switch that d1 saw released, w4 the discard task
\* of one it saw engaged.
WithSwitchTasks ==
    [w \in Workers |-> IF w = w3 THEN "drain" ELSE IF w = w4 THEN "discard" ELSE "claim"]

ReachAll == [w \in Workers |-> Requests]
BatchOfTwo == [w \in Workers |-> 2]
AllTransactional == [r \in Requests |-> "transactional"]
AllMarketing == [r \in Requests |-> "marketing"]

Budget(crash, loss, error, defer) ==
    ("crash" :> crash) @@ ("loss" :> loss) @@ ("error" :> error) @@ ("defer" :> defer)

OneCrash == Budget(1, 0, 1, 0)
CrashAndDefer == Budget(1, 0, 0, 1)
OneLoss == Budget(0, 1, 0, 0)
OneError == Budget(0, 0, 1, 0)
=============================================================================
