--------------------------- MODULE MCKillSwitches ---------------------------
(***************************************************************************)
(* Instances of KillSwitches for TLC.  The switches are named for their    *)
(* scope, and the requests have the columns that make them overlap.        *)
(***************************************************************************)
EXTENDS KillSwitches, TLC

CONSTANTS sms, email, p1, p2, c1, r1, r2, glob, camp, pair, blast, plat, away

RowOf ==
    [s \in Switches \ Platform |->
        CASE s = glob  -> [scope |-> "global", key |-> None, on_queued |-> "hold"]
          [] s = pair  -> [scope |-> "producer_channel", key |-> <<p1, sms>>, on_queued |-> "hold"]
          [] s = camp  -> [scope |-> "campaign", key |-> c1, on_queued |-> "hold"]
          [] s = blast -> [scope |-> "producer_channel", key |-> <<p1, sms>>, on_queued |-> "discard"]]

ReachesTenant == [s \in Platform |-> IF s = away THEN "other" ELSE "tenant"]

\* r1 is of a campaign of p1 on sms; r2 of p2, on email where there is one.
OfRequest ==
    [r \in Requests |->
        IF r = r1 THEN [channel |-> sms, producer |-> p1, campaign |-> c1]
        ELSE [channel |-> IF email \in Channels THEN email ELSE sms,
              producer |-> p2, campaign |-> None]]

Budget(crash, platform, error, skip, defer, audit) ==
    ("crash" :> crash) @@ ("platform" :> platform) @@ ("error" :> error)
        @@ ("skip" :> skip) @@ ("defer" :> defer) @@ ("audit" :> audit)

NoFaults == Budget(0, 0, 0, 0, 0, 0)
TierFaults == Budget(0, 1, 1, 0, 1, 1)
CrashAndSkip == Budget(1, 0, 0, 1, 0, 0)
=============================================================================
