----------------------------- MODULE MCReceipts -----------------------------
(***************************************************************************)
(* Instances of Receipts for TLC: receipts of a message that was, or will  *)
(* be, sent, which carry the same time, and a promote and a reconcile job  *)
(* that may overlap.                                                       *)
(***************************************************************************)
EXTENDS Receipts, TLC

CONSTANTS r1, ref1, d1, delivered, bounced, jp, jr

RefOfRequest == [r \in Requests |-> ref1]
DestOfRequest == [r \in Requests |-> d1]
RefOfPost == [x \in Posts |-> ref1]
TypeOfPost ==
    [x \in Posts |-> IF x = delivered THEN "delivered" ELSE "bounced"]
TimeOfPost == [x \in Posts |-> 1]
WorkOfJob == [j \in Jobs |-> IF j = jr THEN "reconcile" ELSE "promote"]

Budget(resend, error, rewrite) ==
    ("resend" :> resend) @@ ("error" :> error) @@ ("rewrite" :> rewrite)

OneOfEach == Budget(1, 1, 1)
=============================================================================
