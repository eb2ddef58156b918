------------------------------- MODULE MCGates -------------------------------
(***************************************************************************)
(* An instance of Gates for TLC: two rows and two tasks, a day of four     *)
(* minutes, zones whose clock springs forward, falls back or does neither, *)
(* and windows within a day and across midnight.                           *)
(***************************************************************************)
EXTENDS Gates, TLC

Plain == [before |-> 0, after |-> 0, at |-> 0]
Spring == [before |-> -1, after |-> 0, at |-> 3]
Fall == [before |-> 1, after |-> 0, at |-> 1]
FallAtMidnight == [before |-> 2, after |-> 0, at |-> 3]

ByDay == [start |-> 1, end |-> 2]
ByNight == [start |-> 3, end |-> 1]

OnePerDay == [per_minute |-> None, per_day |-> 1, enforcement |-> "hard"]
OnePerMinute == [per_minute |-> 1, per_day |-> None, enforcement |-> "hard"]
Softly == [per_minute |-> None, per_day |-> 1, enforcement |-> "soft"]

MCSettings ==
    {[class |-> "marketing", tz |-> Plain, customer_tz |-> Plain, quota |-> OnePerDay,
      policy |-> None],
     [class |-> "transactional", tz |-> Plain, customer_tz |-> None, quota |-> Softly,
      policy |-> ByNight],
     [class |-> "marketing", tz |-> Spring, customer_tz |-> Fall, quota |-> OnePerMinute,
      policy |-> ByDay],
     [class |-> "marketing", tz |-> Fall, customer_tz |-> Spring, quota |-> OnePerDay,
      policy |-> ByNight],
     [class |-> "marketing", tz |-> FallAtMidnight, customer_tz |-> None, quota |-> OnePerDay,
      policy |-> None]}

MCQuotas == {OnePerDay, Softly}
MCPolicies == {ByDay}
MCOverrides == {[per_day |-> 2, valid_from |-> 0, valid_to |-> 2]}
Symmetry == Permutations(Rows) \cup Permutations(Tasks)
=============================================================================
