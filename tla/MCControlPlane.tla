--------------------------- MODULE MCControlPlane ---------------------------
(***************************************************************************)
(* Instances of ControlPlane for TLC.  A scenario is a handful of jobs     *)
(* that work on the same tenants at the same time, in any order; sequences *)
(* of them, a command and its repetition, are among the interleavings.     *)
(***************************************************************************)
EXTENDS ControlPlane, TLC

CONSTANTS j1, j2, j3, j4, j5, a, b, c1, c2, p1, p2, n1, n2, v1, v2

Provision(t, name) ==
    [op |-> "provision", tenant |-> t, database_name |-> name, foreign |-> FALSE]
Destroy(t) == [op |-> "destroy", tenant |-> t]
Suspend(t) == [op |-> "suspend", tenant |-> t]
Register(t, n, c, o) ==
    [op |-> "register", tenant |-> t, name |-> n, cert |-> c, owner |-> o]
Disable(t, n) == [op |-> "disable", tenant |-> t, name |-> n]
Configure(t, v) == [op |-> "configure", tenant |-> t, value |-> v]
Provide(t, v) == [op |-> "provide", tenant |-> t, value |-> v]
OpenIn(p, t) == [op |-> "open", tenant |-> t, process |-> p]
Nothing == [op |-> "none", tenant |-> a]
SuppressIn(t) == [op |-> "suppress", tenant |-> t]

With(active, x1, x2, x3, x4, x5) ==
    [active |-> active,
     cmd |-> (j1 :> x1) @@ (j2 :> x2) @@ (j3 :> x3) @@ (j4 :> x4) @@ (j5 :> x5)]

\* One certificate, registered twice in a and once in b, and disabled.
OneCert ==
    With({a, b}, Register(a, n1, c1, v1), Register(a, n1, c1, v1),
         Register(b, n1, c1, v1), Disable(a, n1), Nothing)
\* One producer, registered and disabled again and again.
OneProducer ==
    With({a}, Register(a, n1, c1, v1), Disable(a, n1), Register(a, n1, c1, v1),
         Disable(a, n1), Nothing)
\* Registrations that share a name, a certificate or both, in one tenant.
OneTenant ==
    With({a}, Register(a, n1, c1, v1), Register(a, n1, c1, v2), Register(a, n1, c2, v1),
         Register(a, n2, c1, v1), Disable(a, n1))
\* A tenant from nothing, its repetition, and everything that can end it.
Lifecycle ==
    With({}, Provision(a, a), Provision(a, a), Destroy(a), Suspend(a), Nothing)
\* A tenant that is destroyed, provisioned again, and used before and after.
Revival ==
    With({a}, Destroy(a), Provision(a, a), SuppressIn(a), SuppressIn(a), Nothing)
\* Two processes and an operator meet a tenant that has no pepper yet.
FirstUse ==
    With({a}, Configure(a, v1), OpenIn(p1, a), OpenIn(p1, a), OpenIn(p2, a), SuppressIn(a))
\* Settings changed at the same time, and commands that are refused.
Settings ==
    With({a}, Configure(a, v1), Configure(a, v2), Provide(a, v1), Provide(a, v2), Destroy(b))
Refused ==
    With({a}, [Provision(b, b) EXCEPT !.foreign = TRUE], Provision(a, b),
         Register(b, n1, c1, v1), Disable(b, n1), Provision(b, a))
\* The other commands meet a tenant whose database goes away.
Destroyed ==
    With({a}, Destroy(a), Disable(a, n1), Register(a, n1, c1, v1), Configure(a, v1), Provide(a, v1))
\* Commands for a tenant nobody has provisioned.
Unknown ==
    With({a}, Configure(b, v1), Provide(b, v1), SuppressIn(b), OpenIn(p1, b), Suspend(b))

AllScenarios ==
    {OneCert, OneProducer, OneTenant, Lifecycle, Revival, FirstUse, Settings, Refused,
     Destroyed, Unknown}
=============================================================================
