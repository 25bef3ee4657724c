-------------------------- MODULE MCServiceDeploy --------------------------
(* Instances of ServiceDeploy, with the plan of every deploy, for TLC; and *)
(* Converge over bounded inputs.                                           *)
EXTENDS ServicePlan, MCConverge

CONSTANTS i1, i2, e1, e2, r1, r2, n1, n2, x, y

TwoImages    == {i1, i2}
TwoEnvs      == {e1, e2}
TwoRoutes    == {r1, r2}
TwoAddresses == {x, y}
TwoHooks     == {n1, n2}
BadHook      == {n2}
BadRoute     == {r2}

Declares(i, e, r, n, v) == [image |-> i, env |-> e, route |-> r, init |-> n, vol |-> v]

SoundPairs == {<<i1, NoEnv>>, <<i1, e1>>, <<i1, e2>>, <<i2, e2>>}

Several == {Declares(i1, e1, r1, NoInit, TRUE), Declares(i1, e2, NoRoute, NoInit, FALSE),
            Declares(i2, e2, r1, n1, TRUE), Declares(i2, e2, r2, n2, TRUE)}
=============================================================================
