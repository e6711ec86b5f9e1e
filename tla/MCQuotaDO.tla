----------------------------- MODULE MCQuotaDO -----------------------------
(* Instances of QuotaDO for TLC.                                           *)
EXTENDS QuotaDO, TLC

CONSTANTS tool_call, rtc_min, pro, free, k1, k2, c1, c2

Bucket(r, b, c) == [rate |-> r, burst |-> b, cap |-> c]

\* A plan rates and caps tool_call and gives rtc_min a monthly quota only,
\* which the code never reads.
Plan(bucket) == (tool_call :> bucket) @@ (rtc_min :> Unlimited)

ProBucket   == Bucket(3, 2, 2)
MCPlanDocs  == pro :> Plan(ProBucket)
MCFreePlan  == Plan(Bucket(1, 2, 1))
\* The override gives a tenant of the free plan the bucket of the other.
NoOverride  == [m \in {} |-> Unlimited]
MCOverrides == {NoOverride, tool_call :> ProBucket}

\* A qty below 0 gives budget back; a .cfg has no negative numbers.
MCQuantities == {-1, 1}

\* Call slots are interchangeable.
Slots == Permutations(Calls)
=============================================================================
