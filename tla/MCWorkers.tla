----------------------------- MODULE MCWorkers ------------------------------
(* Instances of Workers for TLC.                                           *)
EXTENDS Workers, TLC

CONSTANTS r1, r2, r3, x, y

\* File x belongs to the family y and depends on file y, which belongs to none.
FamilyOf  == [f \in {x, y} |-> IF f = x THEN y ELSE None]
DependsOn == {<<x, y>>}

AnyText == {<<x>>, <<x, y>>, << >>}

\* Two operations of one client, and one that names the empty tenant.
Meta(c, o, t) == [client |-> c, op |-> o, tenant |-> t]
SomeMetas   == {Meta(x, x, y), Meta(x, y, y), Meta(y, y, NoTenant)}
KeyOf(c, o) == <<c, o>>

Bucket(r, b, c) == [rate |-> r, burst |-> b, cap |-> c]
Buckets   == [m \in {x, y} |-> IF m = x THEN Bucket(2, 3, 3) ELSE Bucket(-1, -1, -1)]
Tighter   == [m \in {x, y} |-> IF m = x THEN Bucket(3, 1, 2) ELSE Bucket(-1, -1, 2)]
OnePlan   == {Buckets}
OverrideOrNone == {<< >>, Tighter}
Asked      == {-1, 1, 2}
SomeQuantities == {-1, 2}

Alike == Permutations({r1, r2})
=============================================================================
