---------------------------- MODULE QuotaBudget ----------------------------
(***************************************************************************)
(* What the quota service promises a tenant, with no buckets, clocks, KV   *)
(* or calls: within a minute window and within a day a meter spends, less  *)
(* what operations of a negative quantity gave back, no more than one of   *)
(* its budgets, and an operation is paid once.                             *)
(***************************************************************************)
EXTENDS Integers

CONSTANTS Meters, OpKeys, NoKey, Quantities,
          MinuteBound, DayBound,   \* the meters with a minute budget, with a day budget
          MinuteBudgets, DayBudgets     \* their budgets: a set for each meter

VARIABLES minute, day,     \* spent by each meter in this window, in this day
          paid             \* the operations each meter has accepted

vars == <<minute, day, paid>>

Init == /\ minute = [m \in Meters |-> 0]
        /\ day = [m \in Meters |-> 0]
        /\ paid = [m \in Meters |-> {}]

Keep(m, k) == paid' = [paid EXCEPT ![m] = @ \cup ({k} \ {NoKey})]

Spend(m, q, k) ==
    /\ minute' = [minute EXCEPT ![m] = @ + q]
    /\ day' = [day EXCEPT ![m] = @ + q]
    /\ k \notin paid[m] /\ Keep(m, k)
    /\ m \in MinuteBound => \E g \in MinuteBudgets[m] : minute[m] + q <= g
    /\ m \in DayBound => \E g \in DayBudgets[m] : day[m] + q <= g

\* An operation on a meter that has neither budget costs nothing.
Accept(m, k) == /\ m \notin MinuteBound \cap DayBound
                /\ k \notin paid[m]
                /\ Keep(m, k)
                /\ UNCHANGED <<minute, day>>

NewMinute == /\ minute' = [m \in Meters |-> 0]
             /\ UNCHANGED <<day, paid>>

NewDay == /\ day' = [m \in Meters |-> 0]
          /\ minute' \in {minute, [m \in Meters |-> 0]}
          /\ UNCHANGED paid

Next == \/ \E m \in Meters, k \in OpKeys \cup {NoKey} :
             Accept(m, k) \/ \E q \in Quantities : Spend(m, q, k)
        \/ NewMinute \/ NewDay

Spec == Init /\ [][Next]_vars
=============================================================================
