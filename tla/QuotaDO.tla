------------------------------ MODULE QuotaDO ------------------------------
(***************************************************************************)
(* The quota Durable Object of one tenant (apps/quota-do/src/worker.ts).   *)
(*                                                                         *)
(* A call of check_and_consume reads the plan and the overrides from       *)
(* Workers KV, awaiting each read, and only then loads the meter.  The     *)
(* input gate of a Durable Object closes on storage operations but not on  *)
(* KV reads: other calls run between the KV reads, so the limits a call    *)
(* applies may be stale, while the load, the decision and the put of the   *)
(* meter are one step.  The object keeps nothing in memory: a restart      *)
(* loses the calls in flight and nothing else.  A caller that got no       *)
(* answer, or one it did not like, calls again with the same op_key, which *)
(* is a Request like any other.                                            *)
(***************************************************************************)
EXTENDS Integers

CONSTANTS
    Meters,         \* the meters calls consume
    Calls,          \* slots for concurrent calls
    OpKeys,         \* values of op_key
    NoKey,          \* a request without an op_key
    Quantities,     \* values of qty: body.qty ?? 1, of any sign
    PlanIds,        \* values KV may hold under tenant/{id}/plan_id
    PlanDocs,       \* the plans/{id} documents KV holds: plan id -> buckets
    FreePlan,       \* buckets of plans/free, or the hard-coded default
    OverrideDocs,   \* values KV may hold under limits/{tenant}: partial buckets
    Window,         \* MINUTE_WINDOW_SECONDS
    Day,            \* seconds in a UTC day
    Epoch, MaxTime, \* first and last value of the clock, in seconds
    MaxCredit       \* bound: no new qty below 0 once the day is this far below 0

Undefined == -1                       \* an absent field of a bucket
Limit     == Nat \cup {Undefined}
Config    == [rate : Limit, burst : Limit, cap : Limit]

\* Every bucket that KV can ever name for a meter.
ConfigsOf(m) == {PlanDocs[p][m] : p \in DOMAIN PlanDocs}
                \cup {FreePlan[m]}
                \cup {o[m] : o \in {d \in OverrideDocs : m \in DOMAIN d}}

ASSUME QuotaAssumption ==
    /\ Meters # {} /\ Quantities # {} /\ Quantities \subseteq Int
    /\ NoKey \notin OpKeys
    /\ FreePlan \in [Meters -> Config]
    /\ DOMAIN PlanDocs \subseteq PlanIds
    /\ \A p \in DOMAIN PlanDocs : PlanDocs[p] \in [Meters -> Config]
    /\ \A o \in OverrideDocs : /\ DOMAIN o \subseteq Meters
                               /\ \A m \in DOMAIN o : o[m] \in Config
    /\ Window \in Nat \ {0}
    /\ Day \in Nat \ {0}
    /\ Epoch \in Nat /\ MaxTime \in Nat /\ Epoch <= MaxTime
    /\ Window <= Epoch              \* Date.now() is past the first window
    /\ MaxCredit \in Nat

VARIABLES
    planId, overrides,   \* KV: tenant/{id}/plan_id and limits/{id}
    now,                 \* the clock
    meter,               \* storage: one MeterState per meter
    call,                \* the calls in flight and their answers
    winTotal, dayTotal,  \* history: debited in this window, in this day, less
                         \* what a qty below 0 gave back
    debits               \* history: number of debits of each op_key

kv      == <<planId, overrides>>
history == <<winTotal, dayTotal, debits>>
vars    == <<planId, overrides, now, meter, call, winTotal, dayTotal, debits>>

WindowStart(t) == (t \div Window) * Window
DayKey(t)      == t \div Day

Token == {"none", "ok", "cached", "BACKPRESSURE", "RATE_LIMIT"}
Call  == [pc     : {"idle", "plan_id", "overrides", "consume"},
          meter  : Meters, qty : Quantities, key : OpKeys \cup {NoKey},
          limits : Config,   \* the bucket read so far
          token  : Token,    \* idle: the last answer
          due    : Nat]      \* idle: when its retry_after_ms expires

MeterState == [minute : [start : Nat, tokens : Nat],
               day    : [key : Int, used : Int],
               idem   : SUBSET OpKeys]

FreshMeter == [minute |-> [start |-> 0, tokens |-> 0],
               day    |-> [key |-> Undefined, used |-> 0],
               idem   |-> {}]

\* The bucket a meter has in no document: cfg = limits[meter] || {}.
Unlimited == [rate |-> Undefined, burst |-> Undefined, cap |-> Undefined]

Incoming(m, q, k) == [pc |-> "plan_id", meter |-> m, qty |-> q, key |-> k,
                      limits |-> Unlimited, token |-> "none", due |-> 0]

\* An idle slot; which request it served no longer matters.
Idle(token, due) ==
    [Incoming(CHOOSE m \in Meters : TRUE, CHOOSE q \in Quantities : TRUE, NoKey)
       EXCEPT !.pc = "idle", !.token = token, !.due = due]

Init == /\ planId \in PlanIds
        /\ overrides \in OverrideDocs
        /\ now = Epoch
        /\ meter = [m \in Meters |-> FreshMeter]
        /\ call = [c \in Calls |-> Idle("none", 0)]
        /\ winTotal = [m \in Meters |-> 0]
        /\ dayTotal = [m \in Meters |-> 0]
        /\ debits = [m \in Meters |-> [k \in OpKeys |-> 0]]
-----------------------------------------------------------------------------
(* The environment: operators change KV, time passes, callers call.        *)

\* KV is edited by operators; nothing in src/ writes these keys.
AssignPlan(p) == /\ planId' = p
                 /\ UNCHANGED <<overrides, now, meter, call, history>>

SetOverrides(o) == /\ overrides' = o
                   /\ UNCHANGED <<planId, now, meter, call, history>>

Tick == /\ now < MaxTime
        /\ now' = now + 1
        /\ winTotal' = IF WindowStart(now + 1) = WindowStart(now) THEN winTotal
                       ELSE [m \in Meters |-> 0]
        /\ dayTotal' = IF DayKey(now + 1) = DayKey(now) THEN dayTotal
                       ELSE [m \in Meters |-> 0]
        /\ UNCHANGED <<kv, meter, call, debits>>

\* Nothing looks at the sign of qty.
Request(c, m, q, k) ==
    /\ call[c].pc = "idle"
    /\ q < 0 => dayTotal[m] > -MaxCredit
    /\ call' = [call EXCEPT ![c] = Incoming(m, q, k)]
    /\ UNCHANGED <<kv, now, meter, history>>

\* The object is evicted or restarted: every call in flight dies.
Restart ==
    /\ call' = [c \in Calls |->
                 IF call[c].pc = "idle" THEN call[c] ELSE Idle("none", 0)]
    /\ UNCHANGED <<kv, now, meter, history>>
-----------------------------------------------------------------------------
(* effectiveLimits                                                         *)

\* getPlan: the document of the plan, or else the free plan.
getPlan(p) == IF p \in DOMAIN PlanDocs THEN PlanDocs[p] ELSE FreePlan

readPlan(c) ==
    /\ call[c].pc = "plan_id"
    /\ call' = [call EXCEPT ![c].pc = "overrides",
                            ![c].limits = getPlan(planId)[call[c].meter]]
    /\ UNCHANGED <<kv, now, meter, history>>

\* The merge is per bucket: an override replaces the whole bucket.
readOverrides(c) ==
    /\ call[c].pc = "overrides"
    /\ call' = [call EXCEPT ![c].pc = "consume",
                            ![c].limits = IF call[c].meter \in DOMAIN overrides
                                          THEN overrides[call[c].meter] ELSE @]
    /\ UNCHANGED <<kv, now, meter, history>>
-----------------------------------------------------------------------------
(* checkAndConsume, from the load of the meter to the put                  *)

Rated(cfg) == cfg.rate > 0 /\ cfg.burst > 0
Grant(cfg) == IF cfg.rate < cfg.burst THEN cfg.rate ELSE cfg.burst
isRequestBound(cfg) == cfg.rate # Undefined \/ cfg.cap # Undefined

\* Mutant: the window of the bucket is not looked at.
refill_PerCall(minute, cfg) ==
    IF Rated(cfg) THEN [start |-> WindowStart(now), tokens |-> Grant(cfg)]
    ELSE minute

refill(minute, cfg) ==
    IF Rated(cfg) /\ (minute.start = 0 \/ minute.start # WindowStart(now))
    THEN [start |-> WindowStart(now), tokens |-> Grant(cfg)]
    ELSE minute

\* What the meter's counters are at this instant, before the call is charged.
Minute(c) == refill(meter[call[c].meter].minute, call[c].limits)
\* Mutant: the day never rolls over.
Today_Stale(c) == meter[call[c].meter].day
Today(c)  == LET day == meter[call[c].meter].day
             IN  IF day.key = DayKey(now) THEN day
                 ELSE [key |-> DayKey(now), used |-> 0]
\* Mutants: an empty bucket gives one more; the last token is never given.
Short_Empty(c)  == Minute(c).tokens < 0
Short_Strict(c) == Minute(c).tokens <= call[c].qty
Short(c)  == Minute(c).tokens < call[c].qty
Known(c)  == call[c].key \in meter[call[c].meter].idem
\* Mutant: only the last op_key is kept.
Remember_Last(idem, k) == {k} \ {NoKey}
Remember(idem, k) == idem \cup ({k} \ {NoKey})

\* Mutant: off by one.
Over_ByOne(cfg, n) == cfg.cap # Undefined /\ n > cfg.cap + 1
Over(cfg, n) == cfg.cap # Undefined /\ n > cfg.cap

\* When the client is told to call again: retry = max(0, nextRefill - now).
\* Mutant: a whole window from the call.
nextRefill_FromNow(minute) == now + Window
nextRefill(minute) ==
    (IF minute.start # 0 THEN minute.start ELSE WindowStart(now)) + Window
RetryDue(minute) == IF nextRefill(minute) > now THEN nextRefill(minute) ELSE now

Answer(c, token, due) == call' = [call EXCEPT ![c] = Idle(token, due)]

\* The op_key is in the meter's idem table.
Cached(c) ==
    /\ call[c].pc = "consume"
    /\ Known(c)
    /\ Answer(c, "cached", 0)
    /\ UNCHANGED <<kv, now, meter, history>>

Backpressure(c) ==
    /\ call[c].pc = "consume"
    /\ ~Known(c)
    /\ isRequestBound(call[c].limits)
    /\ Short(c)
    /\ Answer(c, "BACKPRESSURE", RetryDue(Minute(c)))
    /\ UNCHANGED <<kv, now, meter, history>>

\* Returns before the put: the tokens already taken are not stored.
RateLimit(c) ==
    /\ call[c].pc = "consume"
    /\ ~Known(c)
    /\ isRequestBound(call[c].limits)
    /\ ~Short(c)
    /\ Over(call[c].limits, Today(c).used + call[c].qty)
    /\ Answer(c, "RATE_LIMIT", 0)
    /\ UNCHANGED <<kv, now, meter, history>>

Debit(c) ==
    LET r == call[c] IN
    /\ r.pc = "consume"
    /\ ~Known(c)
    /\ isRequestBound(r.limits)
    /\ ~Short(c)
    /\ ~Over(r.limits, Today(c).used + r.qty)
    /\ meter' = [meter EXCEPT ![r.meter] =
         [minute |-> [start  |-> Minute(c).start,
                      tokens |-> Minute(c).tokens - r.qty],
          day    |-> [key  |-> Today(c).key,
                      used |-> Today(c).used + r.qty],
          idem   |-> Remember(@.idem, r.key)]]
    /\ Answer(c, "ok", 0)
    /\ winTotal' = [winTotal EXCEPT ![r.meter] = @ + r.qty]
    /\ dayTotal' = [dayTotal EXCEPT ![r.meter] = @ + r.qty]
    /\ debits' = IF r.key \in OpKeys
                 THEN [debits EXCEPT ![r.meter][r.key] = @ + 1] ELSE debits
    /\ UNCHANGED <<kv, now>>

\* A meter without rate and cap is never charged: only its op_key is kept.
PassThrough(c) ==
    LET r == call[c] IN
    /\ r.pc = "consume"
    /\ ~Known(c)
    /\ ~isRequestBound(r.limits)
    /\ meter' = [meter EXCEPT ![r.meter].idem = Remember(@, r.key)]
    /\ Answer(c, "ok", 0)
    /\ UNCHANGED <<kv, now, history>>

checkAndConsume(c) == Cached(c) \/ Backpressure(c) \/ RateLimit(c)
                      \/ Debit(c) \/ PassThrough(c)
-----------------------------------------------------------------------------
Next == \/ \E p \in PlanIds : AssignPlan(p)
        \/ \E o \in OverrideDocs : SetOverrides(o)
        \/ Tick
        \/ Restart
        \/ \E c \in Calls :
             \/ \E m \in Meters, q \in Quantities, k \in OpKeys \cup {NoKey} :
                  Request(c, m, q, k)
             \/ readPlan(c) \/ readOverrides(c) \/ checkAndConsume(c)

Spec == Init /\ [][Next]_vars
-----------------------------------------------------------------------------
(* Properties                                                              *)

TypeOK == /\ planId \in PlanIds
          /\ overrides \in OverrideDocs
          /\ now \in Epoch..MaxTime
          /\ meter \in [Meters -> MeterState]
          /\ call \in [Calls -> Call]
          /\ winTotal \in [Meters -> Int]
          /\ dayTotal \in [Meters -> Int]
          /\ debits \in [Meters -> [OpKeys -> Nat]]

RatedMeters  == {m \in Meters : \A cfg \in ConfigsOf(m) : Rated(cfg)}
CappedMeters == {m \in Meters : \A cfg \in ConfigsOf(m) : cfg.cap # Undefined}

\* What is debited from a rated meter within one minute window of the wall
\* clock, less what calls with a qty below 0 gave back, stays within the grant
\* of one of the tenant's buckets, however calls with stale limits, plan
\* changes, retries and restarts interleave with the lazy refill: a qty below 0
\* buys later calls its own amount and no more.
WindowBudget ==
    \A m \in RatedMeters : \E cfg \in ConfigsOf(m) : winTotal[m] <= Grant(cfg)

\* What is debited from a capped meter within one UTC day, less what was given
\* back, stays within the daily cap of one of the tenant's buckets.
DailyCap ==
    \A m \in CappedMeters : \E cfg \in ConfigsOf(m) : dayTotal[m] <= cfg.cap

\* An op_key is debited at most once from a meter, through retries,
\* restarts and any number of windows and days.
DebitedOnce == \A m \in Meters, k \in OpKeys : debits[m][k] <= 1

\* A step in which call c is answered BACKPRESSURE.
Pressed(c) == call[c].token # "BACKPRESSURE" /\ call'[c].token = "BACKPRESSURE"

\* The caller of a rated meter is told to come back at the next refill.
PunctualRetry(c) ==
    Pressed(c) /\ call[c].meter \in RatedMeters
      => /\ call'[c].due > now
         /\ call'[c].due = WindowStart(now) + Window

\* The call would take the debits of this window past what some bucket of the
\* tenant grants.
EarnedPressure(c) ==
    Pressed(c) /\ call[c].meter \in RatedMeters
      => \E cfg \in ConfigsOf(call[c].meter) :
           winTotal[call[c].meter] + call[c].qty > Grant(cfg)

\* When a rated meter answers BACKPRESSURE, retry_after_ms is positive and
\* ends exactly when the bucket is refilled, the start of the next window.
RetryAfterReachesRefill == [][\A c \in Calls : PunctualRetry(c)]_vars

\* A rated meter answers BACKPRESSURE only to a call that would take the
\* debits of this window past what one of the tenant's buckets grants.
BackpressureIsEarned == [][\A c \in Calls : EarnedPressure(c)]_vars

Grants == [m \in Meters |-> {Grant(cfg) : cfg \in ConfigsOf(m)}]
Caps   == [m \in Meters |-> {cfg.cap : cfg \in ConfigsOf(m)}]

\* The promise of the service: day is read from the stored meters, minute
\* from the history of debits, since a bucket does not store its grant.
Budget == INSTANCE QuotaBudget WITH
    MinuteBound   <- RatedMeters,
    DayBound      <- CappedMeters,
    MinuteBudgets <- Grants,
    DayBudgets    <- Caps,
    minute <- winTotal,
    day    <- [m \in Meters |-> IF meter[m].day.key = DayKey(now)
                                THEN meter[m].day.used ELSE 0],
    paid   <- [m \in Meters |-> meter[m].idem]

\* Every behaviour of the object is one the promise allows.
ImplementsBudget == Budget!Spec
=============================================================================
