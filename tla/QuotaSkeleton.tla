---------------------------- MODULE QuotaSkeleton ---------------------------
(***************************************************************************)
(* The quota object as the kit's skeleton has it                           *)
(* (apps/quota-do/skeleton/services/quota-do), deployed from there by the  *)
(* wrangler.toml beside it.  It makes the promise of QuotaBudget in a way  *)
(* of its own: the tokens of a window are granted whole at its first call, *)
(* nothing is refilled within it, and keys of operations are never         *)
(* forgotten.                                                              *)
(*                                                                         *)
(* The limits are read from KV in two reads, and calls run between them;   *)
(* the meter is loaded, decided on and put in one step (QuotaDO says why). *)
(***************************************************************************)
EXTENDS Integers

CONSTANTS Meters, Calls, OpKeys, NoKey, Quantities,
          Plans,       \* the documents KV may hold: meter -> bucket
          Overrides,   \* limits/{tenant}: some meters -> bucket
          Window, Day, \* seconds
          Epoch, MaxTime,  \* bound: the first and last second
          MaxCredit        \* bound: no new qty below 0 once the window is this far below 0

VARIABLES plan, overrides, \* KV
          now,
          meter,           \* storage
          call,
          winTotal         \* history: debited by each meter in this window, less what a
                           \* qty below 0 gave back

vars == <<plan, overrides, now, meter, call, winTotal>>
kv   == <<plan, overrides>>

Undefined == -1
Limit     == Nat \cup {Undefined}
Config    == [rate : Limit, burst : Limit, cap : Limit]
Call      == [pc : {"idle", "plan", "overrides", "consume"},
              meter : Meters, qty : Quantities, key : OpKeys \cup {NoKey}, cfg : Config]
MeterState == [start : Nat, tokens : Nat, day : Int, used : Int, idem : SUBSET OpKeys]

\* The buckets a meter may have.
ConfigsOf(m) == {p[m] : p \in Plans} \cup {o[m] : o \in {d \in Overrides : m \in DOMAIN d}}

SkeletonAssumption ==
    /\ NoKey \notin OpKeys /\ Meters # {}
    /\ Quantities # {} /\ Quantities \subseteq Int /\ MaxCredit \in Nat
    /\ \A m \in Meters : ConfigsOf(m) \subseteq Config
    /\ Window \in Nat \ {0} /\ Day \in Nat \ {0}
    /\ Epoch \in Nat /\ MaxTime \in Nat /\ Window <= Epoch /\ Epoch <= MaxTime

Unlimited == [rate |-> Undefined, burst |-> Undefined, cap |-> Undefined]
Idle == [pc |-> "idle", meter |-> CHOOSE m \in Meters : TRUE,
         qty |-> CHOOSE q \in Quantities : TRUE, key |-> NoKey, cfg |-> Unlimited]

Init == /\ plan \in Plans /\ overrides \in Overrides /\ now = Epoch
        /\ meter = [m \in Meters |-> [start |-> 0, tokens |-> 0, day |-> Undefined,
                                      used |-> 0, idem |-> {}]]
        /\ call = [c \in Calls |-> Idle]
        /\ winTotal = [m \in Meters |-> 0]
-----------------------------------------------------------------------------
\* External: operators write KV, callers call, time passes, the object restarts.
Configure == /\ plan' \in Plans /\ overrides' \in Overrides
             /\ UNCHANGED <<now, meter, call, winTotal>>
Tick == /\ now < MaxTime /\ now' = now + 1
        /\ winTotal' = IF (now + 1) \div Window = now \div Window THEN winTotal
                      ELSE [m \in Meters |-> 0]
        /\ UNCHANGED <<kv, meter, call>>
Request(c, m, q, k) ==
    /\ call[c].pc = "idle"
    /\ q < 0 => winTotal[m] > -MaxCredit
    /\ call' = [call EXCEPT ![c] = [pc |-> "plan", meter |-> m, qty |-> q, key |-> k,
                                     cfg |-> Unlimited]]
    /\ UNCHANGED <<kv, now, meter, winTotal>>
Restart == /\ call' = [c \in Calls |-> Idle]
           /\ UNCHANGED <<kv, now, meter, winTotal>>

\* effectiveLimits: the bucket of the plan, then that of the overrides, if any.
getPlan(c) ==
    /\ call[c].pc = "plan"
    /\ call' = [call EXCEPT ![c].pc = "overrides", ![c].cfg = plan[call[c].meter]]
    /\ UNCHANGED <<kv, now, meter, winTotal>>
effectiveLimits(c) ==
    /\ call[c].pc = "overrides"
    /\ call' = [call EXCEPT ![c].pc = "consume",
                 ![c].cfg = IF call[c].meter \in DOMAIN overrides
                            THEN overrides[call[c].meter] ELSE @]
    /\ UNCHANGED <<kv, now, meter, winTotal>>

WindowStart == (now \div Window) * Window
dayKey      == now \div Day
Lower(a, b) == IF a < b THEN a ELSE b

\* A rate or a burst that is absent, or 0, refills nothing.
refill(st, cfg) ==
    IF cfg.rate <= 0 \/ cfg.burst <= 0 \/ st.start = WindowStart THEN st
    ELSE [st EXCEPT !.start = WindowStart, !.tokens = Lower(cfg.rate, cfg.burst)]
UsedToday(st)     == IF st.day = dayKey THEN st.used ELSE 0
isRequestBound(f) == f.rate # Undefined \/ f.cap # Undefined
OverCap(st, f, q) == f.cap # Undefined /\ UsedToday(st) + q > f.cap

Put(m, st, key) == meter' = [meter EXCEPT ![m] = [st EXCEPT !.idem = @ \cup ({key} \ {NoKey})]]

\* Mutant: an operation is looked up only when it would be refused.
cached_Refused(r, st) == r.key \in st.idem /\ st.tokens < r.qty
\* The key of an operation done before.
cached(r, st) == r.key \in st.idem

\* The answer, in the order of the checks; what is refused is not stored.
verdict(r, st) ==
    IF cached(r, st) THEN "cached"
    ELSE IF ~isRequestBound(r.cfg) THEN "ok"
    ELSE IF st.tokens < r.qty THEN "BACKPRESSURE"
    ELSE IF OverCap(st, r.cfg, r.qty) THEN "RATE_LIMIT" ELSE "ok"
checkAndConsume(c) ==
    LET r  == call[c]
        st == refill(meter[r.meter], r.cfg)
    IN /\ r.pc = "consume" /\ call' = [call EXCEPT ![c] = Idle]
       /\ \/ verdict(r, st) # "ok" /\ UNCHANGED <<meter, winTotal>>
          \/ /\ verdict(r, st) = "ok" /\ ~isRequestBound(r.cfg)
             /\ Put(r.meter, meter[r.meter], r.key) /\ UNCHANGED winTotal
          \/ /\ verdict(r, st) = "ok" /\ isRequestBound(r.cfg)
             /\ Put(r.meter, [st EXCEPT !.tokens = @ - r.qty, !.day = dayKey,
                                        !.used = UsedToday(st) + r.qty], r.key)
             /\ winTotal' = [winTotal EXCEPT ![r.meter] = @ + r.qty]
       /\ UNCHANGED <<kv, now>>

Next == \/ Configure \/ Tick \/ Restart
        \/ \E c \in Calls : \/ getPlan(c) \/ effectiveLimits(c) \/ checkAndConsume(c)
                            \/ \E m \in Meters, q \in Quantities, k \in OpKeys \cup {NoKey} :
                                 Request(c, m, q, k)

Spec == Init /\ [][Next]_vars
-----------------------------------------------------------------------------
(* Properties                                                              *)

TypeOK == /\ plan \in Plans /\ overrides \in Overrides /\ now \in Epoch..MaxTime
          /\ meter \in [Meters -> MeterState] /\ call \in [Calls -> Call]
          /\ winTotal \in [Meters -> Int]

\* A call that names an operation paid for costs nothing, in whatever window and
\* after whatever restart and change of plan, calls that overlap included.
PaidOnce == [][\A c \in Calls :
    (/\ call[c].pc = "consume" /\ call'[c].pc = "idle"
     /\ call[c].key \in meter[call[c].meter].idem) => UNCHANGED <<meter, winTotal>>]_vars

\* The skeleton keeps the promise of the quota service too: no window and no day
\* spends, less what a qty below 0 gave back, more than one of its budgets,
\* whatever plans are written and calls overlap, and no operation is paid twice.
\* (A bucket without a rate keeps the tokens of an earlier window: a meter that
\* has such a bucket at times has no budget of the minute.)
Budget == INSTANCE QuotaBudget WITH
    MinuteBound   <- {m \in Meters : \A f \in ConfigsOf(m) : f.rate > 0 /\ f.burst > 0},
    DayBound      <- {m \in Meters : \A f \in ConfigsOf(m) : f.cap # Undefined},
    MinuteBudgets <- [m \in Meters |-> {Lower(f.rate, f.burst) : f \in ConfigsOf(m)}],
    DayBudgets    <- [m \in Meters |-> {f.cap : f \in ConfigsOf(m)}],
    minute <- winTotal,
    day    <- [m \in Meters |-> UsedToday(meter[m])],
    paid   <- [m \in Meters |-> meter[m].idem]
KeepsTheBudget == Budget!Spec
=============================================================================
