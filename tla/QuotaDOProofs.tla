--------------------------- MODULE QuotaDOProofs ---------------------------
(* Proofs about QuotaDO, for every plan, override, meter and window.       *)
EXTENDS QuotaDO, TLAPS

USE DEF Undefined

(***************************************************************************)
(* The inductive invariant.  The bounds on the totals say nothing of the   *)
(* stored meters, so they are tied to what storage holds: in the current   *)
(* window the debits and the tokens left add up to one grant, the used     *)
(* count of the current day is the day's debits, and no total outlives     *)
(* its window or day.                                                      *)
(***************************************************************************)
InFlight == {"overrides", "consume"}

LimitsKnown == \A c \in Calls :
    call[c].pc \in InFlight => call[c].limits \in ConfigsOf(call[c].meter)

TokensAddUp == \A m \in RatedMeters :
    /\ meter[m].minute.start <= WindowStart(now)
    /\ meter[m].minute.start = WindowStart(now) =>
         \E cfg \in ConfigsOf(m) :
            winTotal[m] + meter[m].minute.tokens = Grant(cfg)
    /\ meter[m].minute.start < WindowStart(now) => winTotal[m] = 0

UsedIsDebited == \A m \in Meters :
    /\ meter[m].day.key <= DayKey(now)
    /\ meter[m].day.key = DayKey(now) => dayTotal[m] = meter[m].day.used
    /\ meter[m].day.key < DayKey(now) => dayTotal[m] = 0

KeysKept == \A m \in Meters, k \in OpKeys :
    /\ debits[m][k] <= 1
    /\ k \notin meter[m].idem => debits[m][k] = 0

IInv == /\ TypeOK
        /\ LimitsKnown
        /\ TokensAddUp
        /\ UsedIsDebited
        /\ DailyCap
        /\ KeysKept
-----------------------------------------------------------------------------
(* Windows and days *)

LEMMA WindowFacts ==
    ASSUME NEW t \in Nat
    PROVE  /\ WindowStart(t) \in Nat
           /\ WindowStart(t) <= t
           /\ t < WindowStart(t) + Window
<1>1. Window \in Nat \ {0}
  BY QuotaAssumption
<1>2. t \div Window \in Nat
  BY <1>1, SMT
<1>3. (t \div Window) * Window \in Nat
  BY <1>1, <1>2, SMT
<1>4. t = Window * (t \div Window) + (t % Window) /\ t % Window \in 0..(Window - 1)
  BY <1>1, SMT
<1>5. Window * (t \div Window) = (t \div Window) * Window
  BY <1>1, <1>2, SMT
<1>. QED
  BY <1>1, <1>3, <1>4, <1>5, SMT DEF WindowStart

LEMMA WindowMonotone ==
    ASSUME NEW t \in Nat
    PROVE  WindowStart(t) <= WindowStart(t + 1)
<1>1. Window \in Nat \ {0}
  BY QuotaAssumption
<1>2. t \div Window \in Nat /\ (t + 1) \div Window \in Nat
  BY <1>1, SMT
<1>3. t \div Window <= (t + 1) \div Window
  BY <1>1, SMT
<1>4. ASSUME NEW a \in Nat, NEW b \in Nat, a <= b
      PROVE  a * Window <= b * Window
  BY <1>1, <1>4, SMT
<1>. QED
  BY <1>2, <1>3, <1>4 DEF WindowStart

LEMMA WindowPositive ==
    ASSUME NEW t \in Nat, Epoch <= t
    PROVE  WindowStart(t) > 0
<1>1. Window \in Nat \ {0} /\ Window <= t
  BY QuotaAssumption, SMT
<1>. QED
  BY <1>1, WindowFacts, SMT DEF WindowStart

LEMMA DayFacts ==
    ASSUME NEW t \in Nat
    PROVE  DayKey(t) \in Nat /\ DayKey(t) <= DayKey(t + 1)
  BY QuotaAssumption, SMT DEF DayKey

LEMMA ConfigsTyped ==
    ASSUME NEW m \in Meters, NEW cfg \in ConfigsOf(m)
    PROVE  cfg \in Config
  BY QuotaAssumption DEF ConfigsOf

LEMMA ConfigsExist ==
    ASSUME NEW m \in Meters
    PROVE  \E cfg \in ConfigsOf(m) : TRUE
  BY DEF ConfigsOf

LEMMA PlanKnown ==
    ASSUME NEW p \in PlanIds, NEW m \in Meters
    PROVE  getPlan(p)[m] \in ConfigsOf(m)
  BY DEF getPlan, ConfigsOf

LEMMA OverrideKnown ==
    ASSUME NEW o \in OverrideDocs, NEW m \in DOMAIN o
    PROVE  o[m] \in ConfigsOf(m)
  BY DEF ConfigsOf

LEMMA IncomingTyped ==
    ASSUME NEW m \in Meters, NEW q \in Quantities, NEW k \in OpKeys \cup {NoKey}
    PROVE  /\ Incoming(m, q, k) \in Call
           /\ Incoming(m, q, k).pc = "plan_id"
           /\ Incoming(m, q, k).token = "none"
  BY DEF Incoming, Call, Unlimited, Config, Limit, Token

LEMMA IdleTyped ==
    ASSUME NEW token \in Token, NEW due \in Nat
    PROVE  /\ Idle(token, due) \in Call
           /\ Idle(token, due).pc = "idle"
           /\ Idle(token, due).token = token
           /\ Idle(token, due).due = due
<1>. DEFINE r == Incoming(CHOOSE m \in Meters : TRUE,
                          CHOOSE q \in Quantities : TRUE, NoKey)
<1>1. r \in Call
  BY QuotaAssumption, IncomingTyped
<1>2. Idle(token, due) = [r EXCEPT !.pc = "idle", !.token = token, !.due = due]
  BY DEF Idle
<1>. HIDE DEF r
<1>. QED
  BY <1>1, <1>2 DEF Call

LEMMA GrantPositive ==
    ASSUME NEW cfg \in Config, Rated(cfg)
    PROVE  Grant(cfg) \in Nat /\ cfg.rate \in Nat /\ cfg.burst \in Nat
  BY DEF Config, Limit, Rated, Grant
-----------------------------------------------------------------------------
(* Initial states *)

LEMMA InitInv == Init => IInv
<1>. SUFFICES ASSUME Init PROVE IInv
  OBVIOUS
<1>. DEFINE Fresh(m) == /\ meter[m].minute.start = 0 /\ meter[m].day.key = -1
                        /\ winTotal[m] = 0 /\ dayTotal[m] = 0
<1>0. /\ now \in Nat /\ now = Epoch
      /\ \A m \in Meters, k \in OpKeys : debits[m][k] = 0
      /\ \A c \in Calls : call[c].pc = "idle"
  BY QuotaAssumption, IdleTyped DEF Init, Token
<1>00. ASSUME NEW m \in Meters PROVE Fresh(m)
  BY DEF Init, FreshMeter
<1>1. TypeOK
  <2>1. now \in Epoch..MaxTime
    BY QuotaAssumption DEF Init
  <2>2. meter \in [Meters -> MeterState]
    BY DEF Init, MeterState, FreshMeter
  <2>3. call \in [Calls -> Call]
    BY IdleTyped DEF Init, Token
  <2>. QED
    BY <2>1, <2>2, <2>3 DEF Init, TypeOK
<1>2. LimitsKnown
  BY <1>0 DEF LimitsKnown, InFlight
<1>3. TokensAddUp
  <2>1. WindowStart(now) > 0
    BY <1>0, QuotaAssumption, WindowPositive
  <2>2. \A m \in RatedMeters : m \in Meters /\ meter[m].minute.start = 0
                               /\ winTotal[m] = 0
    BY <1>00 DEF RatedMeters
  <2>3. WindowStart(now) \in Nat
    BY <1>0, WindowFacts
  <2>. QED
    BY <2>1, <2>2, <2>3, SMT DEF TokensAddUp
<1>4. UsedIsDebited
  <2>2. DayKey(now) \in Nat
    BY <1>0, DayFacts
  <2>. SUFFICES ASSUME NEW m \in Meters
                PROVE  /\ meter[m].day.key <= DayKey(now)
                       /\ meter[m].day.key # DayKey(now)
                       /\ dayTotal[m] = 0
    BY DEF UsedIsDebited
  <2>3. meter[m].day.key = -1 /\ dayTotal[m] = 0
    BY <1>00
  <2>. QED
    BY <2>2, <2>3
<1>5. DailyCap
  <2>. SUFFICES ASSUME NEW m \in CappedMeters
                PROVE  \E cfg \in ConfigsOf(m) : dayTotal[m] <= cfg.cap
    BY DEF DailyCap
  <2>1. m \in Meters /\ dayTotal[m] = 0
    BY <1>00 DEF CappedMeters
  <2>2. PICK cfg \in ConfigsOf(m) : TRUE
    BY <2>1, ConfigsExist
  <2>3. cfg \in Config /\ cfg.cap # Undefined
    BY <2>1, <2>2, ConfigsTyped DEF CappedMeters
  <2>. QED
    BY <2>1, <2>2, <2>3 DEF Config, Limit
<1>6. KeysKept
  BY <1>0 DEF KeysKept
<1>. QED
  BY <1>1, <1>2, <1>3, <1>4, <1>5, <1>6 DEF IInv
-----------------------------------------------------------------------------
(* Steps that store nothing *)

\* Every step but Tick, Debit and PassThrough leaves the clock, the stored
\* meters and the totals alone.
LEMMA QuietStep ==
    ASSUME IInv, UNCHANGED <<now, meter, history>>, TypeOK', LimitsKnown'
    PROVE  IInv'
<1>1. TokensAddUp'
  BY DEF IInv, TokensAddUp, history, RatedMeters, WindowStart
<1>2. UsedIsDebited'
  BY DEF IInv, UsedIsDebited, history, DayKey
<1>3. DailyCap' /\ KeysKept'
  BY DEF IInv, DailyCap, KeysKept, history
<1>. QED
  BY <1>1, <1>2, <1>3 DEF IInv

LEMMA EnvironmentStep ==
    ASSUME IInv,
           \/ \E p \in PlanIds : AssignPlan(p)
           \/ \E o \in OverrideDocs : SetOverrides(o)
    PROVE  IInv'
<1>1. UNCHANGED <<now, meter, history>> /\ UNCHANGED call
  BY DEF AssignPlan, SetOverrides
<1>2. TypeOK'
  BY <1>1 DEF IInv, TypeOK, AssignPlan, SetOverrides, history
<1>3. LimitsKnown'
  BY <1>1 DEF IInv, LimitsKnown
<1>. QED
  BY <1>1, <1>2, <1>3, QuietStep

LEMMA RequestStep ==
    ASSUME IInv, NEW c \in Calls, NEW m \in Meters, NEW q \in Quantities,
           NEW k \in OpKeys \cup {NoKey}, Request(c, m, q, k)
    PROVE  IInv'
<1>1. UNCHANGED <<now, meter, history, kv>>
  BY DEF Request
<1>2. call \in [Calls -> Call]
  BY DEF IInv, TypeOK
<1>3. PICK r \in Call : call' = [call EXCEPT ![c] = r] /\ r.pc = "plan_id"
  BY IncomingTyped DEF Request
<1>4. TypeOK'
  BY <1>1, <1>2, <1>3 DEF IInv, TypeOK, history, kv
<1>5. LimitsKnown'
  BY <1>2, <1>3 DEF IInv, LimitsKnown, InFlight
<1>. QED
  BY <1>1, <1>4, <1>5, QuietStep

LEMMA RestartStep ==
    ASSUME IInv, Restart
    PROVE  IInv'
<1>1. UNCHANGED <<now, meter, history, kv>>
  BY DEF Restart
<1>2. call' \in [Calls -> Call]
  BY IdleTyped DEF IInv, TypeOK, Restart, Token
<1>3. TypeOK'
  BY <1>1, <1>2 DEF IInv, TypeOK, history, kv
<1>4. LimitsKnown'
  BY IdleTyped DEF IInv, TypeOK, LimitsKnown, InFlight, Restart, Token
<1>. QED
  BY <1>1, <1>3, <1>4, QuietStep

\* The two reads of effectiveLimits fetch a bucket some document holds.
LEMMA ReadStep ==
    ASSUME IInv, NEW c \in Calls, readPlan(c) \/ readOverrides(c)
    PROVE  IInv'
<1>1. UNCHANGED <<now, meter, history, kv>>
  BY DEF readPlan, readOverrides
<1>2. call[c].meter \in Meters /\ planId \in PlanIds /\ overrides \in OverrideDocs
  BY DEF IInv, TypeOK, Call
<1>3. getPlan(planId)[call[c].meter] \in ConfigsOf(call[c].meter)
  BY <1>2, PlanKnown
<1>4. call[c].meter \in DOMAIN overrides =>
        overrides[call[c].meter] \in ConfigsOf(call[c].meter)
  BY <1>2, OverrideKnown
<1>5. PICK b \in ConfigsOf(call[c].meter), p \in InFlight :
        call' = [call EXCEPT ![c].pc = p, ![c].limits = b]
  <2>1. CASE readPlan(c)
    BY <2>1, <1>3 DEF readPlan, InFlight
  <2>2. CASE readOverrides(c)
    <3>1. call[c].pc \in InFlight
      BY <2>2 DEF readOverrides, InFlight
    <3>2. call[c].limits \in ConfigsOf(call[c].meter)
      BY <3>1 DEF IInv, LimitsKnown
    <3>. DEFINE b == IF call[c].meter \in DOMAIN overrides
                     THEN overrides[call[c].meter] ELSE call[c].limits
    <3>3. call' = [call EXCEPT ![c].pc = "consume", ![c].limits = b]
      BY <2>2 DEF readOverrides, IInv, TypeOK
    <3>4. b \in ConfigsOf(call[c].meter) /\ "consume" \in InFlight
      BY <3>2, <1>4 DEF InFlight
    <3>. QED
      BY <3>3, <3>4
  <2>. QED
    BY <2>1, <2>2
<1>6. b \in Config
  BY <1>2, <1>5, ConfigsTyped
<1>7. call' \in [Calls -> Call]
  <2>. DEFINE r == [call[c] EXCEPT !.pc = p, !.limits = b]
  <2>1. call[c] \in Call /\ call \in [Calls -> Call]
    BY DEF IInv, TypeOK
  <2>2. r \in Call
    BY <2>1, <1>6 DEF Call, InFlight
  <2>3. call' = [call EXCEPT ![c] = r]
    BY <1>5, <2>1
  <2>. QED
    BY <2>1, <2>2, <2>3
<1>8. TypeOK'
  BY <1>1, <1>7 DEF IInv, TypeOK, history, kv
<1>9. LimitsKnown'
  BY <1>5 DEF IInv, TypeOK, LimitsKnown
<1>. QED
  BY <1>1, <1>8, <1>9, QuietStep
-----------------------------------------------------------------------------
(* checkAndConsume *)

LEMMA AnswerTyped ==
    ASSUME TypeOK, NEW c \in Calls, NEW token \in Token, NEW due \in Nat,
           Answer(c, token, due)
    PROVE  /\ call' \in [Calls -> Call]
           /\ LimitsKnown => LimitsKnown'
           /\ call'[c].token = token /\ call'[c].due = due
<1>. DEFINE r == Idle(token, due)
<1>1. call[c] \in Call /\ call \in [Calls -> Call]
  BY DEF TypeOK
<1>2. r \in Call /\ r.pc \notin InFlight /\ r.token = token /\ r.due = due
  BY IdleTyped DEF InFlight
<1>3. call' = [call EXCEPT ![c] = r]
  BY <1>1 DEF Answer
<1>4. call' \in [Calls -> Call] /\ call'[c] = r
      /\ \A d \in Calls \ {c} : call'[d] = call[d]
  BY <1>1, <1>2, <1>3
<1>. HIDE DEF r
<1>. QED
  BY <1>2, <1>4 DEF LimitsKnown

\* The counters a call finds: those of the current window if its bucket is
\* rated, and always those of the current day.
LEMMA Counters ==
    ASSUME TypeOK, NEW c \in Calls
    PROVE  /\ call[c].meter \in Meters /\ call[c].qty \in Int
           /\ call[c].limits \in Config
           /\ Minute(c) \in [start : Nat, tokens : Nat]
           /\ Rated(call[c].limits) => Minute(c).start = WindowStart(now)
           /\ Today(c) \in [key : Int, used : Int]
           /\ Today(c).key = DayKey(now)
           /\ now \in Nat /\ Epoch <= now
<1>1. /\ call[c].meter \in Meters /\ call[c].qty \in Int
      /\ call[c].limits \in Config
  BY QuotaAssumption DEF TypeOK, Call
<1>2. now \in Nat /\ Epoch <= now
  BY QuotaAssumption DEF TypeOK
<1>3. meter[call[c].meter] \in MeterState
  BY <1>1 DEF TypeOK
<1>4. WindowStart(now) \in Nat /\ DayKey(now) \in Nat
  BY <1>2, WindowFacts, DayFacts
<1>5. /\ Minute(c) \in [start : Nat, tokens : Nat]
      /\ Rated(call[c].limits) => Minute(c).start = WindowStart(now)
  <2>1. meter[call[c].meter].minute \in [start : Nat, tokens : Nat]
    BY <1>3 DEF MeterState
  <2>2. Rated(call[c].limits) => Grant(call[c].limits) \in Nat
    BY <1>1, GrantPositive
  <2>. QED
    BY <1>4, <2>1, <2>2 DEF Minute, refill
<1>6. Today(c) \in [key : Int, used : Int] /\ Today(c).key = DayKey(now)
  BY <1>3, <1>4 DEF Today, MeterState
<1>. QED
  BY <1>1, <1>2, <1>5, <1>6

\* At a rated meter the debits of this window and the tokens a call finds,
\* refilled or not, are together the grant of one of its buckets.
LEMMA TokensFound ==
    ASSUME IInv, NEW c \in Calls, call[c].pc = "consume",
           call[c].meter \in RatedMeters
    PROVE  \E cfg \in ConfigsOf(call[c].meter) :
             winTotal[call[c].meter] + Minute(c).tokens = Grant(cfg)
<1>. DEFINE m == call[c].meter
<1>1. TypeOK /\ m \in Meters
  BY Counters DEF IInv
<1>2. call[c].limits \in ConfigsOf(m)
  BY DEF IInv, LimitsKnown, InFlight
<1>3. call[c].limits \in Config /\ Rated(call[c].limits)
  BY <1>1, <1>2, ConfigsTyped DEF RatedMeters
<1>4. Grant(call[c].limits) \in Nat
  BY <1>3, GrantPositive
<1>5. WindowStart(now) \in Nat /\ WindowStart(now) > 0
  BY <1>1, Counters, WindowFacts, WindowPositive
<1>6. meter[m].minute \in [start : Nat, tokens : Nat] /\ winTotal[m] \in Int
  BY <1>1 DEF TypeOK, MeterState
<1>7. CASE meter[m].minute.start = WindowStart(now)
  <2>1. Minute(c) = meter[m].minute
    BY <1>5, <1>7 DEF Minute, refill
  <2>. QED
    BY <1>7, <2>1 DEF IInv, TokensAddUp
<1>8. CASE meter[m].minute.start # WindowStart(now)
  <2>1. Minute(c).tokens = Grant(call[c].limits)
    BY <1>3, <1>8 DEF Minute, refill
  <2>2. meter[m].minute.start <= WindowStart(now)
    BY DEF IInv, TokensAddUp
  <2>3. winTotal[m] = 0
    BY <1>5, <1>6, <1>8, <2>2 DEF IInv, TokensAddUp
  <2>. QED
    BY <1>2, <1>4, <2>1, <2>3
<1>. QED
  BY <1>7, <1>8

\* The day's debits are what Today finds.
LEMMA UsedFound ==
    ASSUME IInv, NEW c \in Calls
    PROVE  dayTotal[call[c].meter] = Today(c).used
<1>. DEFINE m == call[c].meter
<1>1. TypeOK /\ m \in Meters /\ DayKey(now) \in Nat
  BY Counters, DayFacts DEF IInv
<1>2. meter[m].day.key \in Int
  BY <1>1 DEF TypeOK, MeterState
<1>. QED
  BY <1>1, <1>2 DEF IInv, UsedIsDebited, Today

LEMMA RefusalStep ==
    ASSUME IInv, NEW c \in Calls, Cached(c) \/ Backpressure(c) \/ RateLimit(c)
    PROVE  IInv'
<1>1. UNCHANGED <<now, meter, history, kv>>
  BY DEF Cached, Backpressure, RateLimit
<1>2. PICK token \in Token, due \in Nat : Answer(c, token, due)
  <2>1. RetryDue(Minute(c)) \in Nat
    BY Counters, WindowFacts, QuotaAssumption DEF IInv, RetryDue, nextRefill
  <2>. QED
    BY <2>1 DEF Cached, Backpressure, RateLimit, Token
<1>3. call' \in [Calls -> Call] /\ LimitsKnown'
  BY <1>2, AnswerTyped DEF IInv
<1>4. TypeOK'
  BY <1>1, <1>3 DEF IInv, TypeOK, history, kv
<1>. QED
  BY <1>1, <1>3, <1>4, QuietStep

\* Debit moves qty from the tokens to the totals, of one window and one day,
\* and never debits a key it knows.
LEMMA DebitStep ==
    ASSUME IInv, NEW c \in Calls, Debit(c)
    PROVE  IInv'
<1>. DEFINE m == call[c].meter
            q == call[c].qty
            k == call[c].key
            s == [minute |-> [start  |-> Minute(c).start,
                              tokens |-> Minute(c).tokens - q],
                  day    |-> [key |-> Today(c).key, used |-> Today(c).used + q],
                  idem   |-> Remember(meter[m].idem, k)]
<1>1. /\ TypeOK /\ m \in Meters /\ q \in Int /\ call[c].limits \in Config
      /\ Minute(c) \in [start : Nat, tokens : Nat]
      /\ Today(c) \in [key : Int, used : Int]
      /\ Today(c).key = DayKey(now)
      /\ now \in Nat /\ Epoch <= now
      /\ WindowStart(now) \in Nat /\ DayKey(now) \in Nat
  BY Counters, WindowFacts, DayFacts DEF IInv
<1>2. k \in OpKeys \cup {NoKey} /\ call[c].pc = "consume"
      /\ k \notin meter[m].idem /\ Minute(c).tokens - q \in Nat
      /\ UNCHANGED <<now, planId, overrides>>
  BY <1>1 DEF Debit, Known, Short, kv, TypeOK, Call
<1>3. meter \in [Meters -> MeterState] /\ winTotal \in [Meters -> Int]
      /\ dayTotal \in [Meters -> Int] /\ debits \in [Meters -> [OpKeys -> Nat]]
  BY <1>1 DEF TypeOK
<1>4. /\ meter' = [meter EXCEPT ![m] = s]
      /\ winTotal' = [winTotal EXCEPT ![m] = winTotal[m] + q]
      /\ dayTotal' = [dayTotal EXCEPT ![m] = dayTotal[m] + q]
  BY <1>1, <1>3 DEF Debit
<1>5. s \in MeterState
  <2>1. meter[m].idem \subseteq OpKeys
    BY <1>1, <1>3 DEF MeterState
  <2>2. s.idem \subseteq OpKeys
    BY <1>2, <2>1 DEF Remember
  <2>. QED
    BY <1>1, <1>2, <2>2 DEF MeterState
<1>6. /\ call' \in [Calls -> Call] /\ LimitsKnown'
  BY <1>1, AnswerTyped DEF Debit, Token, IInv
<1>7. /\ debits' \in [Meters -> [OpKeys -> Nat]]
      /\ \A n \in Meters, j \in OpKeys :
           debits'[n][j] = IF n = m /\ j = k THEN debits[n][j] + 1 ELSE debits[n][j]
  BY <1>1, <1>2, <1>3 DEF Debit
<1>. HIDE DEF s
<1>8. TypeOK'
  <2>1. meter' \in [Meters -> MeterState]
    BY <1>3, <1>4, <1>5
  <2>2. winTotal' \in [Meters -> Int] /\ dayTotal' \in [Meters -> Int]
    BY <1>1, <1>3, <1>4
  <2>. QED
    BY <1>1, <1>2, <1>6, <1>7, <2>1, <2>2 DEF TypeOK
<1>9. TokensAddUp'
  <2>. SUFFICES ASSUME NEW n \in RatedMeters
                PROVE  /\ meter'[n].minute.start <= WindowStart(now)
                       /\ meter'[n].minute.start = WindowStart(now) =>
                            \E cfg \in ConfigsOf(n) :
                               winTotal'[n] + meter'[n].minute.tokens = Grant(cfg)
                       /\ meter'[n].minute.start < WindowStart(now) => winTotal'[n] = 0
    BY <1>2 DEF TokensAddUp, WindowStart
  <2>. n \in Meters
    BY DEF RatedMeters
  <2>1. CASE n # m
    BY <1>1, <1>3, <1>4, <2>1 DEF IInv, TokensAddUp
  <2>2. CASE n = m
    <3>1. Rated(call[c].limits)
      BY <1>2, <2>2 DEF IInv, LimitsKnown, InFlight, RatedMeters
    <3>2. Minute(c).start = WindowStart(now)
      BY <1>1, <3>1, Counters
    <3>3. PICK cfg \in ConfigsOf(m) : winTotal[m] + Minute(c).tokens = Grant(cfg)
      BY <1>2, <2>2, TokensFound
    <3>4. /\ meter'[m].minute.start = Minute(c).start
          /\ meter'[m].minute.tokens = Minute(c).tokens - q
          /\ winTotal'[m] = winTotal[m] + q
      BY <1>1, <1>3, <1>4 DEF s
    <3>5. winTotal'[m] + meter'[m].minute.tokens = Grant(cfg)
      BY <1>1, <1>3, <3>3, <3>4
    <3>. QED
      BY <1>1, <2>2, <3>2, <3>4, <3>5
  <2>. QED
    BY <2>1, <2>2
<1>10. /\ meter'[m].day.key = DayKey(now)
       /\ meter'[m].day.used = Today(c).used + q
       /\ dayTotal'[m] = Today(c).used + q
  <2>1. dayTotal[m] = Today(c).used
    BY UsedFound
  <2>. QED
    BY <1>1, <1>3, <1>4, <2>1 DEF s
<1>11. \A n \in Meters \ {m} : meter'[n] = meter[n] /\ dayTotal'[n] = dayTotal[n]
  BY <1>3, <1>4
<1>12. UsedIsDebited'
  <2>. SUFFICES ASSUME NEW n \in Meters
                PROVE  /\ meter'[n].day.key <= DayKey(now)
                       /\ meter'[n].day.key = DayKey(now) =>
                            dayTotal'[n] = meter'[n].day.used
                       /\ meter'[n].day.key < DayKey(now) => dayTotal'[n] = 0
    BY <1>2 DEF UsedIsDebited, DayKey
  <2>1. CASE n # m
    BY <1>11, <2>1 DEF IInv, UsedIsDebited
  <2>2. CASE n = m
    BY <1>1, <1>10, <2>2
  <2>. QED
    BY <2>1, <2>2
<1>13. DailyCap'
  <2>. SUFFICES ASSUME NEW n \in CappedMeters
                PROVE  \E cfg \in ConfigsOf(n) : dayTotal'[n] <= cfg.cap
    BY DEF DailyCap
  <2>. n \in Meters
    BY DEF CappedMeters
  <2>1. CASE n # m
    BY <1>11, <2>1 DEF IInv, DailyCap
  <2>2. CASE n = m
    <3>1. call[c].limits \in ConfigsOf(m) /\ call[c].limits.cap # Undefined
      BY <1>2, <2>2 DEF IInv, LimitsKnown, InFlight, CappedMeters
    <3>2. ~Over(call[c].limits, Today(c).used + q)
      BY DEF Debit
    <3>3. dayTotal'[m] <= call[c].limits.cap
      BY <1>1, <1>10, <3>1, <3>2 DEF Over, Config, Limit
    <3>. QED
      BY <2>2, <3>1, <3>3
  <2>. QED
    BY <2>1, <2>2
<1>14. KeysKept'
  <2>. SUFFICES ASSUME NEW n \in Meters, NEW j \in OpKeys
                PROVE  /\ debits'[n][j] <= 1
                       /\ j \notin meter'[n].idem => debits'[n][j] = 0
    BY DEF KeysKept
  <2>1. /\ debits[n][j] \in Nat /\ debits[n][j] <= 1
        /\ j \notin meter[n].idem => debits[n][j] = 0
    BY <1>3 DEF IInv, KeysKept
  <2>2. CASE n = m /\ j = k
    <3>1. debits'[n][j] = 1
      BY <1>2, <1>7, <2>1, <2>2
    <3>2. j \in meter'[n].idem
      BY <1>1, <1>3, <1>4, <2>2, QuotaAssumption DEF s, Remember
    <3>. QED
      BY <3>1, <3>2
  <2>3. CASE ~(n = m /\ j = k)
    <3>1. debits'[n][j] = debits[n][j]
      BY <1>7, <2>3
    <3>2. meter[n].idem \subseteq meter'[n].idem
      BY <1>1, <1>3, <1>4, <1>11 DEF s, Remember
    <3>. QED
      BY <2>1, <3>1, <3>2
  <2>. QED
    BY <2>2, <2>3
<1>. QED
  BY <1>6, <1>8, <1>9, <1>12, <1>13, <1>14 DEF IInv

LEMMA PassThroughStep ==
    ASSUME IInv, NEW c \in Calls, PassThrough(c)
    PROVE  IInv'
<1>. DEFINE m == call[c].meter
            s == [meter[m] EXCEPT !.idem = Remember(@, call[c].key)]
<1>1. TypeOK /\ m \in Meters /\ call[c].key \in OpKeys \cup {NoKey}
      /\ meter \in [Meters -> MeterState]
  BY DEF IInv, TypeOK, Call
<1>2. UNCHANGED <<planId, overrides, now, winTotal, dayTotal, debits>>
  BY DEF PassThrough, kv, history
<1>3. meter' = [meter EXCEPT ![m] = s]
  BY <1>1 DEF PassThrough
<1>4. meter[m] \in MeterState
  BY <1>1
<1>5. s \in MeterState /\ s.minute = meter[m].minute /\ s.day = meter[m].day
      /\ meter[m].idem \subseteq s.idem
  BY <1>1, <1>4 DEF MeterState, Remember
<1>. HIDE DEF s
<1>6. meter' \in [Meters -> MeterState]
      /\ \A n \in Meters : /\ meter'[n].minute = meter[n].minute
                           /\ meter'[n].day = meter[n].day
                           /\ meter[n].idem \subseteq meter'[n].idem
  BY <1>1, <1>3, <1>5
<1>7. call' \in [Calls -> Call] /\ LimitsKnown'
  BY <1>1, AnswerTyped DEF PassThrough, Token, IInv
<1>8. TypeOK'
  BY <1>1, <1>2, <1>6, <1>7 DEF TypeOK
<1>9. TokensAddUp'
  BY <1>2, <1>6 DEF IInv, TokensAddUp, RatedMeters, WindowStart
<1>10. UsedIsDebited'
  BY <1>2, <1>6 DEF IInv, UsedIsDebited, DayKey
<1>11. DailyCap' /\ KeysKept'
  BY <1>2, <1>6 DEF IInv, DailyCap, KeysKept
<1>. QED
  BY <1>7, <1>8, <1>9, <1>10, <1>11 DEF IInv
-----------------------------------------------------------------------------
(* The clock *)

\* A window or a day that ends takes its total with it; a meter that is not
\* used keeps an old window and an old day until its next call.
LEMMA TickStep ==
    ASSUME IInv, Tick
    PROVE  IInv'
<1>1. /\ now \in Nat /\ now' = now + 1 /\ now' \in Epoch..MaxTime
      /\ UNCHANGED <<planId, overrides, meter, call, debits>>
      /\ TypeOK
  BY QuotaAssumption DEF IInv, TypeOK, Tick, kv
<1>2. /\ WindowStart(now) \in Nat /\ WindowStart(now + 1) \in Nat
      /\ WindowStart(now) <= WindowStart(now + 1)
      /\ DayKey(now) \in Nat /\ DayKey(now + 1) \in Nat
      /\ DayKey(now) <= DayKey(now + 1)
  BY <1>1, WindowFacts, WindowMonotone, DayFacts
<1>3. /\ WindowStart(now)' = WindowStart(now + 1)
      /\ DayKey(now)' = DayKey(now + 1)
  BY <1>1 DEF WindowStart, DayKey
<1>4. \A m \in Meters :
        /\ winTotal'[m] = IF WindowStart(now + 1) = WindowStart(now)
                          THEN winTotal[m] ELSE 0
        /\ dayTotal'[m] = IF DayKey(now + 1) = DayKey(now) THEN dayTotal[m] ELSE 0
  BY DEF Tick
<1>5. \A m \in Meters : meter[m] \in MeterState
  BY <1>1 DEF TypeOK
<1>6. TypeOK'
  <2>1. winTotal' \in [Meters -> Int] /\ dayTotal' \in [Meters -> Int]
    BY <1>1 DEF TypeOK, Tick
  <2>. QED
    BY <1>1, <2>1 DEF TypeOK
<1>7. LimitsKnown'
  BY <1>1 DEF IInv, LimitsKnown
<1>8. TokensAddUp'
  <2>. SUFFICES ASSUME NEW m \in RatedMeters
                PROVE  /\ meter[m].minute.start <= WindowStart(now + 1)
                       /\ meter[m].minute.start = WindowStart(now + 1) =>
                            \E cfg \in ConfigsOf(m) :
                               winTotal'[m] + meter[m].minute.tokens = Grant(cfg)
                       /\ meter[m].minute.start < WindowStart(now + 1) =>
                            winTotal'[m] = 0
    BY <1>1, <1>3 DEF TokensAddUp, RatedMeters
  <2>1. m \in Meters
    BY DEF RatedMeters
  <2>2. meter[m].minute.start \in Nat
    BY <1>5, <2>1 DEF MeterState
  <2>3. CASE WindowStart(now + 1) = WindowStart(now)
    BY <1>4, <2>1, <2>3 DEF IInv, TokensAddUp
  <2>4. CASE WindowStart(now + 1) # WindowStart(now)
    <3>1. winTotal'[m] = 0
      BY <1>4, <2>1, <2>4
    <3>2. meter[m].minute.start <= WindowStart(now)
      BY DEF IInv, TokensAddUp
    <3>. QED
      BY <1>2, <2>2, <2>4, <3>1, <3>2
  <2>. QED
    BY <2>3, <2>4
<1>9. UsedIsDebited'
  <2>. SUFFICES ASSUME NEW m \in Meters
                PROVE  /\ meter[m].day.key <= DayKey(now + 1)
                       /\ meter[m].day.key = DayKey(now + 1) =>
                            dayTotal'[m] = meter[m].day.used
                       /\ meter[m].day.key < DayKey(now + 1) => dayTotal'[m] = 0
    BY <1>1, <1>3 DEF UsedIsDebited
  <2>1. meter[m].day.key \in Int
    BY <1>5 DEF MeterState
  <2>2. CASE DayKey(now + 1) = DayKey(now)
    BY <1>4, <2>2 DEF IInv, UsedIsDebited
  <2>3. CASE DayKey(now + 1) # DayKey(now)
    <3>1. dayTotal'[m] = 0
      BY <1>4, <2>3
    <3>2. meter[m].day.key <= DayKey(now)
      BY DEF IInv, UsedIsDebited
    <3>. QED
      BY <1>2, <2>1, <2>3, <3>1, <3>2
  <2>. QED
    BY <2>2, <2>3
<1>10. DailyCap'
  <2>. SUFFICES ASSUME NEW m \in CappedMeters
                PROVE  \E cfg \in ConfigsOf(m) : dayTotal'[m] <= cfg.cap
    BY DEF DailyCap
  <2>1. m \in Meters
    BY DEF CappedMeters
  <2>2. PICK cfg \in ConfigsOf(m) : dayTotal[m] <= cfg.cap
    BY DEF IInv, DailyCap
  <2>3. cfg.cap \in Nat /\ dayTotal[m] \in Int
    BY <1>1, <2>1, <2>2, ConfigsTyped DEF CappedMeters, Config, Limit, TypeOK
  <2>4. dayTotal'[m] <= cfg.cap
    BY <1>4, <2>1, <2>2, <2>3
  <2>. QED
    BY <2>4
<1>11. KeysKept'
  BY <1>1 DEF IInv, KeysKept
<1>. QED
  BY <1>6, <1>7, <1>8, <1>9, <1>10, <1>11 DEF IInv
-----------------------------------------------------------------------------
(* The invariant *)

LEMMA NextInv == IInv /\ [Next]_vars => IInv'
<1>. SUFFICES ASSUME IInv, [Next]_vars PROVE IInv'
  OBVIOUS
<1>1. CASE UNCHANGED vars
  <2>1. UNCHANGED <<now, meter, history>> /\ UNCHANGED <<planId, overrides, call>>
    BY <1>1 DEF vars, history
  <2>2. TypeOK' /\ LimitsKnown'
    BY <2>1 DEF IInv, TypeOK, LimitsKnown, history
  <2>. QED
    BY <2>1, <2>2, QuietStep
<1>2. CASE \/ \E p \in PlanIds : AssignPlan(p)
           \/ \E o \in OverrideDocs : SetOverrides(o)
  BY <1>2, EnvironmentStep
<1>3. CASE Tick
  BY <1>3, TickStep
<1>4. CASE Restart
  BY <1>4, RestartStep
<1>5. ASSUME NEW c \in Calls, NEW m \in Meters, NEW q \in Quantities,
             NEW k \in OpKeys \cup {NoKey}, Request(c, m, q, k)
      PROVE  IInv'
  BY <1>5, RequestStep
<1>6. ASSUME NEW c \in Calls, readPlan(c) \/ readOverrides(c)
      PROVE  IInv'
  BY <1>6, ReadStep
<1>7. ASSUME NEW c \in Calls, checkAndConsume(c)
      PROVE  IInv'
  BY <1>7, RefusalStep, DebitStep, PassThroughStep DEF checkAndConsume
<1>. QED
  BY <1>1, <1>2, <1>3, <1>4, <1>5, <1>6, <1>7 DEF Next

\* The strengthened invariant holds in every reachable state.
THEOREM Invariance == Spec => []IInv
  BY InitInv, NextInv, PTL DEF Spec

\* The stored meters, the calls and the totals keep their types: tokens never
\* go below zero, whatever limits a call read.
THEOREM TypeCorrect == Spec => []TypeOK
<1>1. IInv => TypeOK
  BY DEF IInv
<1>. QED
  BY <1>1, Invariance, PTL

\* The daily cap holds whatever the clients and the operators do.
THEOREM DailyCapHolds == Spec => []DailyCap
<1>1. IInv => DailyCap
  BY DEF IInv
<1>. QED
  BY <1>1, Invariance, PTL

\* An op_key is debited once, through retries and restarts.
THEOREM DebitedOnceHolds == Spec => []DebitedOnce
<1>1. IInv => DebitedOnce
  BY DEF IInv, KeysKept, DebitedOnce
<1>. QED
  BY <1>1, Invariance, PTL

\* No minute window debits more from a rated meter than a bucket grants.
THEOREM WindowBudgetHolds == Spec => []WindowBudget
<1>1. IInv => WindowBudget
  <2>. SUFFICES ASSUME IInv, NEW m \in RatedMeters
                PROVE  \E cfg \in ConfigsOf(m) : winTotal[m] <= Grant(cfg)
    BY DEF WindowBudget
  <2>1. m \in Meters /\ TypeOK
    BY DEF RatedMeters, IInv
  <2>2. /\ winTotal[m] \in Int /\ meter[m].minute.tokens \in Nat
        /\ meter[m].minute.start \in Nat /\ WindowStart(now) \in Nat
    BY <2>1, QuotaAssumption, WindowFacts DEF TypeOK, MeterState
  <2>3. CASE meter[m].minute.start = WindowStart(now)
    <3>1. PICK cfg \in ConfigsOf(m) :
             winTotal[m] + meter[m].minute.tokens = Grant(cfg)
      BY <2>3 DEF IInv, TokensAddUp
    <3>. QED
      BY <2>2, <3>1
  <2>4. CASE meter[m].minute.start # WindowStart(now)
    <3>1. winTotal[m] = 0
      BY <2>2, <2>4 DEF IInv, TokensAddUp
    <3>2. PICK cfg \in ConfigsOf(m) : TRUE
      BY <2>1, ConfigsExist
    <3>3. Grant(cfg) \in Nat
      BY <2>1, <3>2, ConfigsTyped, GrantPositive DEF RatedMeters
    <3>. QED
      BY <3>1, <3>3
  <2>. QED
    BY <2>3, <2>4
<1>. QED
  BY <1>1, Invariance, PTL
-----------------------------------------------------------------------------
(* What BACKPRESSURE means *)

\* A call is answered BACKPRESSURE by its own Backpressure step only.
LEMMA PressedBy ==
    ASSUME IInv, Next, NEW c \in Calls, Pressed(c)
    PROVE  Backpressure(c)
<1>1. call \in [Calls -> Call]
  BY DEF IInv, TypeOK
<1>2. ASSUME NEW d \in Calls, NEW token \in Token \ {"BACKPRESSURE"}, NEW due \in Nat,
             Answer(d, token, due)
      PROVE  FALSE
  BY <1>1, <1>2, IdleTyped DEF Pressed, Answer
<1>3. ASSUME NEW d \in Calls, Backpressure(d)
      PROVE  d = c
  BY <1>1, <1>3 DEF Pressed, Backpressure, Answer
<1>0. ASSUME NEW d \in Calls, call'[d].token \in {"none", call[d].token},
             \A e \in Calls \ {d} : call'[e] = call[e]
      PROVE  FALSE
  BY <1>0 DEF Pressed
<1>4. ASSUME NEW d \in Calls, readPlan(d) \/ readOverrides(d)
      PROVE  FALSE
  <2>1. call[d] \in Call
    BY <1>1
  <2>2. PICK b, p : call' = [call EXCEPT ![d] = [call[d] EXCEPT !.pc = p,
                                                               !.limits = b]]
    BY <1>1, <1>4 DEF readPlan, readOverrides
  <2>3. [call[d] EXCEPT !.pc = p, !.limits = b].token = call[d].token
    BY <2>1 DEF Call
  <2>4. call'[d].token = call[d].token /\ \A e \in Calls \ {d} : call'[e] = call[e]
    BY <1>1, <2>2, <2>3
  <2>. QED
    BY <1>0, <2>4
<1>5. ASSUME NEW d \in Calls, NEW m \in Meters, NEW q \in Quantities,
             NEW k \in OpKeys \cup {NoKey}, Request(d, m, q, k)
      PROVE  FALSE
  <2>1. call'[d].token = "none" /\ \A e \in Calls \ {d} : call'[e] = call[e]
    BY <1>1, <1>5, IncomingTyped DEF Request
  <2>. QED
    BY <1>0, <2>1
<1>6. CASE Restart
  BY <1>1, <1>6, IdleTyped DEF Pressed, Restart, Token
<1>7. ASSUME UNCHANGED call PROVE FALSE
  BY <1>7 DEF Pressed
<1>8. \A d \in Calls : ~(Cached(d) \/ RateLimit(d) \/ Debit(d) \/ PassThrough(d))
  BY <1>2 DEF Cached, RateLimit, Debit, PassThrough, Token
<1>. QED
  BY <1>3, <1>4, <1>5, <1>6, <1>7, <1>8
     DEF Next, checkAndConsume, AssignPlan, SetOverrides, Tick

\* BACKPRESSURE of a rated meter always means a spent minute budget.
THEOREM BackpressureIsEarnedHolds == Spec => BackpressureIsEarned
<1>1. ASSUME IInv, [Next]_vars, NEW c \in Calls, Pressed(c),
             call[c].meter \in RatedMeters
      PROVE  \E cfg \in ConfigsOf(call[c].meter) :
               winTotal[call[c].meter] + call[c].qty > Grant(cfg)
  <2>1. Backpressure(c)
    BY <1>1, PressedBy DEF vars, Pressed
  <2>2. PICK cfg \in ConfigsOf(call[c].meter) :
           winTotal[call[c].meter] + Minute(c).tokens = Grant(cfg)
    BY <1>1, <2>1, TokensFound DEF Backpressure
  <2>3. Minute(c).tokens < call[c].qty
    BY <2>1 DEF Backpressure, Short
  <2>4. /\ winTotal[call[c].meter] \in Int /\ call[c].qty \in Int
        /\ Minute(c).tokens \in Nat
    BY <1>1, Counters DEF IInv, TypeOK
  <2>. QED
    BY <2>2, <2>3, <2>4
<1>2. IInv /\ [Next]_vars => [\A c \in Calls : EarnedPressure(c)]_vars
  BY <1>1 DEF EarnedPressure
<1>. QED
  BY <1>2, Invariance, PTL DEF Spec, BackpressureIsEarned

\* retry_after_ms of a rated meter ends at the next refill, never before the
\* answer and never in the window after the next.
THEOREM RetryAfterHolds == Spec => RetryAfterReachesRefill
<1>1. ASSUME IInv, [Next]_vars, NEW c \in Calls, Pressed(c),
             call[c].meter \in RatedMeters
      PROVE  /\ call'[c].due > now
             /\ call'[c].due = WindowStart(now) + Window
  <2>1. Backpressure(c)
    BY <1>1, PressedBy DEF vars, Pressed
  <2>2. /\ TypeOK /\ call[c].limits \in ConfigsOf(call[c].meter)
        /\ call[c].meter \in Meters
    BY <1>1, <2>1, Counters DEF Backpressure, IInv, LimitsKnown, InFlight
  <2>3. Rated(call[c].limits)
    BY <1>1, <2>2 DEF RatedMeters
  <2>4. /\ Minute(c).start = WindowStart(now)
        /\ now \in Nat /\ WindowStart(now) \in Nat /\ WindowStart(now) > 0
        /\ now < WindowStart(now) + Window
    BY <2>2, <2>3, Counters, WindowFacts, WindowPositive
  <2>5. RetryDue(Minute(c)) = WindowStart(now) + Window
    BY <2>4 DEF RetryDue, nextRefill
  <2>6. call'[c].due = RetryDue(Minute(c))
    <3>1. RetryDue(Minute(c)) \in Nat
      BY <2>4, <2>5, QuotaAssumption
    <3>. QED
      BY <2>1, <2>2, <3>1, AnswerTyped DEF Backpressure, Token
  <2>. QED
    BY <2>4, <2>5, <2>6
<1>2. IInv /\ [Next]_vars => [\A c \in Calls : PunctualRetry(c)]_vars
  BY <1>1 DEF PunctualRetry
<1>. QED
  BY <1>2, Invariance, PTL DEF Spec, RetryAfterReachesRefill
-----------------------------------------------------------------------------
(* QuotaDO implements QuotaBudget *)

\* The day's spending as the stored meters show it.
dayBar == [m \in Meters |-> IF meter[m].day.key = DayKey(now)
                            THEN meter[m].day.used ELSE 0]
paidBar == [m \in Meters |-> meter[m].idem]

LEMMA BudgetInit == Init => Budget!Init
<1>. SUFFICES ASSUME Init PROVE Budget!Init
  OBVIOUS
<1>1. now \in Nat
  BY QuotaAssumption DEF Init
<1>2. DayKey(now) \in Nat
  BY <1>1, DayFacts
<1>3. \A m \in Meters : meter[m].day.key = -1 /\ meter[m].idem = {}
  BY DEF Init, FreshMeter
<1>4. -1 # DayKey(now)
  BY <1>2
<1>5. dayBar = [m \in Meters |-> 0] /\ paidBar = [m \in Meters |-> {}]
  BY <1>3, <1>4 DEF dayBar, paidBar
<1>6. winTotal = [m \in Meters |-> 0]
  BY DEF Init
<1>. QED
  BY <1>5, <1>6 DEF Budget!Init, dayBar, paidBar

LEMMA QuietBudget ==
    ASSUME UNCHANGED <<now, meter, history>>
    PROVE  UNCHANGED Budget!vars
  BY DEF Budget!vars, history, DayKey

LEMMA SpendIsNext ==
    ASSUME NEW m \in Meters, NEW q \in Quantities, NEW k \in OpKeys \cup {NoKey},
           Budget!Spend(m, q, k)
    PROVE  Budget!Next
  BY DEF Budget!Next

LEMMA AcceptIsNext ==
    ASSUME NEW m \in Meters, NEW k \in OpKeys \cup {NoKey}, Budget!Accept(m, k)
    PROVE  Budget!Next
  BY DEF Budget!Next

\* A debit is a Spend: the tokens found bound it by a grant, the limits read by
\* a cap.
LEMMA DebitIsSpend ==
    ASSUME IInv, NEW c \in Calls, Debit(c)
    PROVE  Budget!Next
<1>. DEFINE m == call[c].meter
            q == call[c].qty
            k == call[c].key
<1>1. /\ TypeOK /\ m \in Meters /\ q \in Quantities /\ q \in Int
      /\ k \in OpKeys \cup {NoKey} /\ call[c].limits \in Config
      /\ Minute(c) \in [start : Nat, tokens : Nat]
      /\ Today(c) \in [key : Int, used : Int]
      /\ Today(c).key = DayKey(now)
      /\ meter \in [Meters -> MeterState] /\ winTotal \in [Meters -> Int]
  BY Counters DEF IInv, TypeOK, Call
<1>2. /\ call[c].pc = "consume" /\ k \notin meter[m].idem
      /\ ~(Minute(c).tokens < q) /\ now' = now
      /\ ~Over(call[c].limits, Today(c).used + q)
  BY DEF Debit, Known, Short
<1>3. call[c].limits \in ConfigsOf(m)
  BY <1>2 DEF IInv, LimitsKnown, InFlight
<1>4. dayBar \in [Meters -> Int] /\ dayBar[m] = Today(c).used
  BY <1>1 DEF dayBar, Today, MeterState
<1>5. paidBar[m] = meter[m].idem /\ k \notin paidBar[m]
  BY <1>1, <1>2 DEF paidBar
<1>6. m \in RatedMeters =>
        \E g \in [n \in Meters |-> {Grant(cfg) : cfg \in ConfigsOf(n)}][m] :
           winTotal[m] + q <= g
  <2>. SUFFICES ASSUME m \in RatedMeters
                PROVE  \E cfg \in ConfigsOf(m) : winTotal[m] + q <= Grant(cfg)
    BY <1>1
  <2>1. PICK cfg \in ConfigsOf(m) : winTotal[m] + Minute(c).tokens = Grant(cfg)
    BY <1>2, TokensFound
  <2>2. winTotal[m] \in Int
    BY <1>1
  <2>. QED
    BY <1>1, <1>2, <2>1, <2>2
<1>7. m \in CappedMeters =>
        \E g \in [n \in Meters |-> {cfg.cap : cfg \in ConfigsOf(n)}][m] :
           dayBar[m] + q <= g
  <2>. SUFFICES ASSUME m \in CappedMeters
                PROVE  \E cfg \in ConfigsOf(m) : dayBar[m] + q <= cfg.cap
    BY <1>1
  <2>1. call[c].limits.cap # Undefined
    BY <1>3 DEF CappedMeters
  <2>2. dayBar[m] + q <= call[c].limits.cap
    BY <1>1, <1>2, <1>4, <2>1 DEF Over, Config, Limit
  <2>. QED
    BY <1>3, <2>2
<1>8. /\ \A n \in Meters \ {m} : meter'[n] = meter[n]
      /\ meter'[m].day.key = DayKey(now)
      /\ meter'[m].day.used = Today(c).used + q
      /\ meter'[m].idem = meter[m].idem \cup ({k} \ {NoKey})
      /\ winTotal' = [winTotal EXCEPT ![m] = @ + q]
  BY <1>1 DEF Debit, Remember
<1>9. dayBar' = [dayBar EXCEPT ![m] = @ + q]
  <2>1. \A n \in Meters \ {m} : dayBar'[n] = dayBar[n]
    BY <1>2, <1>8 DEF dayBar, DayKey
  <2>2. dayBar'[m] = dayBar[m] + q
    BY <1>1, <1>2, <1>4, <1>8 DEF dayBar, DayKey
  <2>3. dayBar' = [n \in Meters |-> dayBar'[n]]
    BY DEF dayBar
  <2>. QED
    BY <1>4, <2>1, <2>2, <2>3
<1>10. paidBar' = [paidBar EXCEPT ![m] = @ \cup ({k} \ {NoKey})]
  BY <1>1, <1>8 DEF paidBar
<1>11. PICK mm \in Meters, qq \in Quantities, kk \in OpKeys \cup {NoKey} :
          mm = m /\ qq = q /\ kk = k
  BY <1>1
<1>12. Budget!Spend(mm, qq, kk)
  BY <1>11, <1>5, <1>6, <1>7, <1>8, <1>9, <1>10
     DEF Budget!Spend, Budget!Keep, dayBar, paidBar, Grants, Caps
<1>. QED
  BY <1>12, SpendIsNext

LEMMA PassThroughIsAccept ==
    ASSUME IInv, NEW c \in Calls, PassThrough(c)
    PROVE  Budget!Next
<1>. DEFINE m == call[c].meter
            k == call[c].key
<1>1. /\ m \in Meters /\ k \in OpKeys \cup {NoKey}
      /\ meter \in [Meters -> MeterState] /\ meter[m] \in MeterState
  BY DEF IInv, TypeOK, Call
<1>2. /\ k \notin meter[m].idem /\ UNCHANGED <<now, winTotal>>
      /\ ~isRequestBound(call[c].limits) /\ call[c].pc = "consume"
  BY DEF PassThrough, Known, history, kv
<1>3. m \notin RatedMeters
  <2>1. call[c].limits \in ConfigsOf(m)
    BY <1>2 DEF IInv, LimitsKnown, InFlight
  <2>2. call[c].limits.rate = -1
    BY <1>2 DEF isRequestBound
  <2>. QED
    BY <2>1, <2>2 DEF RatedMeters, Rated
<1>4. /\ \A n \in Meters \ {m} : meter'[n] = meter[n]
      /\ meter'[m].day = meter[m].day
      /\ meter'[m].idem = meter[m].idem \cup ({k} \ {NoKey})
  BY <1>1 DEF PassThrough, Remember, MeterState
<1>5. dayBar' = dayBar
  BY <1>2, <1>4 DEF dayBar, DayKey
<1>6. paidBar' = [paidBar EXCEPT ![m] = @ \cup ({k} \ {NoKey})]
  BY <1>1, <1>4 DEF paidBar
<1>7. PICK mm \in Meters, kk \in OpKeys \cup {NoKey} : mm = m /\ kk = k
  BY <1>1
<1>8. Budget!Accept(mm, kk)
  BY <1>7, <1>1, <1>2, <1>3, <1>5, <1>6
     DEF Budget!Accept, Budget!Keep, dayBar, paidBar
<1>. QED
  BY <1>8, AcceptIsNext

LEMMA TickIsReset ==
    ASSUME IInv, Tick
    PROVE  Budget!Next \/ UNCHANGED Budget!vars
<1>1. now \in Nat /\ now' = now + 1 /\ meter' = meter
  BY QuotaAssumption DEF IInv, TypeOK, Tick
<1>2. paidBar' = paidBar
  BY <1>1 DEF paidBar
<1>3. winTotal' \in {winTotal, [m \in Meters |-> 0]}
  BY DEF Tick
<1>4. DayKey(now)' = DayKey(now + 1)
  BY <1>1 DEF DayKey
<1>5. CASE DayKey(now + 1) = DayKey(now)
  <2>1. dayBar' = dayBar
    BY <1>1, <1>4, <1>5 DEF dayBar
  <2>. QED
    BY <1>2, <1>3, <2>1 DEF Budget!Next, Budget!NewMinute, Budget!vars,
                            dayBar, paidBar
<1>6. CASE DayKey(now + 1) # DayKey(now)
  <2>1. ASSUME NEW m \in Meters PROVE meter[m].day.key # DayKey(now + 1)
    <3>1. meter[m].day.key \in Int /\ meter[m].day.key <= DayKey(now)
      BY DEF IInv, TypeOK, MeterState, UsedIsDebited
    <3>2. DayKey(now) \in Nat /\ DayKey(now + 1) \in Nat
          /\ DayKey(now) <= DayKey(now + 1)
      BY <1>1, DayFacts
    <3>. QED
      BY <1>6, <3>1, <3>2
  <2>2. dayBar' = [m \in Meters |-> 0]
    BY <1>1, <1>4, <2>1 DEF dayBar
  <2>. QED
    BY <1>2, <1>3, <2>2 DEF Budget!Next, Budget!NewDay, dayBar, paidBar
<1>. QED
  BY <1>5, <1>6

\* The object implements the promise of QuotaBudget, whatever the plans, the
\* overrides, the length of the window and the number of concurrent calls.
THEOREM BudgetImplemented == Spec => ImplementsBudget
<1>1. IInv /\ [Next]_vars => [Budget!Next]_(Budget!vars)
  <2>. SUFFICES ASSUME IInv, [Next]_vars
                PROVE  Budget!Next \/ UNCHANGED Budget!vars
    OBVIOUS
  <2>1. CASE UNCHANGED <<now, meter, history>>
    BY <2>1, QuietBudget
  <2>2. CASE Tick
    BY <2>2, TickIsReset
  <2>3. ASSUME NEW c \in Calls, Debit(c) \/ PassThrough(c)
        PROVE  Budget!Next
    BY <2>3, DebitIsSpend, PassThroughIsAccept
  <2>. QED
    BY <2>1, <2>2, <2>3
       DEF Next, checkAndConsume, AssignPlan, SetOverrides, Restart, Request,
           readPlan, readOverrides, Cached, Backpressure,
           RateLimit, vars, history
<1>. QED
  BY <1>1, BudgetInit, Invariance, PTL DEF Spec, ImplementsBudget, Budget!Spec
=============================================================================
