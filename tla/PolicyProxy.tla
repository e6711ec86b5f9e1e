---------------------------- MODULE PolicyProxy ----------------------------
(***************************************************************************)
(* The policy proxy (crates/policy-proxy/src/main.rs): requests run on     *)
(* several threads over one AppState of separate locks.  A statement locks *)
(* what it names and unlocks it, so that any other request runs between    *)
(* two statements.  The files of a policy are read one after the other     *)
(* while they may be replaced.                                             *)
(***************************************************************************)
EXTENDS PolicyEngine, FiniteSets

CONSTANTS Chips,     \* names of the policies a file can hold
          Requests,  \* requests in flight
          MaxEval    \* bound: requests evaluated

VARIABLES yaml, pack,   \* the files: the policy, and the policy the pack signs
          chip,         \* AppState.chip
          panic,        \* panic_until is still to come
          allow_total, deny_total, eval_count,
          eval_ms_max,
          req           \* requests in flight, operators' calls too

vars == <<yaml, pack, chip, panic, allow_total, deny_total, eval_count,
          eval_ms_max, req>>
files    == <<yaml, pack>>
counters == <<allow_total, deny_total, eval_count, eval_ms_max>>

ProxyAssumption == IsFiniteSet(Requests) /\ MaxEval \in Nat

Ended == {"idle", "reported"}
Pcs   == Ended \cup {"decide", "max", "max_write", "count", "total",
                     "read_pack", "verify", "allow", "deny", "eval"}
Chip(name) == CASE name = "ubl_core_v1" -> ubl_core_v1
                [] name = "ubl_core_v3" -> ubl_core_v3
                [] name = "vvz_core_v1" -> vvz_core_v1
ChipFiles == Chips \cup {"none"}
Durations == 1..2
Sums  == 0..MaxEval
Request == [pc : Pcs, ctx : [admin_path : BOOLEAN, admins : BOOLEAN, panic_mode : BOOLEAN],
            ms : Durations, denied : BOOLEAN, yaml : ChipFiles, pack : ChipFiles,
            allow : Sums, deny : Sums, eval : Sums]
Blank(pc) == [pc |-> pc, ms |-> 1, denied |-> FALSE, yaml |-> "none", pack |-> "none",
              ctx |-> [admin_path |-> FALSE, admins |-> FALSE, panic_mode |-> FALSE],
              allow |-> 0, deny |-> 0, eval |-> 0]

\* main verifies the policy before it serves.
Init == /\ chip \in Chips /\ yaml = chip /\ pack = chip
        /\ panic = FALSE
        /\ allow_total = 0 /\ deny_total = 0 /\ eval_count = 0 /\ eval_ms_max = 0
        /\ req = [r \in Requests |-> Blank("idle")]
-----------------------------------------------------------------------------
At(r, pc)   == req[r].pc = pc
Goto(r, pc) == req' = [req EXCEPT ![r].pc = pc]
Finish(r, pc) == req' = [req EXCEPT ![r] = Blank(pc)]
Free(r)     == req[r].pc \in Ended

\* External: a deploy replaces one file at a time.
Deploy == /\ \E c \in Chips : \/ yaml' = c /\ UNCHANGED pack
                              \/ pack' = c /\ UNCHANGED yaml
          /\ UNCHANGED <<chip, panic, counters, req>>

\* _reload of one of the two stages; the files are read one after the other.
reload(r) == /\ Free(r)
             /\ req' = [req EXCEPT ![r] = [Blank("read_pack") EXCEPT !.yaml = yaml]]
             /\ UNCHANGED <<files, chip, panic, counters>>
read_pack(r) == /\ At(r, "read_pack")
                /\ req' = [req EXCEPT ![r].pc = "verify", ![r].pack = pack]
                /\ UNCHANGED <<files, chip, panic, counters>>
\* A pack that signs another text, or that does not verify, leaves the chip.
load_and_verify(r) ==
    /\ At(r, "verify")
    /\ \/ /\ req[r].yaml = req[r].pack
          /\ chip' = req[r].yaml /\ Finish(r, "idle")
       \/ UNCHANGED chip /\ Finish(r, "idle")
    /\ UNCHANGED <<files, panic, counters>>

\* Break-glass.  Its reason, behind a second lock, is read by nobody.
Switch(r, on) == /\ Free(r) /\ panic' = on /\ Finish(r, "idle")
                 /\ UNCHANGED <<files, chip, counters>>
panic_on(r)  == Switch(r, TRUE)
panic_off(r) == Switch(r, FALSE)
Expire == /\ panic /\ panic' = FALSE
          /\ UNCHANGED <<files, chip, counters, req>>

\* A request: who asks for what, and whether the break-glass is on.
forward(r, admin_path, admins, ms) ==
    /\ Free(r)
    /\ eval_count + Cardinality({q \in Requests : ~Free(q)}) < MaxEval
    /\ req' = [req EXCEPT ![r] = [Blank("decide") EXCEPT !.ms = ms,
                 !.ctx = [admin_path |-> admin_path, admins |-> admins, panic_mode |-> panic]]]
    /\ UNCHANGED <<files, chip, panic, counters>>

\* The rest of the context is the same for every request, and says nothing of
\* the rate or of webhooks.
RequestContext(c) ==
    [tls13 |-> TRUE, device |-> TRUE, passkey |-> TRUE, admins |-> c.admins,
     panic_mode |-> c.panic_mode, admin_path |-> c.admin_path, rate |-> "absent",
     webhook |-> "absent", legacy_jwt |-> "absent"]

decideRequest(r) ==
    /\ At(r, "decide")
    /\ req' = [req EXCEPT ![r].pc = "max",
         ![r].denied = decide(Chip(chip), RequestContext(req[r].ctx)) \in Denies]
    /\ UNCHANGED <<files, chip, panic, counters>>

\* The maximum is read under one lock and written under the next.
eval_max(r) == /\ At(r, "max")
               /\ req' = [req EXCEPT ![r] =
                    [Blank(IF @.ms > eval_ms_max THEN "max_write" ELSE "count") EXCEPT
                       !.ms = IF req[r].ms > eval_ms_max THEN req[r].ms ELSE 1,
                       !.denied = req[r].denied]]
               /\ UNCHANGED <<files, chip, panic, counters>>
eval_max_write(r) == /\ At(r, "max_write")
                     /\ eval_ms_max' = req[r].ms
                     /\ req' = [req EXCEPT ![r].pc = "count", ![r].ms = 1]
                     /\ UNCHANGED <<files, chip, panic, allow_total, deny_total,
                                    eval_count>>
eval_counted(r) == /\ At(r, "count")
                   /\ eval_count' = eval_count + 1
                   /\ Goto(r, "total")
                   /\ UNCHANGED <<files, chip, panic, allow_total, deny_total,
                                  eval_ms_max>>

\* A request that is allowed goes on to the local ledger and to an upstream,
\* neither of which the proxy reads.
total(r) ==
    /\ At(r, "total")
    /\ IF req[r].denied
       THEN deny_total' = deny_total + 1 /\ UNCHANGED allow_total
       ELSE allow_total' = allow_total + 1 /\ UNCHANGED deny_total
    /\ Finish(r, "idle")
    /\ UNCHANGED <<files, chip, panic, eval_count, eval_ms_max>>

metrics(r) == /\ Free(r)
              /\ Finish(r, "allow")
              /\ UNCHANGED <<files, chip, panic, counters>>

\* Mutant: the evaluations are read first.
metricsRead_CountFirst(r) ==
    /\ \/ /\ At(r, "allow")
          /\ req' = [req EXCEPT ![r].pc = "deny", ![r].eval = eval_count]
       \/ /\ At(r, "deny")
          /\ req' = [req EXCEPT ![r].pc = "eval", ![r].allow = allow_total]
       \/ /\ At(r, "eval")
          /\ req' = [req EXCEPT ![r].pc = "reported", ![r].deny = deny_total]
    /\ UNCHANGED <<files, chip, panic, counters>>
\* Each counter is read under its own lock, in the order of the code.
metricsRead(r) ==
    /\ \/ /\ At(r, "allow")
          /\ req' = [req EXCEPT ![r].pc = "deny", ![r].allow = allow_total]
       \/ /\ At(r, "deny")
          /\ req' = [req EXCEPT ![r].pc = "eval", ![r].deny = deny_total]
       \/ /\ At(r, "eval")
          /\ req' = [req EXCEPT ![r].pc = "reported", ![r].eval = eval_count]
    /\ UNCHANGED <<files, chip, panic, counters>>

Next == \/ Deploy \/ Expire
        \/ \E r \in Requests :
             \/ reload(r) \/ read_pack(r) \/ load_and_verify(r)
             \/ panic_on(r) \/ panic_off(r)
             \/ \E p, a \in BOOLEAN, d \in Durations : forward(r, p, a, d)
             \/ decideRequest(r) \/ eval_max(r) \/ eval_max_write(r) \/ eval_counted(r)
             \/ total(r) \/ metrics(r) \/ metricsRead(r)

Spec == Init /\ [][Next]_vars
-----------------------------------------------------------------------------
(* Properties                                                              *)

TypeOK == /\ {yaml, pack, chip} \subseteq Chips /\ panic \in BOOLEAN
          /\ {allow_total, deny_total, eval_count} \subseteq Sums
          /\ eval_ms_max \in Durations \cup {0}
          /\ req \in [Requests -> Request]

\* Whatever requests are evaluated while /metrics reads the counters one by
\* one, it never reports more decisions than evaluations.  (The maximum it
\* reports can be less than one reported before, since two requests read it
\* before either writes.)
MetricsAddUp ==
    \A r \in Requests : At(r, "reported") => req[r].allow + req[r].deny <= req[r].eval
=============================================================================
