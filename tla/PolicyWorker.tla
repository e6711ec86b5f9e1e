---------------------------- MODULE PolicyWorker ----------------------------
(***************************************************************************)
(* The policy worker at the edge (workers/policy-worker/src/worker.mjs):   *)
(* one isolate, its module globals (_engine and the tenantWarmup map), the *)
(* policy keys of the UBL_FLAGS namespace, and concurrent requests.        *)
(*                                                                         *)
(* JavaScript runs a handler without interruption up to an await, so a     *)
(* step of a request is the code between two awaits of I/O; the value of a *)
(* KV read is taken in one step and used in the next, which lets any other *)
(* request run in between.  What a YAML text says is abstracted to the     *)
(* policy it states; what matters is whose key it was read from.           *)
(***************************************************************************)
EXTENDS Naturals

CONSTANTS
    Tenants, Ubl,     \* the tenants; Ubl falls back on the legacy keys
    Requests,         \* slots for requests in flight
    Policies,         \* what a YAML text can say
    BadYaml,          \* the texts init_policy refuses
    Engines,          \* instances WebAssembly.instantiate can return
    NoPack, NoDoc, NoEngine, NoTenant,
    Extensible,       \* those whose exports take the tag of lines 98-99: none
                      \* where exports are frozen, as WebAssembly specifies
    InitialPacks, InitialYamls,  \* what KV may hold at first
    Targets,          \* the tenants and stages operators reload and promote
    MaxEdits          \* bound on the writes of operators to KV

Stages == {"active", "next"}      \* the stages a caller can name
Keys   == Stages \cup {"legacy"}  \* policy_{tenant}_*, policy_{tenant}_*_next, policy_*
NoStage == "none"                 \* the stage of an entry that is not there

Packs == [blake3 : Policies, signed : BOOLEAN]
Docs  == [tenant : Tenants, key : Keys, policy : Policies]

ASSUME WorkerAssumption ==
    /\ Ubl \in Tenants
    /\ BadYaml \subseteq Policies
    /\ NoEngine \notin Engines /\ NoTenant \notin Tenants
    /\ NoPack \notin Packs /\ NoDoc \notin Docs /\ NoDoc \notin Policies
    /\ Extensible \subseteq Engines
    /\ InitialPacks \subseteq [Tenants -> [Keys -> Packs \cup {NoPack}]]
    /\ InitialYamls \subseteq [Tenants -> [Keys -> Policies \cup {NoDoc}]]
    /\ Targets \subseteq Tenants \X Stages
    /\ MaxEdits \in Nat

VARIABLES
    packs, yamls,  \* KV: the pack and the YAML under the keys of each tenant
    edits,         \* number of operators' writes so far
    default,       \* _engine
    engine,        \* each instance: the document it runs and its __tenant
    warm,          \* tenantWarmup
    req,           \* the requests
    verified       \* history: tenants a signed pack was verified for

vars == <<packs, yamls, edits, default, engine, warm, req, verified>>
kv      == <<packs, yamls, edits>>
globals == <<default, engine, warm, verified>>

\* An entry of tenantWarmup; exists is FALSE when the map has no entry.
Entry   == [exists : BOOLEAN, done : BOOLEAN, stage : Stages \cup {NoStage},
            wasm : Engines \cup {NoEngine}, pack : Packs \cup {NoPack}]
NoEntry == [exists |-> FALSE, done |-> FALSE, stage |-> NoStage,
            wasm |-> NoEngine, pack |-> NoPack]

\* What the worker knows of an instance: the document init_policy was given
\* last and the tag.  late is history: it was loaded last by a request whose
\* entry was no longer the map's.
Instance == [doc : Docs \cup {NoDoc}, tenant : Tenants \cup {NoTenant}, late : BOOLEAN]

Ops  == {"decide", "warmup", "reload", "promote"}
Pcs  == {"idle", "pack", "yaml", "check", "boot", "reinit", "apply", "panic",
         "src_pack", "src_yaml", "put_pack", "put_yaml", "invalidate", "done"}
Outs == {"none", "decided", "ok", "503", "crash", "404", "failed", "lost"}

Request == [op : Ops, tenant : Tenants, stage : Stages, pc : Pcs,
            pack : Packs \cup {NoPack},        \* locals: packRaw, yaml,
            doc : Docs \cup {NoDoc},
            cached : Entry, live : BOOLEAN,    \* the entry read, and whether
                                               \* the map still holds it,
            wasm : Engines \cup {NoEngine},    \* the engine of the request
            out : Outs, by : Tenants \cup {NoTenant},  \* whose policy decided
            hole : {"none", "switched", "no_yaml"}]  \* history, see
                                                 \* OwnPolicyButForTwoHoles

Blank(op, t, s) ==
    [op |-> op, tenant |-> t, stage |-> s, pc |-> "idle", pack |-> NoPack,
     doc |-> NoDoc, cached |-> NoEntry, live |-> FALSE, wasm |-> NoEngine,
     out |-> "none", by |-> NoTenant, hole |-> "none"]

\* KV.get of a policy key, with the fallback on the legacy keys for Ubl.
Lookup(table, none, t, s) ==
    CASE table[t][s] # none -> table[t][s]
      [] table[t][s] = none /\ t = Ubl -> table[t]["legacy"]
      [] OTHER -> none

getPack(t, s) == Lookup(packs, NoPack, t, s)

\* The YAML together with the key it was found under.
getYaml(t, s) ==
    LET key == IF yamls[t][s] # NoDoc THEN s ELSE "legacy"
        p   == Lookup(yamls, NoDoc, t, s)
    IN  IF p = NoDoc THEN NoDoc ELSE [tenant |-> t, key |-> key, policy |-> p]

\* The module globals of a fresh isolate.
FreshEngine  == [doc |-> NoDoc, tenant |-> NoTenant, late |-> FALSE]
FreshEngines == [e \in Engines |-> FreshEngine]
FreshWarm    == [t \in Tenants |-> NoEntry]

Init == /\ packs \in InitialPacks
        /\ yamls \in InitialYamls
        /\ edits = 0
        /\ default = NoEngine /\ engine = FreshEngines /\ warm = FreshWarm
        /\ verified = {}
        /\ req = [r \in Requests |-> Blank("warmup", Ubl, "active")]
-----------------------------------------------------------------------------
(* Helpers of the steps                                                    *)

At(r, pc)      == req[r].pc = pc
Free(r)        == req[r].pc \in {"idle", "done"}
Set(r, q)      == req' = [req EXCEPT ![r] = q]
Done(q, out)   == [Blank(q.op, q.tenant, "active") EXCEPT
                     !.pc = "done", !.out = out, !.hole = q.hole]

\* The other requests when tenantWarmup.set(t, ...) replaces the entry.
Detach(rs, t) == [x \in Requests |->
    IF rs[x].tenant = t THEN [rs[x] EXCEPT !.live = FALSE] ELSE rs[x]]

\* The other requests when the entry of t is mutated in place (cached.done =
\* false; cached.stage = s): they hold the same object.
Mutate(rs, t, s) == [x \in Requests |->
    IF rs[x].tenant = t /\ rs[x].live
    THEN [rs[x] EXCEPT !.cached.done = FALSE, !.cached.stage = s] ELSE rs[x]]

\* The other requests when engine e is loaded under those that wait to decide.
Switch(rs, e, r) == [x \in Requests |->
    IF x # r /\ rs[x].wasm = e /\ rs[x].pc = "panic"
    THEN [rs[x] EXCEPT !.hole = "switched"] ELSE rs[x]]

\* How a request ends when warmupTenant returns ok: false (an entry that says
\* so is in the map), and when it throws.  It throws for every error caught at
\* line 112, whose handler reads targetStage out of its scope.  promote
\* answers ok: true whatever warmupTenant returned.
Refused(op) == CASE op \in {"decide", "warmup"} -> "503"
                 [] op = "reload" -> "failed"
                 [] OTHER -> "ok"
Thrown(op)  == IF op \in {"decide", "warmup"} THEN "crash" ELSE "failed"

\* Lines 446-447: the engine of the request, and whether it must be reloaded.
\* Mutant: an engine is reloaded only if it was never loaded.
Checked_Once(q, w, tag) ==
    [q EXCEPT !.wasm = w, !.doc = NoDoc, !.pack = NoPack, !.live = FALSE,
              !.pc = IF tag # NoTenant THEN "panic" ELSE "reinit"]
Checked(q, w, tag) ==
    [q EXCEPT !.wasm = w, !.doc = NoDoc, !.pack = NoPack, !.live = FALSE,
              !.pc = IF tag = q.tenant THEN "panic" ELSE "reinit"]
-----------------------------------------------------------------------------
(* warmupTenant                                                            *)

readPack(r) ==
    /\ At(r, "pack")
    /\ Set(r, [req[r] EXCEPT !.pc = "yaml",
                             !.pack = getPack(req[r].tenant, req[r].stage)])
    /\ UNCHANGED <<kv, globals>>

readYaml(r) ==
    /\ At(r, "yaml")
    /\ Set(r, [req[r] EXCEPT !.pc = "check",
                             !.doc = getYaml(req[r].tenant, req[r].stage)])
    /\ UNCHANGED <<kv, globals>>

Missing(q) == q.pack = NoPack \/ q.doc = NoDoc

policyMissing(r) ==
    LET q == req[r] IN
    /\ At(r, "check") /\ Missing(q)
    /\ warm' = [warm EXCEPT ![q.tenant] =
                  [NoEntry EXCEPT !.exists = TRUE, !.stage = q.stage]]
    /\ req' = [Detach(req, q.tenant) EXCEPT ![r] = Done(q, Refused(q.op))]
    /\ UNCHANGED <<kv, default, engine, verified>>

\* verifyPack checks the signature of the pack over its own blake3 field; the
\* YAML is not hashed.
\* Mutant: the signature is not looked at.
validPack_Present(q) == ~Missing(q)
validPack(q) == ~Missing(q) /\ q.pack.signed

Verify(q) == verified' = IF q.pack.signed THEN verified \cup {q.tenant} ELSE verified

packInvalid(r) ==
    /\ At(r, "check") /\ ~Missing(req[r]) /\ ~validPack(req[r])
    /\ Set(r, Done(req[r], Thrown(req[r].op)))
    /\ UNCHANGED <<kv, globals>>

\* getEngine has no instance to return and awaits one.
needEngine(r) ==
    /\ At(r, "check") /\ validPack(req[r])
    /\ default = NoEngine
    /\ Verify(req[r])
    /\ Set(r, [req[r] EXCEPT !.pc = "boot"])
    /\ UNCHANGED <<kv, default, engine, warm>>

\* Lines 97-109 on engine e, and on to line 447 for a request to decide; w is
\* the engine it takes at line 446.
initRefused(r, e) ==
    /\ req[r].doc.policy \in BadYaml
    /\ Set(r, Done(req[r], Thrown(req[r].op)))
    /\ UNCHANGED <<engine, warm>>

\* Mutant: the entry is written before the engine is marked.
initUnmarked_Late(r, e) ==
    /\ req[r].doc.policy \notin BadYaml /\ e \notin Extensible
    /\ engine' = [engine EXCEPT ![e].doc = req[r].doc]
    /\ warm' = [warm EXCEPT ![req[r].tenant] =
                  [exists |-> TRUE, done |-> TRUE, stage |-> req[r].stage,
                   wasm |-> e, pack |-> req[r].pack]]
    /\ Set(r, Done(req[r], Thrown(req[r].op)))

initUnmarked(r, e) ==
    /\ req[r].doc.policy \notin BadYaml /\ e \notin Extensible
    /\ engine' = [engine EXCEPT ![e].doc = req[r].doc]
    /\ Set(r, Done(req[r], Thrown(req[r].op)))
    /\ UNCHANGED warm

initDone(r, e, w) ==
    LET q == req[r]
        t == q.tenant
        tag == IF w = e THEN t ELSE engine[w].tenant
    IN
    /\ q.doc.policy \notin BadYaml /\ e \in Extensible
    /\ engine' = [engine EXCEPT ![e] = [doc |-> q.doc, tenant |-> t, late |-> FALSE]]
    /\ warm' = [warm EXCEPT ![t] =
                  [exists |-> TRUE, done |-> TRUE, stage |-> q.stage,
                   wasm |-> e, pack |-> q.pack]]
    /\ req' = [Detach(Switch(req, e, r), t) EXCEPT ![r] =
                 IF q.op = "decide" THEN Checked(q, w, tag) ELSE Done(q, "ok")]

initPolicy(r, e, dflt) ==
    LET w == IF req[r].cached.wasm # NoEngine THEN req[r].cached.wasm ELSE dflt
    IN  initRefused(r, e) \/ initUnmarked(r, e) \/ initDone(r, e, w)

loadDefault(r) ==
    /\ At(r, "check") /\ validPack(req[r])
    /\ default # NoEngine
    /\ Verify(req[r])
    /\ initPolicy(r, default, default)
    /\ UNCHANGED <<kv, default>>

\* Two requests can be here at once: each gets an instance of its own, and
\* _engine keeps the last.
boot(r) ==
    /\ At(r, "boot")
    /\ \E e \in Engines \ {default} :
         /\ engine[e] = FreshEngine
         /\ default' = e
         /\ initPolicy(r, e, e)
    /\ UNCHANGED <<kv, verified>>

\* The import or the instantiation fails (there is no such file, or its module
\* wants imports, as one with wasm-bindgen does), and getEngine throws.
bootFailed(r) ==
    /\ At(r, "boot")
    /\ Set(r, Done(req[r], Thrown(req[r].op)))
    /\ UNCHANGED <<kv, globals>>

warmupTenant(r) == \/ readPack(r) \/ readYaml(r) \/ policyMissing(r)
                   \/ packInvalid(r) \/ needEngine(r) \/ loadDefault(r)
                   \/ boot(r) \/ bootFailed(r)
-----------------------------------------------------------------------------
(* A request to decide                                                     *)

\* Lines 437-447, when no await separates them.
\* Mutant: any engine will do, whoever it was warmed up for.
arrive_AnyEngine(r, t) ==
    LET q == Blank("decide", t, "active") IN
    /\ Free(r)
    /\ Set(r, IF default # NoEngine THEN Checked(q, default, engine[default].tenant)
              ELSE [q EXCEPT !.pc = "pack"])
    /\ UNCHANGED <<kv, globals>>

arrive(r, t) ==
    LET e == warm[t]
        q == [Blank("decide", t, "active") EXCEPT !.cached = e, !.live = e.exists]
    IN
    /\ Free(r)
    /\ Set(r, IF e.done THEN Checked(q, e.wasm, engine[e.wasm].tenant)
              ELSE [q EXCEPT !.pc = "pack"])
    /\ UNCHANGED <<kv, globals>>

\* Line 450.  An entry that is not there gives the key policy_{t}_yaml_active,
\* which nothing writes.
\* Mutant: the active stage is read whatever the entry says.
readReinit_Active(r) ==
    /\ At(r, "reinit")
    /\ Set(r, [req[r] EXCEPT !.pc = "apply", !.doc = getYaml(req[r].tenant, "active")])
    /\ UNCHANGED <<kv, globals>>

readReinit(r) ==
    LET q == req[r]
        s == IF q.cached.stage \in Stages THEN q.cached.stage ELSE "legacy"
    IN
    /\ At(r, "reinit")
    /\ Set(r, [q EXCEPT !.pc = "apply",
                        !.doc = IF s \in Stages \/ q.tenant = Ubl
                                THEN getYaml(q.tenant, s) ELSE NoDoc])
    /\ UNCHANGED <<kv, globals>>

\* Mutant: the engine is marked and not loaded.
reinit_Unloaded(r) ==
    LET q == req[r] IN
    /\ At(r, "apply") /\ q.doc # NoDoc /\ q.doc.policy \notin BadYaml
    /\ engine' = [engine EXCEPT ![q.wasm].tenant = q.tenant]
    /\ req' = [Switch(req, q.wasm, r) EXCEPT ![r].pc = "panic", ![r].doc = NoDoc]
    /\ UNCHANGED <<kv, default, warm, verified>>

reinit(r) ==
    LET q == req[r] IN
    /\ At(r, "apply") /\ q.doc # NoDoc /\ q.doc.policy \notin BadYaml
    /\ engine' = [engine EXCEPT ![q.wasm] =
                    [doc |-> q.doc, tenant |-> q.tenant,
                     late |-> q.cached # warm[q.tenant]]]
    /\ req' = [Switch(req, q.wasm, r) EXCEPT ![r].pc = "panic", ![r].doc = NoDoc]
    /\ UNCHANGED <<kv, default, warm, verified>>

\* init_policy refuses the YAML and the request dies.
reinitRefused(r) ==
    LET q == req[r] IN
    /\ At(r, "apply") /\ q.doc # NoDoc /\ q.doc.policy \in BadYaml
    /\ Set(r, Done(q, "crash"))
    /\ UNCHANGED <<kv, globals>>

\* With no YAML the engine is left as it is.
reinitSkipped(r) ==
    LET q == req[r] IN
    /\ At(r, "apply") /\ q.doc = NoDoc
    /\ Set(r, [q EXCEPT !.pc = "panic", !.hole = "no_yaml"])
    /\ UNCHANGED <<kv, globals>>

\* Lines 467-491: after the panic flags are read, one synchronous decision.
decide(r) ==
    /\ At(r, "panic")
    /\ Set(r, [Done(req[r], "decided") EXCEPT !.by = engine[req[r].wasm].doc.tenant])
    /\ UNCHANGED <<kv, globals>>
-----------------------------------------------------------------------------
(* Operators' requests                                                     *)

warmup(r, t) ==
    LET q == Blank("warmup", t, "active") IN
    /\ Free(r)
    /\ Set(r, IF warm[t].done /\ warm[t].stage = "active" THEN Done(q, "ok")
              ELSE [q EXCEPT !.pc = "pack"])
    /\ UNCHANGED <<kv, globals>>

\* cached.done = false; cached.stage = stage; then warmupTenant.
Invalidate(r, q) ==
    /\ warm' = IF warm[q.tenant].exists
               THEN [warm EXCEPT ![q.tenant].done = FALSE,
                                 ![q.tenant].stage = q.stage]
               ELSE warm
    /\ req' = [Mutate(req, q.tenant, q.stage) EXCEPT ![r] = [q EXCEPT !.pc = "pack"]]
    /\ UNCHANGED <<default, engine, verified>>

reload(r, t, s) ==
    /\ Free(r)
    /\ Invalidate(r, Blank("reload", t, s))
    /\ UNCHANGED kv

promote(r, t, s) ==
    /\ Free(r)
    /\ Set(r, [Blank("promote", t, s) EXCEPT !.pc = "src_pack"])
    /\ UNCHANGED <<kv, globals>>

\* The staged keys are read under their own names: policy_{t}_pack_{stage},
\* which for stage "active" is a key nothing writes.
Staged(table, none, q) == IF q.stage = "active" THEN none
                          ELSE table[q.tenant][q.stage]

promoteReadPack(r) ==
    LET q == req[r] IN
    /\ At(r, "src_pack")
    /\ Set(r, [q EXCEPT !.pc = "src_yaml", !.pack = Staged(packs, NoPack, q)])
    /\ UNCHANGED <<kv, globals>>

promoteReadYaml(r) ==
    LET q == req[r]
        p == Staged(yamls, NoDoc, q)
    IN
    /\ At(r, "src_yaml")
    /\ Set(r, IF q.pack = NoPack \/ p = NoDoc THEN Done(q, "404")
              ELSE [q EXCEPT !.pc = "put_pack",
                             !.doc = [tenant |-> q.tenant, key |-> q.stage,
                                      policy |-> p]])
    /\ UNCHANGED <<kv, globals>>

promotePutPack(r) ==
    LET q == req[r] IN
    /\ At(r, "put_pack")
    /\ packs' = [packs EXCEPT ![q.tenant]["active"] = q.pack]
    /\ Set(r, [q EXCEPT !.pc = "put_yaml"])
    /\ UNCHANGED <<yamls, edits, globals>>

\* Mutant: the pack is put under the key of the YAML.
promotePutYaml_Pack(r) ==
    LET q == req[r] IN
    /\ At(r, "put_yaml")
    /\ yamls' = [yamls EXCEPT ![q.tenant]["active"] = q.pack]
    /\ Set(r, [q EXCEPT !.pc = "invalidate"])
    /\ UNCHANGED <<packs, edits, globals>>

promotePutYaml(r) ==
    LET q == req[r] IN
    /\ At(r, "put_yaml")
    /\ yamls' = [yamls EXCEPT ![q.tenant]["active"] = q.doc.policy]
    /\ Set(r, [q EXCEPT !.pc = "invalidate"])
    /\ UNCHANGED <<packs, edits, globals>>

promoteInvalidate(r) ==
    /\ At(r, "invalidate")
    /\ Invalidate(r, [req[r] EXCEPT !.stage = "active", !.pack = NoPack,
                                    !.doc = NoDoc])
    /\ UNCHANGED kv

promoteSteps(r) == \/ promoteReadPack(r) \/ promoteReadYaml(r)
                   \/ promotePutPack(r) \/ promotePutYaml(r)
                   \/ promoteInvalidate(r)
-----------------------------------------------------------------------------
(* The world: operators write and delete keys of KV with wrangler, one at  *)
(* a time, and the isolate is evicted, which takes the globals and the     *)
(* requests with it.                                                       *)

WritePack(t, k, p) ==
    /\ edits < MaxEdits /\ edits' = edits + 1
    /\ packs' = [packs EXCEPT ![t][k] = p]
    /\ UNCHANGED <<yamls, globals, req>>

WriteYaml(t, k, p) ==
    /\ edits < MaxEdits /\ edits' = edits + 1
    /\ yamls' = [yamls EXCEPT ![t][k] = p]
    /\ UNCHANGED <<packs, globals, req>>

Evict ==
    /\ default' = NoEngine /\ engine' = FreshEngines /\ warm' = FreshWarm
    /\ verified' = {}
    /\ req' = [r \in Requests |->
                 IF Free(r) THEN Blank("warmup", Ubl, "active")
                 ELSE Done([req[r] EXCEPT !.hole = "none"], "lost")]
    /\ UNCHANGED kv

handle(r) == \/ warmupTenant(r) \/ promoteSteps(r)
             \/ readReinit(r) \/ reinit(r) \/ reinitRefused(r)
             \/ reinitSkipped(r) \/ decide(r)

Next == \/ \E r \in Requests :
             \/ handle(r)
             \/ \E t \in Tenants : arrive(r, t) \/ warmup(r, t)
             \/ \E x \in Targets : reload(r, x[1], x[2]) \/ promote(r, x[1], x[2])
        \/ \E t \in Tenants, k \in Keys :
             \/ \E p \in Packs \cup {NoPack} : WritePack(t, k, p)
             \/ \E p \in Policies \cup {NoDoc} : WriteYaml(t, k, p)
        \/ Evict

Spec == Init /\ [][Next]_vars
-----------------------------------------------------------------------------
(* Properties                                                              *)

TypeOK == /\ packs \in [Tenants -> [Keys -> Packs \cup {NoPack}]]
          /\ yamls \in [Tenants -> [Keys -> Policies \cup {NoDoc}]]
          /\ edits \in 0..MaxEdits
          /\ default \in Engines \cup {NoEngine}
          /\ engine \in [Engines -> Instance]
          /\ warm \in [Tenants -> Entry]
          /\ req \in [Requests -> Request]
          /\ verified \subseteq Tenants

\* The tag of an engine names the tenant whose policy it runs: __tenant and
\* the policy loaded by init_policy never part, in whatever order warmups,
\* reloads, promotions and re-initialisations of several tenants end.
TagIsTruthful ==
    \A e \in Engines : engine[e].tenant # NoTenant =>
        /\ engine[e].doc # NoDoc
        /\ engine[e].doc.tenant = engine[e].tenant

\* Fail closed: a request is decided only by a policy some engine was given
\* (never by a fresh instance), and only for a tenant a signed pack of which
\* was verified in this isolate.
FailClosed ==
    \A r \in Requests : req[r].out = "decided" =>
        /\ req[r].by # NoTenant
        /\ req[r].tenant \in verified

\* A request is decided by its own tenant's policy unless the engine was
\* reloaded while it awaited the panic flags, or its YAML was gone when the
\* engine had to be reloaded for it: these are the only two holes.
OwnPolicyButForTwoHoles ==
    \A r \in Requests : req[r].out = "decided" /\ req[r].hole = "none" =>
        req[r].by = req[r].tenant

\* /_policy/status and /health call a tenant ready only when an engine was given
\* a policy and marked: a warmup that fails half way leaves no entry done, even
\* with the engine already loaded.
ReadyMeansMarked ==
    \A t \in Tenants : warm[t].done => engine[warm[t].wasm].tenant # NoTenant

\* What /_policy/status says a tenant runs.
Serves(t) == warm[t].done /\ engine[warm[t].wasm].tenant = t

\* The stage the status of a tenant names is the stage its engine's policy was
\* read from, or the legacy keys behind it, however reloads, promotions,
\* warmups and re-initialisations overlap, unless the engine was loaded last by
\* a re-initialisation that outlived its entry (449): this is the only hole.
StatusCoherentButForLateReinit ==
    \A t \in Tenants : Serves(t) /\ ~engine[warm[t].wasm].late =>
        engine[warm[t].wasm].doc.key \in {warm[t].stage, "legacy"}

\* "Drift detection: YAML alterado sem novo pack -> 503"
\* (docs/ARCHITECTURE.md:122): the YAML of a request that got past the check of
\* its pack (92-93) is the one whose hash the pack signs.
DriftIsRefused ==
    \A r \in Requests : At(r, "boot") => req[r].pack.blake3 = req[r].doc.policy
=============================================================================
