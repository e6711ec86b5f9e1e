------------------------- MODULE PolicyWorkerProofs -------------------------
(***************************************************************************)
(* Proofs about PolicyWorker, for any tenants, requests, instances and any *)
(* contents of KV.  The invariants of the runs are not inductive: whose    *)
(* policy decides depends on the documents that requests carry across      *)
(* their awaits, on the entries they hold, and on the tags of instances.   *)
(* SoundIn says it of one request, SoundEntry of one entry of tenantWarmup *)
(* and SoundEngine of one instance; StatusInv adds which key each document *)
(* was read from, for what /_policy/status says.                           *)
(***************************************************************************)
EXTENDS PolicyWorker, TLAPS

SoundEngine(e, i) ==
    /\ i.tenant # NoTenant => i.doc # NoDoc /\ i.doc.tenant = i.tenant
    /\ e \notin Extensible => i.tenant = NoTenant

Marked(w, eng) == w \in Engines /\ eng[w].tenant # NoTenant

SoundEntry(t, entry, eng, ver) ==
    /\ entry.wasm # NoEngine => Marked(entry.wasm, eng)
    /\ entry.done => entry.wasm # NoEngine /\ t \in ver

SoundIn(q, eng, ver) ==
    /\ q.doc # NoDoc => q.doc.tenant = q.tenant
    /\ q.pc = "boot" => q.doc # NoDoc /\ q.pack # NoPack /\ q.tenant \in ver
    /\ q.pc \in {"put_pack", "put_yaml"} => q.doc # NoDoc
    /\ q.cached.wasm # NoEngine => Marked(q.cached.wasm, eng)
    /\ q.pc \in {"reinit", "apply", "panic"}
         => Marked(q.wasm, eng) /\ q.tenant \in ver
    /\ q.pc = "panic" /\ q.hole = "none" => eng[q.wasm].doc.tenant = q.tenant
    /\ q.pc # "done" => q.out = "none"
    /\ q.out = "decided" => q.by \in Tenants /\ q.tenant \in ver
    /\ q.out = "decided" /\ q.hole = "none" => q.by = q.tenant

IInv == /\ TypeOK
        /\ \A e \in Engines : SoundEngine(e, engine[e])
        /\ \A t \in Tenants : SoundEntry(t, warm[t], engine, verified)
        /\ \A r \in Requests : SoundIn(req[r], engine, verified)

-----------------------------------------------------------------------------
(* Types of the helpers                                                    *)

\* A request that has just begun, and one that has ended, are requests.
LEMMA BlankType ==
    ASSUME NEW op \in Ops, NEW t \in Tenants, NEW s \in Stages
    PROVE  Blank(op, t, s) \in Request
  BY DEF Blank, Request, Pcs, Outs, NoEntry, Entry, Stages

LEMMA DoneType ==
    ASSUME NEW q \in Request, NEW out \in Outs
    PROVE  Done(q, out) \in Request
  <1> DEFINE b == Blank(q.op, q.tenant, "active")
  <1>1. b \in Request
    BY BlankType DEF Request, Stages
  <1>2. q.hole \in {"none", "switched", "no_yaml"}
    BY DEF Request
  <1>3. Done(q, out) = [b EXCEPT !.pc = "done", !.out = out, !.hole = q.hole]
    BY DEF Done
  <1> HIDE DEF b
  <1> QED
    BY <1>1, <1>2, <1>3 DEF Request, Pcs

\* A request that ends undecided is sound.
LEMMA DoneSound ==
    ASSUME NEW q \in Request, NEW out \in Outs \ {"decided"},
           NEW eng, NEW ver
    PROVE  SoundIn(Done(q, out), eng, ver)
  BY DEF Done, Blank, SoundIn, NoEntry

LEMMA OutTypes ==
    ASSUME NEW op \in Ops
    PROVE  Refused(op) \in Outs \ {"decided"} /\ Thrown(op) \in Outs \ {"decided"}
  BY DEF Refused, Thrown, Ops, Outs

\* A lookup of a policy key finds a pack or nothing, and a YAML of the tenant.
LEMMA GetPackType ==
    ASSUME TypeOK, NEW t \in Tenants, NEW s \in Stages
    PROVE  getPack(t, s) \in Packs \cup {NoPack}
  <1>1. packs[t][s] \in Packs \cup {NoPack} /\ packs[t]["legacy"] \in Packs \cup {NoPack}
    BY DEF TypeOK, Keys
  <1> QED BY <1>1 DEF getPack, Lookup

LEMMA GetYamlType ==
    ASSUME TypeOK, NEW t \in Tenants, NEW s \in Keys
    PROVE  /\ getYaml(t, s) \in Docs \cup {NoDoc}
           /\ getYaml(t, s) # NoDoc => getYaml(t, s).tenant = t
  <1>1. yamls[t][s] \in Policies \cup {NoDoc} /\ yamls[t]["legacy"] \in Policies \cup {NoDoc}
    BY DEF TypeOK, Keys
  <1> DEFINE p == Lookup(yamls, NoDoc, t, s)
  <1>2. p \in Policies \cup {NoDoc}
    BY <1>1 DEF Lookup
  <1>3. CASE p = NoDoc
    BY <1>3 DEF getYaml
  <1>4. CASE p \in Policies
    <2>1. p # NoDoc BY <1>4, WorkerAssumption DEF WorkerAssumption
    <2> DEFINE key == IF yamls[t][s] # NoDoc THEN s ELSE "legacy"
               d == [tenant |-> t, key |-> key, policy |-> p]
    <2>2. getYaml(t, s) = d BY <2>1 DEF getYaml
    <2>3. key \in Keys BY DEF Keys
    <2> QED BY <1>4, <2>2, <2>3 DEF Docs
  <1> QED BY <1>2, <1>3, <1>4

-----------------------------------------------------------------------------
(* Steps that change one request and no module global                      *)

\* A step that leaves the globals alone preserves the invariant when the
\* request it writes is sound.
LEMMA LocalStep ==
    ASSUME IInv, NEW r \in Requests, NEW q \in Request,
           SoundIn(q, engine, verified),
           req' = [req EXCEPT ![r] = q],
           UNCHANGED <<kv, globals>>
    PROVE  IInv'
  <1>1. TypeOK'
    BY DEF IInv, TypeOK, kv, globals
  <1>2. \A x \in Requests : SoundIn(req'[x], engine', verified')
    <2> SUFFICES ASSUME NEW x \in Requests PROVE SoundIn(req'[x], engine, verified)
      BY DEF globals
    <2>1. SoundIn(req[x], engine, verified) BY DEF IInv
    <2>2. req'[x] = IF x = r THEN q ELSE req[x] BY DEF IInv, TypeOK
    <2> QED BY <2>1, <2>2
  <1> QED BY <1>1, <1>2 DEF IInv, globals

LEMMA ReadPackStep ==
    ASSUME IInv, NEW r \in Requests, readPack(r) PROVE IInv'
  <1> DEFINE n == [req[r] EXCEPT !.pc = "yaml", !.pack = getPack(req[r].tenant, req[r].stage)]
  <1>1. req[r] \in Request /\ SoundIn(req[r], engine, verified)
    BY DEF IInv, TypeOK
  <1>2. getPack(req[r].tenant, req[r].stage) \in Packs \cup {NoPack}
    BY <1>1, GetPackType DEF IInv, Request
  <1>3. n \in Request BY <1>1, <1>2 DEF Request, Pcs
  <1>4. SoundIn(n, engine, verified)
    BY <1>1 DEF SoundIn, readPack, At, Request
  <1>5. req' = [req EXCEPT ![r] = n] /\ UNCHANGED <<kv, globals>>
    BY DEF readPack, Set
  <1> HIDE DEF n
  <1>6. PICK q \in Request : q = n BY <1>3
  <1> QED BY <1>4, <1>5, <1>6, LocalStep

LEMMA ReadYamlStep ==
    ASSUME IInv, NEW r \in Requests, readYaml(r) PROVE IInv'
  <1> DEFINE d == getYaml(req[r].tenant, req[r].stage)
             n == [req[r] EXCEPT !.pc = "check", !.doc = d]
  <1>1. req[r] \in Request /\ SoundIn(req[r], engine, verified)
    BY DEF IInv, TypeOK
  <1>2. d \in Docs \cup {NoDoc} /\ (d # NoDoc => d.tenant = req[r].tenant)
    BY <1>1, GetYamlType DEF IInv, Request, Keys
  <1>a. req' = [req EXCEPT ![r] = n] /\ UNCHANGED <<kv, globals>>
    BY DEF readYaml, Set
  <1> HIDE DEF d
  <1>3. n \in Request BY <1>1, <1>2 DEF Request, Pcs
  <1>4. SoundIn(n, engine, verified)
    BY <1>1, <1>2 DEF SoundIn, readYaml, At, Request
  <1> HIDE DEF n
  <1>6. PICK q \in Request : q = n BY <1>3
  <1> QED BY <1>4, <1>a, <1>6, LocalStep

\* A request that ends undecided, with no global changed.
LEMMA EndStep ==
    ASSUME IInv, NEW r \in Requests, NEW out \in Outs \ {"decided"},
           req' = [req EXCEPT ![r] = Done(req[r], out)],
           UNCHANGED <<kv, globals>>
    PROVE  IInv'
  <1>1. req[r] \in Request BY DEF IInv, TypeOK
  <1>2. Done(req[r], out) \in Request BY <1>1, DoneType
  <1>3. SoundIn(Done(req[r], out), engine, verified) BY <1>1, DoneSound
  <1>4. PICK q \in Request : q = Done(req[r], out) BY <1>2
  <1> QED BY <1>3, <1>4, LocalStep

LEMMA PackInvalidStep ==
    ASSUME IInv, NEW r \in Requests, packInvalid(r) PROVE IInv'
  <1>1. Thrown(req[r].op) \in Outs \ {"decided"}
    BY OutTypes DEF IInv, TypeOK, Request
  <1>2. PICK out \in Outs \ {"decided"} : out = Thrown(req[r].op) BY <1>1
  <1> QED BY <1>2, EndStep DEF packInvalid, Set

LEMMA BootFailedStep ==
    ASSUME IInv, NEW r \in Requests, bootFailed(r) PROVE IInv'
  <1>1. Thrown(req[r].op) \in Outs \ {"decided"}
    BY OutTypes DEF IInv, TypeOK, Request
  <1>2. PICK out \in Outs \ {"decided"} : out = Thrown(req[r].op) BY <1>1
  <1> QED BY <1>2, EndStep DEF bootFailed, Set

LEMMA ReinitRefusedStep ==
    ASSUME IInv, NEW r \in Requests, reinitRefused(r) PROVE IInv'
  <1>1. "crash" \in Outs \ {"decided"} BY DEF Outs
  <1> QED BY <1>1, EndStep DEF reinitRefused, Set

LEMMA ReadReinitStep ==
    ASSUME IInv, NEW r \in Requests, readReinit(r) PROVE IInv'
  <1> DEFINE s == IF req[r].cached.stage \in Stages THEN req[r].cached.stage ELSE "legacy"
             d == IF s \in Stages \/ req[r].tenant = Ubl
                  THEN getYaml(req[r].tenant, s) ELSE NoDoc
             n == [req[r] EXCEPT !.pc = "apply", !.doc = d]
  <1>1. req[r] \in Request /\ SoundIn(req[r], engine, verified)
    BY DEF IInv, TypeOK
  <1>2. d \in Docs \cup {NoDoc} /\ (d # NoDoc => d.tenant = req[r].tenant)
    <2>1. s \in Keys BY DEF Keys
    <2>2. req[r].tenant \in Tenants BY <1>1 DEF Request
    <2> HIDE DEF s
    <2> QED BY <2>1, <2>2, GetYamlType DEF IInv
  <1>3. req' = [req EXCEPT ![r] = n] /\ UNCHANGED <<kv, globals>>
    BY DEF readReinit, Set
  <1> HIDE DEF d
  <1>4. n \in Request BY <1>1, <1>2 DEF Request, Pcs
  <1>5. SoundIn(n, engine, verified)
    BY <1>1, <1>2 DEF SoundIn, readReinit, At, Request
  <1> HIDE DEF n
  <1>6. PICK q \in Request : q = n BY <1>4
  <1> QED BY <1>3, <1>5, <1>6, LocalStep

LEMMA ReinitSkippedStep ==
    ASSUME IInv, NEW r \in Requests, reinitSkipped(r) PROVE IInv'
  <1> DEFINE n == [req[r] EXCEPT !.pc = "panic", !.hole = "no_yaml"]
  <1>1. req[r] \in Request /\ SoundIn(req[r], engine, verified)
    BY DEF IInv, TypeOK
  <1>2. n \in Request BY <1>1 DEF Request, Pcs
  <1>3. SoundIn(n, engine, verified)
    BY <1>1 DEF SoundIn, reinitSkipped, At, Request
  <1>4. req' = [req EXCEPT ![r] = n] /\ UNCHANGED <<kv, globals>>
    BY DEF reinitSkipped, Set
  <1> HIDE DEF n
  <1>5. PICK q \in Request : q = n BY <1>2
  <1> QED BY <1>3, <1>4, <1>5, LocalStep

\* The decision: the engine that decides is marked, so it runs the policy of
\* the tenant its tag names.
LEMMA DecideStep ==
    ASSUME IInv, NEW r \in Requests, decide(r) PROVE IInv'
  <1> DEFINE b == engine[req[r].wasm].doc.tenant
             n == [Done(req[r], "decided") EXCEPT !.by = b]
  <1>1. req[r] \in Request /\ SoundIn(req[r], engine, verified)
    BY DEF IInv, TypeOK
  <1>2. /\ Marked(req[r].wasm, engine) /\ req[r].tenant \in verified
        /\ req[r].hole = "none" => b = req[r].tenant
    BY <1>1 DEF SoundIn, decide, At
  <1>3. b \in Tenants
    <2>1. SoundEngine(req[r].wasm, engine[req[r].wasm]) /\ engine[req[r].wasm] \in Instance
      BY <1>2 DEF IInv, TypeOK, Marked
    <2> QED BY <2>1, <1>2 DEF SoundEngine, Instance, Marked, Docs
  <1>4. Done(req[r], "decided") \in Request
    BY <1>1, DoneType DEF Outs
  <1>5. req' = [req EXCEPT ![r] = n] /\ UNCHANGED <<kv, globals>>
    BY DEF decide, Set
  <1> HIDE DEF b
  <1>6. n \in Request BY <1>3, <1>4 DEF Request
  <1>7. SoundIn(n, engine, verified)
    BY <1>2, <1>3, <1>4 DEF SoundIn, Done, Blank, NoEntry, Request
  <1> HIDE DEF n
  <1>8. PICK q \in Request : q = n BY <1>6
  <1> QED BY <1>5, <1>7, <1>8, LocalStep

-----------------------------------------------------------------------------
(* A request begins                                                        *)

\* The engine of a sound entry is taken as it is, or re-initialised first.
LEMMA CheckedSound ==
    ASSUME NEW eng, NEW ver, NEW q \in Request, NEW w \in Engines,
           SoundIn(q, eng, ver), q.out = "none",
           SoundEngine(w, eng[w]), eng[w].tenant # NoTenant, q.tenant \in ver
    PROVE  /\ Checked(q, w, eng[w].tenant) \in Request
           /\ SoundIn(Checked(q, w, eng[w].tenant), eng, ver)
  <1>1. Checked(q, w, eng[w].tenant) \in Request
    BY DEF Checked, Request, Pcs
  <1>2. SoundIn(Checked(q, w, eng[w].tenant), eng, ver)
    BY DEF Checked, Request, SoundIn, SoundEngine, Marked
  <1> QED BY <1>1, <1>2

LEMMA ArriveStep ==
    ASSUME IInv, NEW r \in Requests, NEW t \in Tenants, arrive(r, t) PROVE IInv'
  <1> DEFINE e == warm[t]
             b == Blank("decide", t, "active")
             q == [b EXCEPT !.cached = e, !.live = e.exists]
             c == Checked(q, e.wasm, engine[e.wasm].tenant)
             n == IF e.done THEN c ELSE [q EXCEPT !.pc = "pack"]
  <1>1. e \in Entry /\ SoundEntry(t, e, engine, verified)
    BY DEF IInv, TypeOK
  <1>2. b \in Request BY BlankType DEF Ops, Stages
  <1>3. q \in Request BY <1>1, <1>2 DEF Request, Entry
  <1>4. /\ q.tenant = t /\ q.doc = NoDoc /\ q.out = "none" /\ q.pc = "idle"
        /\ q.cached = e
    BY <1>2 DEF Blank, Request
  <1>5. req' = [req EXCEPT ![r] = n] /\ UNCHANGED <<kv, globals>>
    BY DEF arrive, Set
  <1> HIDE DEF e, q
  <1>6. SoundIn(q, engine, verified)
    BY <1>1, <1>4 DEF SoundIn, SoundEntry
  <1>7. n \in Request /\ SoundIn(n, engine, verified)
    <2>1. CASE e.done
      <3>1. Marked(e.wasm, engine) /\ q.tenant \in verified
        BY <1>1, <1>4, <2>1 DEF SoundEntry
      <3>2. c \in Request /\ SoundIn(c, engine, verified)
        BY <1>3, <1>4, <1>6, <3>1, CheckedSound DEF Marked, IInv
      <3> QED BY <2>1, <3>2
    <2>2. CASE ~e.done
      <3> DEFINE m == [q EXCEPT !.pc = "pack"]
      <3>1. m \in Request BY <1>3 DEF Request, Pcs
      <3>2. SoundIn(m, engine, verified)
        BY <1>3, <1>4, <1>6 DEF Request, SoundIn
      <3> QED BY <2>2, <3>1, <3>2
    <2> QED BY <2>1, <2>2
  <1> HIDE DEF n
  <1>8. PICK x \in Request : x = n BY <1>7
  <1> QED BY <1>5, <1>7, <1>8, LocalStep

\* A request that has just begun is sound.
LEMMA BlankSound ==
    ASSUME NEW op, NEW t, NEW s, NEW eng, NEW ver
    PROVE  SoundIn(Blank(op, t, s), eng, ver)
  BY DEF Blank, SoundIn, NoEntry

LEMMA WarmupStep ==
    ASSUME IInv, NEW r \in Requests, NEW t \in Tenants, warmup(r, t) PROVE IInv'
  <1> DEFINE b == Blank("warmup", t, "active")
             n == IF warm[t].done /\ warm[t].stage = "active" THEN Done(b, "ok")
                  ELSE [b EXCEPT !.pc = "pack"]
  <1>1. b \in Request BY BlankType DEF Ops, Stages
  <1>2. SoundIn(b, engine, verified) /\ b.pc = "idle" BY BlankSound DEF Blank
  <1>3. req' = [req EXCEPT ![r] = n] /\ UNCHANGED <<kv, globals>>
    BY DEF warmup, Set
  <1> HIDE DEF b
  <1>4. Done(b, "ok") \in Request /\ SoundIn(Done(b, "ok"), engine, verified)
    BY <1>1, DoneType, DoneSound DEF Outs
  <1>5. [b EXCEPT !.pc = "pack"] \in Request BY <1>1 DEF Request, Pcs
  <1>6. SoundIn([b EXCEPT !.pc = "pack"], engine, verified)
    BY <1>1, <1>2 DEF SoundIn, Request
  <1>7. n \in Request /\ SoundIn(n, engine, verified) BY <1>4, <1>5, <1>6
  <1> HIDE DEF n
  <1>8. PICK x \in Request : x = n BY <1>7
  <1> QED BY <1>3, <1>7, <1>8, LocalStep

LEMMA PromoteStep ==
    ASSUME IInv, NEW r \in Requests, NEW t \in Tenants, NEW s \in Stages,
           promote(r, t, s)
    PROVE  IInv'
  <1> DEFINE b == Blank("promote", t, s)
             n == [b EXCEPT !.pc = "src_pack"]
  <1>1. b \in Request BY BlankType DEF Ops
  <1>2. SoundIn(b, engine, verified) /\ b.pc = "idle" BY BlankSound DEF Blank
  <1>3. req' = [req EXCEPT ![r] = n] /\ UNCHANGED <<kv, globals>>
    BY DEF promote, Set
  <1> HIDE DEF b
  <1>4. n \in Request BY <1>1 DEF Request, Pcs
  <1>5. SoundIn(n, engine, verified) BY <1>1, <1>2 DEF SoundIn, Request
  <1> HIDE DEF n
  <1>6. PICK x \in Request : x = n BY <1>4
  <1> QED BY <1>3, <1>5, <1>6, LocalStep

-----------------------------------------------------------------------------
(* Steps of promote                                                        *)

LEMMA PromoteReadPackStep ==
    ASSUME IInv, NEW r \in Requests, promoteReadPack(r) PROVE IInv'
  <1> DEFINE p == Staged(packs, NoPack, req[r])
             n == [req[r] EXCEPT !.pc = "src_yaml", !.pack = p]
  <1>1. req[r] \in Request /\ SoundIn(req[r], engine, verified)
    BY DEF IInv, TypeOK
  <1>2. p \in Packs \cup {NoPack}
    <2>1. req[r].tenant \in Tenants /\ req[r].stage \in Keys
      BY <1>1 DEF Request, Keys
    <2> QED BY <2>1 DEF Staged, IInv, TypeOK
  <1>3. req' = [req EXCEPT ![r] = n] /\ UNCHANGED <<kv, globals>>
    BY DEF promoteReadPack, Set
  <1> HIDE DEF p
  <1>4. n \in Request BY <1>1, <1>2 DEF Request, Pcs
  <1>5. SoundIn(n, engine, verified)
    BY <1>1 DEF SoundIn, promoteReadPack, At, Request
  <1> HIDE DEF n
  <1>6. PICK x \in Request : x = n BY <1>4
  <1> QED BY <1>3, <1>5, <1>6, LocalStep

LEMMA PromoteReadYamlStep ==
    ASSUME IInv, NEW r \in Requests, promoteReadYaml(r) PROVE IInv'
  <1> DEFINE p == Staged(yamls, NoDoc, req[r])
             d == [tenant |-> req[r].tenant, key |-> req[r].stage, policy |-> p]
             m == [req[r] EXCEPT !.pc = "put_pack", !.doc = d]
  <1>1. req[r] \in Request /\ SoundIn(req[r], engine, verified)
    BY DEF IInv, TypeOK
  <1>2. CASE req[r].pack = NoPack \/ p = NoDoc
    <2>1. "404" \in Outs \ {"decided"} BY DEF Outs
    <2> QED BY <1>2, <2>1, EndStep DEF promoteReadYaml, Set
  <1>3. CASE req[r].pack # NoPack /\ p # NoDoc
    <2>1. req[r].tenant \in Tenants /\ req[r].stage \in Keys
      BY <1>1 DEF Request, Keys
    <2>2. p \in Policies
      BY <1>3, <2>1 DEF Staged, IInv, TypeOK
    <2>3. d \in Docs BY <2>1, <2>2 DEF Docs
    <2>4. d.tenant = req[r].tenant /\ d # NoDoc
      BY <2>3, WorkerAssumption DEF WorkerAssumption
    <2>5. req' = [req EXCEPT ![r] = m] /\ UNCHANGED <<kv, globals>>
      BY <1>3 DEF promoteReadYaml, Set
    <2> HIDE DEF d
    <2>6. m \in Request BY <1>1, <2>3 DEF Request, Pcs
    <2>7. SoundIn(m, engine, verified)
      BY <1>1, <2>4 DEF SoundIn, promoteReadYaml, At, Request
    <2> HIDE DEF m
    <2>8. PICK x \in Request : x = m BY <2>6
    <2> QED BY <2>5, <2>7, <2>8, LocalStep
  <1> QED BY <1>2, <1>3

\* A write of KV with one request changed or none.
LEMMA KvStep ==
    ASSUME IInv, NEW r \in Requests, NEW q \in Request,
           SoundIn(q, engine, verified),
           req' = [req EXCEPT ![r] = q],
           packs' \in [Tenants -> [Keys -> Packs \cup {NoPack}]],
           yamls' \in [Tenants -> [Keys -> Policies \cup {NoDoc}]],
           edits' \in 0..MaxEdits,
           UNCHANGED globals
    PROVE  IInv'
  <1>1. TypeOK'
    BY DEF IInv, TypeOK, globals
  <1>2. \A x \in Requests : SoundIn(req'[x], engine', verified')
    <2> SUFFICES ASSUME NEW x \in Requests PROVE SoundIn(req'[x], engine, verified)
      BY DEF globals
    <2>1. SoundIn(req[x], engine, verified) BY DEF IInv
    <2>2. req'[x] = IF x = r THEN q ELSE req[x] BY DEF IInv, TypeOK
    <2> QED BY <2>1, <2>2
  <1> QED BY <1>1, <1>2 DEF IInv, globals

LEMMA PromotePutPackStep ==
    ASSUME IInv, NEW r \in Requests, promotePutPack(r) PROVE IInv'
  <1> DEFINE n == [req[r] EXCEPT !.pc = "put_yaml"]
  <1>1. req[r] \in Request /\ SoundIn(req[r], engine, verified)
    BY DEF IInv, TypeOK
  <1>2. n \in Request BY <1>1 DEF Request, Pcs
  <1>3. SoundIn(n, engine, verified)
    BY <1>1 DEF SoundIn, promotePutPack, At, Request
  <1>4. packs' \in [Tenants -> [Keys -> Packs \cup {NoPack}]]
    <2>1. req[r].pack \in Packs \cup {NoPack} BY <1>1 DEF Request
    <2> QED BY <2>1 DEF promotePutPack, IInv, TypeOK
  <1>5. /\ req' = [req EXCEPT ![r] = n] /\ yamls' = yamls /\ edits' = edits
        /\ UNCHANGED globals
    BY DEF promotePutPack, Set
  <1> HIDE DEF n
  <1>6. PICK x \in Request : x = n BY <1>2
  <1>7. edits' \in 0..MaxEdits /\ yamls' \in [Tenants -> [Keys -> Policies \cup {NoDoc}]]
    BY <1>5 DEF IInv, TypeOK
  <1> QED BY <1>3, <1>4, <1>5, <1>6, <1>7, KvStep

LEMMA PromotePutYamlStep ==
    ASSUME IInv, NEW r \in Requests, promotePutYaml(r) PROVE IInv'
  <1> DEFINE n == [req[r] EXCEPT !.pc = "invalidate"]
  <1>1. req[r] \in Request /\ SoundIn(req[r], engine, verified)
    BY DEF IInv, TypeOK
  <1>2. n \in Request BY <1>1 DEF Request, Pcs
  <1>3. SoundIn(n, engine, verified)
    BY <1>1 DEF SoundIn, promotePutYaml, At, Request
  <1>4. yamls' \in [Tenants -> [Keys -> Policies \cup {NoDoc}]]
    <2>1. req[r].doc \in Docs
      BY <1>1 DEF Request, SoundIn, promotePutYaml, At
    <2>2. req[r].doc.policy \in Policies BY <2>1 DEF Docs
    <2> QED BY <2>2 DEF promotePutYaml, IInv, TypeOK
  <1>5. /\ req' = [req EXCEPT ![r] = n] /\ packs' = packs /\ edits' = edits
        /\ UNCHANGED globals
    BY DEF promotePutYaml, Set
  <1> HIDE DEF n
  <1>6. PICK x \in Request : x = n BY <1>2
  <1>7. edits' \in 0..MaxEdits /\ packs' \in [Tenants -> [Keys -> Packs \cup {NoPack}]]
    BY <1>5 DEF IInv, TypeOK
  <1> QED BY <1>3, <1>4, <1>5, <1>6, <1>7, KvStep

LEMMA WriteStep ==
    ASSUME IInv, NEW t \in Tenants, NEW k \in Keys,
           \/ \E p \in Packs \cup {NoPack} : WritePack(t, k, p)
           \/ \E p \in Policies \cup {NoDoc} : WriteYaml(t, k, p)
    PROVE  IInv'
  <1>1. UNCHANGED <<globals, req>> BY DEF WritePack, WriteYaml
  <1>2. edits' \in 0..MaxEdits
    BY WorkerAssumption DEF WorkerAssumption, WritePack, WriteYaml, IInv, TypeOK
  <1>3. /\ packs' \in [Tenants -> [Keys -> Packs \cup {NoPack}]]
        /\ yamls' \in [Tenants -> [Keys -> Policies \cup {NoDoc}]]
    <2>1. /\ packs \in [Tenants -> [Keys -> Packs \cup {NoPack}]]
          /\ yamls \in [Tenants -> [Keys -> Policies \cup {NoDoc}]]
      BY DEF IInv, TypeOK
    <2>2. CASE \E p \in Packs \cup {NoPack} : WritePack(t, k, p)
      <3>1. PICK p \in Packs \cup {NoPack} : WritePack(t, k, p) BY <2>2
      <3>2. packs' = [packs EXCEPT ![t] = [packs[t] EXCEPT ![k] = p]] /\ yamls' = yamls
        BY <3>1 DEF WritePack
      <3>3. [packs[t] EXCEPT ![k] = p] \in [Keys -> Packs \cup {NoPack}]
        BY <2>1
      <3> QED BY <2>1, <3>2, <3>3
    <2>3. CASE \E p \in Policies \cup {NoDoc} : WriteYaml(t, k, p)
      <3>1. PICK p \in Policies \cup {NoDoc} : WriteYaml(t, k, p) BY <2>3
      <3>2. yamls' = [yamls EXCEPT ![t] = [yamls[t] EXCEPT ![k] = p]] /\ packs' = packs
        BY <3>1 DEF WriteYaml
      <3>3. [yamls[t] EXCEPT ![k] = p] \in [Keys -> Policies \cup {NoDoc}]
        BY <2>1
      <3> QED BY <2>1, <3>2, <3>3
    <2> QED BY <2>2, <2>3
  <1>4. TypeOK'
    BY <1>1, <1>2, <1>3 DEF IInv, TypeOK, globals
  <1> QED BY <1>1, <1>4 DEF IInv, globals

-----------------------------------------------------------------------------
(* Steps that write tenantWarmup                                           *)

\* An entry invalidated in place keeps its engine: it is sound, and so are the
\* requests that hold it.
LEMMA InvalidateStep ==
    ASSUME IInv, NEW r \in Requests, NEW q \in Request,
           SoundIn(q, engine, verified), q.out = "none", q.doc = NoDoc,
           Invalidate(r, q), UNCHANGED kv
    PROVE  IInv'
  <1> DEFINE t == q.tenant
             s == q.stage
             n == [q EXCEPT !.pc = "pack"]
  <1>1. t \in Tenants /\ s \in Stages BY DEF Request
  <1>2. n \in Request BY DEF Request, Pcs
  <1>3. SoundIn(n, engine, verified) BY DEF SoundIn, Request
  <1>4. warm' \in [Tenants -> Entry] /\ \A x \in Tenants : SoundEntry(x, warm'[x], engine, verified)
    <2>1. warm \in [Tenants -> Entry] /\ \A x \in Tenants : SoundEntry(x, warm[x], engine, verified)
      BY DEF IInv, TypeOK
    <2>2. CASE warm[t].exists
      <3> DEFINE w == [warm[t] EXCEPT !.done = FALSE, !.stage = s]
      <3>1. w \in Entry BY <1>1, <2>1 DEF Entry
      <3>2. SoundEntry(t, w, engine, verified)
        BY <1>1, <2>1 DEF SoundEntry, Entry
      <3>3. warm' = [warm EXCEPT ![t] = w]
        BY <1>1, <2>1, <2>2 DEF Invalidate, Entry
      <3> HIDE DEF w
      <3> QED BY <1>1, <2>1, <3>1, <3>2, <3>3
    <2>3. CASE ~warm[t].exists
      BY <2>1, <2>3 DEF Invalidate
    <2> QED BY <2>2, <2>3
  <1>5. req' \in [Requests -> Request] /\ \A x \in Requests : SoundIn(req'[x], engine, verified)
    <2> DEFINE m == Mutate(req, t, s)
    <2>1. req' = [m EXCEPT ![r] = n] BY DEF Invalidate
    <2>2. ASSUME NEW x \in Requests
          PROVE  m[x] \in Request /\ SoundIn(m[x], engine, verified)
      <3>1. req[x] \in Request /\ SoundIn(req[x], engine, verified)
        BY DEF IInv, TypeOK
      <3> DEFINE c == [req[x].cached EXCEPT !.done = FALSE, !.stage = s]
                 y == [req[x] EXCEPT !.cached = c]
      <3>2. c \in Entry /\ c.wasm = req[x].cached.wasm
        BY <1>1, <3>1 DEF Request, Entry
      <3>a. m[x] = IF req[x].tenant = t /\ req[x].live
                   THEN [req[x] EXCEPT !.cached.done = FALSE, !.cached.stage = s]
                   ELSE req[x]
        BY DEF Mutate
      <3>b. [req[x] EXCEPT !.cached.done = FALSE, !.cached.stage = s] = y
        BY <3>1 DEF Request, Entry
      <3> HIDE DEF c
      <3>3. y \in Request BY <3>1, <3>2 DEF Request
      <3>4. SoundIn(y, engine, verified) BY <3>1, <3>2 DEF SoundIn, Request
      <3> QED BY <3>1, <3>3, <3>4, <3>a, <3>b
    <2>3. DOMAIN m = Requests BY DEF Mutate
    <2>4. m = [x \in Requests |-> m[x]] BY DEF Mutate
    <2> HIDE DEF m, n
    <2> QED BY <1>2, <1>3, <2>1, <2>2, <2>3, <2>4
  <1>6. UNCHANGED <<kv, default, engine, verified>> BY DEF Invalidate
  <1>7. TypeOK' BY <1>4, <1>5, <1>6 DEF IInv, TypeOK, kv
  <1> QED BY <1>4, <1>5, <1>6, <1>7 DEF IInv, kv

LEMMA ReloadStep ==
    ASSUME IInv, NEW r \in Requests, NEW t \in Tenants, NEW s \in Stages,
           reload(r, t, s)
    PROVE  IInv'
  <1>1. Blank("reload", t, s) \in Request BY BlankType DEF Ops
  <1>2. /\ SoundIn(Blank("reload", t, s), engine, verified)
        /\ Blank("reload", t, s).out = "none" /\ Blank("reload", t, s).doc = NoDoc
    BY BlankSound DEF Blank
  <1>3. Invalidate(r, Blank("reload", t, s)) /\ UNCHANGED kv BY DEF reload
  <1>4. PICK q \in Request : q = Blank("reload", t, s) BY <1>1
  <1> QED BY <1>2, <1>3, <1>4, InvalidateStep

LEMMA PromoteInvalidateStep ==
    ASSUME IInv, NEW r \in Requests, promoteInvalidate(r) PROVE IInv'
  <1> DEFINE n == [req[r] EXCEPT !.stage = "active", !.pack = NoPack, !.doc = NoDoc]
  <1>1. req[r] \in Request /\ SoundIn(req[r], engine, verified) /\ req[r].pc = "invalidate"
    BY DEF IInv, TypeOK, promoteInvalidate, At
  <1>2. n \in Request BY <1>1 DEF Request, Stages
  <1>3. SoundIn(n, engine, verified) /\ n.out = "none" /\ n.doc = NoDoc
    BY <1>1 DEF SoundIn, Request
  <1>4. Invalidate(r, n) /\ UNCHANGED kv BY DEF promoteInvalidate
  <1> HIDE DEF n
  <1>5. PICK q \in Request : q = n BY <1>2
  <1> QED BY <1>3, <1>4, <1>5, InvalidateStep

\* A request whose entry is replaced in the map keeps what it holds.
LEMMA DetachSound ==
    ASSUME NEW rs \in [Requests -> Request], NEW t \in Tenants, NEW eng, NEW ver,
           NEW x \in Requests, SoundIn(rs[x], eng, ver)
    PROVE  Detach(rs, t)[x] \in Request /\ SoundIn(Detach(rs, t)[x], eng, ver)
  <1>1. [rs[x] EXCEPT !.live = FALSE] \in Request BY DEF Request
  <1>2. SoundIn([rs[x] EXCEPT !.live = FALSE], eng, ver)
    BY DEF SoundIn, Request
  <1> QED BY <1>1, <1>2 DEF Detach

LEMMA PolicyMissingStep ==
    ASSUME IInv, NEW r \in Requests, policyMissing(r) PROVE IInv'
  <1> DEFINE t == req[r].tenant
             n == Done(req[r], Refused(req[r].op))
             w == [NoEntry EXCEPT !.exists = TRUE, !.stage = req[r].stage]
             m == Detach(req, t)
  <1>1. req[r] \in Request /\ req \in [Requests -> Request]
    BY DEF IInv, TypeOK
  <1>2. t \in Tenants /\ req[r].stage \in Stages BY <1>1 DEF Request
  <1>3. n \in Request /\ SoundIn(n, engine, verified)
    <2>1. Refused(req[r].op) \in Outs \ {"decided"} BY <1>1, OutTypes DEF Request
    <2> QED BY <1>1, <2>1, DoneType, DoneSound
  <1>4. w \in Entry /\ SoundEntry(t, w, engine, verified)
    BY <1>2 DEF NoEntry, Entry, SoundEntry
  <1>5. /\ warm' = [warm EXCEPT ![t] = w] /\ req' = [m EXCEPT ![r] = n]
        /\ UNCHANGED <<kv, default, engine, verified>>
    BY DEF policyMissing
  <1> HIDE DEF w, n
  <1>6. warm' \in [Tenants -> Entry] /\ \A x \in Tenants : SoundEntry(x, warm'[x], engine, verified)
    BY <1>2, <1>4, <1>5 DEF IInv, TypeOK
  <1>7. \A x \in Requests : m[x] \in Request /\ SoundIn(m[x], engine, verified)
    BY <1>1, <1>2, DetachSound DEF IInv
  <1>8. m = [x \in Requests |-> m[x]] BY DEF Detach
  <1> HIDE DEF m
  <1>9. req' \in [Requests -> Request] /\ \A x \in Requests : SoundIn(req'[x], engine, verified)
    BY <1>3, <1>5, <1>7, <1>8
  <1>10. TypeOK' BY <1>5, <1>6, <1>9 DEF IInv, TypeOK, kv
  <1> QED BY <1>5, <1>6, <1>9, <1>10 DEF IInv

-----------------------------------------------------------------------------
(* Steps that load an engine                                               *)

\* Loading engine e with the policy of its new tag leaves the other requests
\* sound: those that wait to decide on e are marked as switched.
LEMMA SwitchSound ==
    ASSUME IInv, NEW r \in Requests, NEW e \in Engines,
           NEW i \in Instance, i.tenant # NoTenant, SoundEngine(e, i),
           NEW ver, verified \subseteq ver,
           NEW x \in Requests, x # r
    PROVE  /\ Switch(req, e, r)[x] \in Request
           /\ SoundIn(Switch(req, e, r)[x], [engine EXCEPT ![e] = i], ver)
  <1> DEFINE eng == [engine EXCEPT ![e] = i]
             y == [req[x] EXCEPT !.hole = "switched"]
  <1>1. req[x] \in Request /\ SoundIn(req[x], engine, verified)
    BY DEF IInv, TypeOK
  <1>2. \A w : Marked(w, engine) => Marked(w, eng)
    BY DEF Marked, IInv, TypeOK
  <1>3. \A w \in Engines \ {e} : eng[w] = engine[w]
    BY DEF IInv, TypeOK
  <1> HIDE DEF eng
  <1>4. CASE req[x].wasm = e /\ req[x].pc = "panic"
    <2>1. y \in Request BY <1>1 DEF Request
    <2>2. SoundIn(y, eng, ver)
      BY <1>1, <1>2, <1>4 DEF SoundIn, Request
    <2> QED BY <1>4, <2>1, <2>2 DEF Switch, eng
  <1>5. CASE ~(req[x].wasm = e /\ req[x].pc = "panic")
    <2>1. SoundIn(req[x], eng, ver)
      BY <1>1, <1>2, <1>3, <1>5 DEF SoundIn, Marked
    <2> QED BY <1>1, <1>5, <2>1 DEF Switch, eng
  <1> QED BY <1>4, <1>5

LEMMA ReinitStep ==
    ASSUME IInv, NEW r \in Requests, reinit(r) PROVE IInv'
  <1> DEFINE q == req[r]
             e == q.wasm
             i == [doc |-> q.doc, tenant |-> q.tenant, late |-> q.cached # warm[q.tenant]]
             n == [q EXCEPT !.pc = "panic", !.doc = NoDoc]
             m == Switch(req, e, r)
  <1>1. q \in Request /\ SoundIn(q, engine, verified) /\ q.pc = "apply" /\ q.doc # NoDoc
    BY DEF IInv, TypeOK, reinit, At
  <1>2. Marked(e, engine) /\ q.tenant \in verified /\ q.doc.tenant = q.tenant
    BY <1>1 DEF SoundIn
  <1>3. e \in Engines /\ q.tenant \in Tenants /\ q.doc \in Docs
    BY <1>1, <1>2 DEF Marked, Request
  <1>4. i \in Instance BY <1>3 DEF Instance
  <1>5. SoundEngine(e, i) /\ i.tenant # NoTenant
    <2>1. e \in Extensible
      BY <1>2, <1>3 DEF Marked, IInv, SoundEngine
    <2> QED BY <1>1, <1>2, <1>3, <2>1, WorkerAssumption DEF WorkerAssumption, SoundEngine
  <1>6. /\ engine' = [engine EXCEPT ![e] = i]
        /\ UNCHANGED <<kv, default, warm, verified>>
    BY DEF reinit
  <1>7. req' = [m EXCEPT ![r] = n]
    <2>1. m[r] = q BY DEF Switch
    <2>2. m = [x \in Requests |-> m[x]] BY DEF Switch
    <2>3. req' = [m EXCEPT ![r].pc = "panic", ![r].doc = NoDoc] BY DEF reinit
    <2> HIDE DEF m
    <2> QED BY <2>1, <2>2, <2>3, <1>1 DEF Request
  <1> HIDE DEF i
  <1>8. \A x \in Requests \ {r} : m[x] \in Request /\ SoundIn(m[x], engine', verified')
    <2>1. PICK c \in Instance, w \in Engines, v \in {verified} : c = i /\ w = e
      BY <1>3, <1>4
    <2> SUFFICES ASSUME NEW x \in Requests \ {r}
                 PROVE  m[x] \in Request /\ SoundIn(m[x], [engine EXCEPT ![w] = c], v)
      BY <1>6, <2>1
    <2> QED BY <1>5, <2>1, SwitchSound
  <1>9. n \in Request /\ SoundIn(n, engine', verified')
    <2>1. n \in Request BY <1>1 DEF Request, Pcs
    <2>2. /\ \A w : Marked(w, engine) => Marked(w, engine')
          /\ engine'[e] = i
      BY <1>3, <1>5, <1>6 DEF Marked, IInv, TypeOK
    <2>3. i.doc.tenant = q.tenant BY <1>2 DEF i
    <2>4. verified' = verified BY <1>6
    <2> QED BY <1>1, <1>2, <2>1, <2>2, <2>3, <2>4 DEF SoundIn, Request
  <1>10. m = [x \in Requests |-> m[x]] BY DEF Switch
  <1> HIDE DEF m, n
  <1>11. req' \in [Requests -> Request] /\ \A x \in Requests : SoundIn(req'[x], engine', verified')
    BY <1>7, <1>8, <1>9, <1>10
  <1>12. engine' \in [Engines -> Instance] /\ \A x \in Engines : SoundEngine(x, engine'[x])
    BY <1>3, <1>4, <1>5, <1>6 DEF IInv, TypeOK
  <1>13. \A t \in Tenants : SoundEntry(t, warm'[t], engine', verified')
    <2>1. \A w : Marked(w, engine) => Marked(w, engine')
      BY <1>3, <1>5, <1>6 DEF Marked, IInv, TypeOK
    <2> QED BY <1>6, <2>1 DEF SoundEntry, IInv
  <1>14. TypeOK' BY <1>6, <1>11, <1>12 DEF IInv, TypeOK, kv
  <1> QED BY <1>11, <1>12, <1>13, <1>14 DEF IInv

\* Lines 97-109: the engine is refused, or loaded and not marked, or loaded,
\* marked and entered in the map.
LEMMA InitPolicyStep ==
    ASSUME IInv, NEW r \in Requests, NEW e \in Engines,
           req[r].pc \in {"check", "boot"}, req[r].doc # NoDoc, req[r].pack # NoPack,
           initPolicy(r, e, e), UNCHANGED kv, default' \in Engines,
           verified' = verified \cup {req[r].tenant}
    PROVE  IInv'
  <1> DEFINE q == req[r]
             t == q.tenant
  <1>1. /\ q \in Request /\ SoundIn(q, engine, verified) /\ q.out = "none"
        /\ req \in [Requests -> Request] /\ engine \in [Engines -> Instance]
    BY DEF IInv, TypeOK, SoundIn
  <1>2. t \in Tenants /\ t # NoTenant /\ q.doc \in Docs /\ q.doc.tenant = t
    BY <1>1, WorkerAssumption DEF WorkerAssumption, Request, SoundIn
  <1>3. verified' \subseteq Tenants /\ verified \subseteq verified' /\ t \in verified'
    BY <1>2 DEF IInv, TypeOK
  <1>4. PICK v : v = verified' OBVIOUS
  <1>5. Done(q, Thrown(q.op)) \in Request /\ SoundIn(Done(q, Thrown(q.op)), engine', verified')
    <2>1. Thrown(q.op) \in Outs \ {"decided"} BY <1>1, OutTypes DEF Request
    <2> QED BY <1>1, <2>1, DoneType, DoneSound
  <1>6. CASE initRefused(r, e)
    <2> DEFINE n == Done(q, Thrown(q.op))
    <2>1. req' = [req EXCEPT ![r] = n] /\ UNCHANGED <<engine, warm>>
      BY <1>6 DEF initRefused, Set
    <2> HIDE DEF n
    <2>2. req' \in [Requests -> Request] /\ \A x \in Requests : SoundIn(req'[x], engine', verified')
      <3>1. \A x \in Requests : SoundIn(req[x], engine', verified')
        BY <1>3, <2>1 DEF SoundIn, IInv
      <3>2. n \in Request /\ SoundIn(n, engine', verified') BY <1>5 DEF n
      <3> QED BY <1>1, <2>1, <3>1, <3>2
    <2>3. \A x \in Tenants : SoundEntry(x, warm'[x], engine', verified')
      BY <1>3, <2>1 DEF SoundEntry, IInv
    <2>4. TypeOK' BY <1>3, <2>1, <2>2 DEF IInv, TypeOK, kv
    <2> QED BY <2>1, <2>2, <2>3, <2>4 DEF IInv
  <1>7. CASE initUnmarked(r, e)
    <2> DEFINE n == Done(q, Thrown(q.op))
               i == [engine[e] EXCEPT !.doc = q.doc]
    <2>1. /\ req' = [req EXCEPT ![r] = n] /\ engine' = [engine EXCEPT ![e] = i]
          /\ warm' = warm /\ e \notin Extensible
      BY <1>1, <1>7 DEF initUnmarked, Set, Instance
    <2>2. engine[e].tenant = NoTenant
      BY <2>1 DEF IInv, SoundEngine
    <2>3. i \in Instance /\ i.tenant = NoTenant
      BY <1>1, <1>2, <2>2 DEF Instance
    <2> HIDE DEF n, i
    <2>4. engine' \in [Engines -> Instance] /\ \A x \in Engines : SoundEngine(x, engine'[x])
      BY <1>1, <2>1, <2>3 DEF IInv, SoundEngine
    <2>5. req' \in [Requests -> Request] /\ \A x \in Requests : SoundIn(req'[x], engine', verified')
      <3>1. \A w : Marked(w, engine) => Marked(w, engine') /\ engine'[w] = engine[w]
        BY <1>1, <2>1, <2>2 DEF Marked
      <3>2. \A x \in Requests : SoundIn(req[x], engine', verified')
        <4> SUFFICES ASSUME NEW x \in Requests PROVE SoundIn(req[x], engine', verified')
          OBVIOUS
        <4>1. SoundIn(req[x], engine, verified) BY DEF IInv
        <4> QED BY <1>3, <3>1, <4>1 DEF SoundIn
      <3>3. n \in Request /\ SoundIn(n, engine', verified') BY <1>5 DEF n
      <3> QED BY <1>1, <2>1, <3>2, <3>3
    <2>6. \A x \in Tenants : SoundEntry(x, warm'[x], engine', verified')
      <3>1. \A w : Marked(w, engine) => Marked(w, engine')
        BY <1>1, <2>1, <2>2 DEF Marked
      <3> QED BY <1>3, <2>1, <3>1 DEF SoundEntry, IInv
    <2>7. TypeOK' BY <1>3, <2>1, <2>4, <2>5 DEF IInv, TypeOK, kv
    <2> QED BY <2>4, <2>5, <2>6, <2>7 DEF IInv
  <1>8. ASSUME NEW w, w = IF q.cached.wasm # NoEngine THEN q.cached.wasm ELSE e,
               initDone(r, e, w)
        PROVE  IInv'
    <2> DEFINE i == [doc |-> q.doc, tenant |-> t, late |-> FALSE]
               tag == IF w = e THEN t ELSE engine[w].tenant
               k == [exists |-> TRUE, done |-> TRUE, stage |-> q.stage,
                     wasm |-> e, pack |-> q.pack]
               s == Switch(req, e, r)
               m == Detach(s, t)
               n == IF q.op = "decide" THEN Checked(q, w, tag) ELSE Done(q, "ok")
    <2>1. /\ engine' = [engine EXCEPT ![e] = i] /\ warm' = [warm EXCEPT ![t] = k]
          /\ req' = [m EXCEPT ![r] = n] /\ e \in Extensible
      BY <1>8 DEF initDone
    <2>2. i \in Instance /\ SoundEngine(e, i) /\ i.tenant = t
      BY <1>2, <2>1 DEF Instance, SoundEngine
    <2>3. k \in Entry /\ k.wasm = e
      BY <1>1 DEF Entry, Request
    <2> HIDE DEF i
    <2>4. engine' \in [Engines -> Instance] /\ \A x \in Engines : SoundEngine(x, engine'[x])
      BY <1>1, <2>1, <2>2 DEF IInv
    <2>5. /\ \A x : Marked(x, engine) => Marked(x, engine')
          /\ Marked(e, engine')
      BY <1>1, <1>2, <2>1, <2>2 DEF Marked
    <2>6. warm' \in [Tenants -> Entry] /\ \A x \in Tenants : SoundEntry(x, warm'[x], engine', verified')
      <3>1. SoundEntry(t, k, engine', verified')
        BY <1>3, <2>3, <2>5, WorkerAssumption DEF WorkerAssumption, SoundEntry
      <3>2. \A x \in Tenants : SoundEntry(x, warm[x], engine', verified')
        BY <1>3, <2>5 DEF SoundEntry, IInv
      <3> HIDE DEF k
      <3> QED BY <1>2, <2>1, <2>3, <3>1, <3>2 DEF IInv, TypeOK
    <2>7. \A x \in Requests \ {r} : s[x] \in Request /\ SoundIn(s[x], engine', verified')
      <3>1. PICK c \in Instance : c = i BY <2>2
      <3> SUFFICES ASSUME NEW x \in Requests \ {r}
                   PROVE  s[x] \in Request /\ SoundIn(s[x], [engine EXCEPT ![e] = c], v)
        BY <1>4, <2>1, <3>1
      <3> QED BY <1>2, <1>3, <1>4, <2>2, <3>1, SwitchSound
    <2>8. s[r] = q /\ s = [x \in Requests |-> s[x]] BY DEF Switch
    <2> HIDE DEF s
    <2>9. \A x \in Requests \ {r} : m[x] \in Request /\ SoundIn(m[x], engine', verified')
      <3>1. s \in [Requests -> Request] BY <1>1, <2>7, <2>8
      <3> QED BY <1>2, <2>7, <3>1, DetachSound
    <2>10. m = [x \in Requests |-> m[x]] BY DEF Detach
    <2>11. n \in Request /\ SoundIn(n, engine', verified')
      <3>1. SoundIn(q, engine', verified')
        BY <1>1, <1>3, <2>5 DEF SoundIn
      <3>2. w \in Engines /\ engine'[w].tenant # NoTenant /\ tag = engine'[w].tenant
        <4>1. CASE w = e BY <1>1, <1>2, <2>1, <2>2, <2>5, <4>1 DEF Marked
        <4>2. CASE w # e
          <5>1. Marked(w, engine)
            BY <1>1, <1>8, <4>2 DEF SoundIn
          <5> QED BY <1>1, <2>1, <4>2, <5>1 DEF Marked
        <4> QED BY <4>1, <4>2
      <3>3. Checked(q, w, tag) \in Request /\ SoundIn(Checked(q, w, tag), engine', verified')
        BY <1>1, <1>3, <2>4, <3>1, <3>2, CheckedSound
      <3>4. Done(q, "ok") \in Request /\ SoundIn(Done(q, "ok"), engine', verified')
        BY <1>1, DoneType, DoneSound DEF Outs
      <3> QED BY <3>3, <3>4
    <2> HIDE DEF m, n
    <2>12. req' \in [Requests -> Request] /\ \A x \in Requests : SoundIn(req'[x], engine', verified')
      BY <2>1, <2>9, <2>10, <2>11
    <2>13. TypeOK' BY <1>3, <2>4, <2>6, <2>12 DEF IInv, TypeOK, kv
    <2> QED BY <2>4, <2>6, <2>12, <2>13 DEF IInv
  <1> QED BY <1>6, <1>7, <1>8 DEF initPolicy

LEMMA NeedEngineStep ==
    ASSUME IInv, NEW r \in Requests, needEngine(r) PROVE IInv'
  <1> DEFINE n == [req[r] EXCEPT !.pc = "boot"]
  <1>1. /\ req[r] \in Request /\ SoundIn(req[r], engine, verified)
        /\ req[r].pc = "check" /\ req[r].doc # NoDoc /\ req[r].pack # NoPack
        /\ req \in [Requests -> Request]
    BY DEF IInv, TypeOK, needEngine, At, validPack, Missing
  <1>2. /\ req' = [req EXCEPT ![r] = n] /\ verified' = verified \cup {req[r].tenant}
        /\ UNCHANGED <<kv, default, engine, warm>>
    BY DEF Verify, validPack, needEngine, Set
  <1>3. verified' \subseteq Tenants /\ req[r].tenant \in verified'
    BY <1>1, <1>2 DEF IInv, TypeOK, Request
  <1>4. n \in Request /\ SoundIn(n, engine', verified')
    BY <1>1, <1>2, <1>3 DEF Request, Pcs, SoundIn
  <1> HIDE DEF n
  <1>5. req' \in [Requests -> Request] /\ \A x \in Requests : SoundIn(req'[x], engine', verified')
    <2>1. \A x \in Requests : SoundIn(req[x], engine', verified')
      BY <1>2 DEF SoundIn, IInv
    <2> QED BY <1>1, <1>2, <1>4, <2>1
  <1>6. \A x \in Tenants : SoundEntry(x, warm'[x], engine', verified')
    BY <1>2 DEF SoundEntry, IInv
  <1>7. TypeOK' BY <1>2, <1>3, <1>5 DEF IInv, TypeOK, kv
  <1> QED BY <1>2, <1>5, <1>6, <1>7 DEF IInv

LEMMA LoadDefaultStep ==
    ASSUME IInv, NEW r \in Requests, loadDefault(r) PROVE IInv'
  <1>1. /\ req[r].pc = "check" /\ req[r].doc # NoDoc /\ req[r].pack # NoPack
        /\ default \in Engines
    BY DEF loadDefault, At, validPack, Missing, IInv, TypeOK
  <1>2. PICK e \in Engines : e = default BY <1>1
  <1>3. /\ initPolicy(r, e, e) /\ UNCHANGED kv /\ default' \in Engines
        /\ verified' = verified \cup {req[r].tenant}
    BY <1>1, <1>2 DEF Verify, validPack, loadDefault
  <1> QED BY <1>1, <1>3, InitPolicyStep

LEMMA BootStep ==
    ASSUME IInv, NEW r \in Requests, boot(r) PROVE IInv'
  <1>1. /\ req[r].pc = "boot" /\ req[r].doc # NoDoc /\ req[r].pack # NoPack
        /\ req[r].tenant \in verified
    BY DEF boot, At, IInv, SoundIn
  <1>2. PICK e \in Engines : default' = e /\ initPolicy(r, e, e)
    BY DEF boot
  <1>3. UNCHANGED kv /\ verified' = verified \cup {req[r].tenant}
    BY <1>1 DEF boot
  <1> QED BY <1>1, <1>2, <1>3, InitPolicyStep

\* An isolate that begins has no marked engine, no entry and no open request.
LEMMA EvictStep ==
    ASSUME IInv, Evict PROVE IInv'
  <1>1. /\ default' = NoEngine /\ engine' = FreshEngines /\ warm' = FreshWarm
        /\ verified' = {} /\ UNCHANGED kv
    BY DEF Evict
  <1>2. engine' \in [Engines -> Instance] /\ \A e \in Engines : SoundEngine(e, engine'[e])
    BY <1>1 DEF FreshEngines, FreshEngine, Instance, SoundEngine
  <1>3. warm' \in [Tenants -> Entry] /\ \A t \in Tenants : SoundEntry(t, warm'[t], engine', verified')
    BY <1>1 DEF FreshWarm, NoEntry, Entry, SoundEntry
  <1>4. req' \in [Requests -> Request] /\ \A r \in Requests : SoundIn(req'[r], engine', verified')
    <2> SUFFICES ASSUME NEW r \in Requests
                 PROVE  req'[r] \in Request /\ SoundIn(req'[r], engine', verified')
      BY DEF Evict
    <2>1. req[r] \in Request BY DEF IInv, TypeOK
    <2>2. CASE Free(r)
      <3>1. req'[r] = Blank("warmup", Ubl, "active") BY <2>2 DEF Evict
      <3> QED BY <3>1, BlankType, BlankSound, WorkerAssumption DEF WorkerAssumption, Ops, Stages
    <2>3. CASE ~Free(r)
      <3> DEFINE q == [req[r] EXCEPT !.hole = "none"]
      <3>1. req'[r] = Done(q, "lost") BY <2>3 DEF Evict
      <3>2. q \in Request BY <2>1 DEF Request
      <3> HIDE DEF q
      <3> QED BY <3>1, <3>2, DoneType, DoneSound DEF Outs
    <2> QED BY <2>2, <2>3
  <1>5. TypeOK' BY <1>1, <1>2, <1>3, <1>4 DEF IInv, TypeOK, kv
  <1> QED BY <1>2, <1>3, <1>4, <1>5 DEF IInv

-----------------------------------------------------------------------------
(* What /_policy/status says.  A document a warmup has read is that of the  *)
(* stage it warms up, one read to re-initialise an engine that of the stage *)
(* in the entry the request took, which the others no longer mutate under   *)
(* it (ReadFor).  So an engine runs what its tenant's entry names, unless   *)
(* it was loaded for an entry that is no longer the map's (Shown).          *)

ReadFor(q) ==
    /\ q.pc \in {"check", "boot"} /\ q.doc # NoDoc => q.doc.key \in {q.stage, "legacy"}
    /\ q.pc \in {"reinit", "apply"} => ~q.live
    /\ q.pc = "apply" /\ q.doc # NoDoc => q.doc.key \in {q.cached.stage, "legacy"}

Shown(t, entry, i) ==
    entry.done /\ i.tenant = t /\ ~i.late => i.doc.key \in {entry.stage, "legacy"}

ShownInv == \A t \in Tenants : Shown(t, warm[t], engine[warm[t].wasm])

StatusInv == ShownInv /\ \A r \in Requests : ReadFor(req[r])

LEMMA KeyRead ==
    ASSUME NEW t \in Tenants, NEW s \in Keys, getYaml(t, s) # NoDoc
    PROVE  getYaml(t, s).key \in {s, "legacy"}
  BY DEF getYaml

\* A request that has ended, or begins, carries no document.
LEMMA EndedReads ==
    ASSUME NEW q, NEW out, NEW pc \in {"done", "pack", "src_pack"},
           NEW op, NEW t, NEW s
    PROVE  /\ ReadFor(Done(q, out))
           /\ ReadFor([Blank(op, t, s) EXCEPT !.pc = pc])
           /\ ReadFor(Blank(op, t, s))
  BY DEF Done, Blank, ReadFor

\* What a step does to the other requests does not reach what they have read.
LEMMA OthersRead ==
    ASSUME NEW rs \in [Requests -> Request], NEW x \in Requests, ReadFor(rs[x]),
           NEW t \in Tenants, NEW s \in Stages, NEW e, NEW r
    PROVE  ReadFor(Detach(rs, t)[x]) /\ ReadFor(Mutate(rs, t, s)[x]) /\ ReadFor(Switch(rs, e, r)[x])
  <1>1. rs[x] \in Request
    OBVIOUS
  <1>2. PICK a, b, c : /\ a = [rs[x] EXCEPT !.live = FALSE]
                       /\ b = [rs[x] EXCEPT !.cached.done = FALSE, !.cached.stage = s]
                       /\ c = [rs[x] EXCEPT !.hole = "switched"]
    OBVIOUS
  <1>3. ReadFor(a)
    BY <1>1, <1>2 DEF ReadFor, Request
  <1>4. rs[x].live => ReadFor(b)
    BY <1>1, <1>2 DEF ReadFor, Request
  <1>5. ReadFor(c)
    BY <1>1, <1>2 DEF ReadFor, Request
  <1>6. /\ Detach(rs, t)[x] \in {rs[x], a}
        /\ Mutate(rs, t, s)[x] = rs[x] \/ (rs[x].live /\ Mutate(rs, t, s)[x] = b)
        /\ Switch(rs, e, r)[x] \in {rs[x], c}
    BY <1>2 DEF Detach, Mutate, Switch
  <1> QED BY <1>3, <1>4, <1>5, <1>6

\* The requests after a step of one of them.
LEMMA StatusStep ==
    ASSUME ShownInv', NEW r \in Requests, NEW q, ReadFor(q), NEW m,
           DOMAIN m = Requests, \A x \in Requests \ {r} : ReadFor(m[x]),
           req' = [m EXCEPT ![r] = q]
    PROVE  StatusInv'
  BY DEF StatusInv

LEMMA StatusLocal ==
    ASSUME IInv, StatusInv, NEW r \in Requests, NEW q, ReadFor(q),
           req' = [req EXCEPT ![r] = q], UNCHANGED <<engine, warm>>
    PROVE  StatusInv'
  <1>1. ShownInv' /\ DOMAIN req = Requests /\ \A x \in Requests \ {r} : ReadFor(req[x])
    BY DEF StatusInv, ShownInv, IInv, TypeOK
  <1> QED BY <1>1, StatusStep

\* The reads of KV, and the ends of a request that change nothing.
LEMMA StatusReads ==
    ASSUME IInv, StatusInv, NEW r \in Requests,
           readPack(r) \/ readYaml(r) \/ packInvalid(r) \/ needEngine(r) \/ bootFailed(r)
             \/ readReinit(r) \/ reinitRefused(r) \/ reinitSkipped(r) \/ decide(r)
    PROVE  StatusInv'
  <1>1. req[r] \in Request /\ ReadFor(req[r]) /\ UNCHANGED <<engine, warm>>
    BY DEF globals, IInv, TypeOK, StatusInv, readPack, readYaml, packInvalid, needEngine,
           bootFailed, readReinit, reinitRefused, reinitSkipped, decide
  <1>2. CASE readPack(r)
    <2>1. PICK q : q = [req[r] EXCEPT !.pc = "yaml", !.pack = getPack(req[r].tenant, req[r].stage)]
      OBVIOUS
    <2>2. ReadFor(q)
      BY <1>1, <2>1 DEF ReadFor, Request
    <2> QED BY <1>1, <1>2, <2>1, <2>2, StatusLocal DEF readPack, Set
  <1>3. CASE readYaml(r)
    <2>1. PICK d : d = getYaml(req[r].tenant, req[r].stage)
      OBVIOUS
    <2>2. d # NoDoc => d.key \in {req[r].stage, "legacy"}
      BY <1>1, <2>1, KeyRead DEF Request, Keys
    <2>3. PICK q : q = [req[r] EXCEPT !.pc = "check", !.doc = d]
      OBVIOUS
    <2>4. ReadFor(q)
      BY <1>1, <2>2, <2>3 DEF ReadFor, Request
    <2> QED BY <1>1, <1>3, <2>1, <2>3, <2>4, StatusLocal DEF readYaml, Set
  <1>4. CASE needEngine(r)
    <2>1. PICK q : q = [req[r] EXCEPT !.pc = "boot"]
      OBVIOUS
    <2>2. ReadFor(q)
      BY <1>1, <1>4, <2>1 DEF ReadFor, Request, needEngine, At
    <2> QED BY <1>1, <1>4, <2>1, <2>2, StatusLocal DEF needEngine, Set
  <1>5. CASE readReinit(r)
    <2>1. PICK s \in Keys : s = IF req[r].cached.stage \in Stages THEN req[r].cached.stage
                                ELSE "legacy"
      BY DEF Keys
    <2>2. PICK d : d = IF s \in Stages \/ req[r].tenant = Ubl
                       THEN getYaml(req[r].tenant, s) ELSE NoDoc
      OBVIOUS
    <2>3. d # NoDoc => d.key \in {s, "legacy"}
      BY <1>1, <2>2, KeyRead DEF Request
    <2>4. PICK q : q = [req[r] EXCEPT !.pc = "apply", !.doc = d]
      OBVIOUS
    <2>5. ReadFor(q)
      BY <1>1, <1>5, <2>1, <2>3, <2>4 DEF ReadFor, Request, readReinit, At
    <2> QED BY <1>1, <1>5, <2>1, <2>2, <2>4, <2>5, StatusLocal DEF readReinit, Set
  <1>6. CASE reinitSkipped(r)
    <2>1. PICK q : q = [req[r] EXCEPT !.pc = "panic", !.hole = "no_yaml"]
      OBVIOUS
    <2>2. ReadFor(q)
      BY <1>1, <2>1 DEF ReadFor, Request
    <2> QED BY <1>1, <1>6, <2>1, <2>2, StatusLocal DEF reinitSkipped, Set
  <1>7. CASE decide(r)
    <2>1. PICK q : q = [Done(req[r], "decided") EXCEPT !.by = engine[req[r].wasm].doc.tenant]
      OBVIOUS
    <2>2. ReadFor(q)
      BY <2>1 DEF ReadFor, Done, Blank
    <2> QED BY <1>1, <1>7, <2>1, <2>2, StatusLocal DEF decide, Set
  <1>8. CASE packInvalid(r) \/ bootFailed(r) \/ reinitRefused(r)
    BY <1>1, <1>8, EndedReads, StatusLocal DEF packInvalid, bootFailed, reinitRefused, Set
  <1> QED BY <1>2, <1>3, <1>4, <1>5, <1>6, <1>7, <1>8

LEMMA StatusPromotes ==
    ASSUME IInv, StatusInv, NEW r \in Requests,
           \/ promoteReadPack(r) \/ promoteReadYaml(r)
           \/ promotePutPack(r) \/ promotePutYaml(r)
    PROVE  StatusInv'
  <1>1. req[r] \in Request /\ ReadFor(req[r]) /\ UNCHANGED <<engine, warm>>
    BY DEF globals, IInv, TypeOK, StatusInv, promoteReadPack, promoteReadYaml,
           promotePutPack, promotePutYaml
  <1>2. CASE promoteReadPack(r)
    <2>1. PICK q : q = [req[r] EXCEPT !.pc = "src_yaml",
                                      !.pack = Staged(packs, NoPack, req[r])]
      OBVIOUS
    <2>2. ReadFor(q)
      BY <1>1, <2>1 DEF ReadFor, Request
    <2> QED BY <1>1, <1>2, <2>1, <2>2, StatusLocal DEF promoteReadPack, Set
  <1>3. CASE promoteReadYaml(r)
    <2>1. PICK d : d = [tenant |-> req[r].tenant, key |-> req[r].stage,
                        policy |-> Staged(yamls, NoDoc, req[r])]
      OBVIOUS
    <2>2. PICK q : q = [req[r] EXCEPT !.pc = "put_pack", !.doc = d]
      OBVIOUS
    <2>3. ReadFor(q)
      BY <1>1, <2>2 DEF ReadFor, Request
    <2>4. req' = [req EXCEPT ![r] = Done(req[r], "404")] \/ req' = [req EXCEPT ![r] = q]
      BY <1>3, <2>1, <2>2 DEF promoteReadYaml, Set
    <2> QED BY <1>1, <2>3, <2>4, EndedReads, StatusLocal
  <1>4. CASE promotePutPack(r) \/ promotePutYaml(r)
    <2>1. PICK a, b : /\ a = [req[r] EXCEPT !.pc = "put_yaml"]
                      /\ b = [req[r] EXCEPT !.pc = "invalidate"]
      OBVIOUS
    <2>2. ReadFor(a) /\ ReadFor(b)
      BY <1>1, <2>1 DEF ReadFor, Request
    <2>3. req' = [req EXCEPT ![r] = a] \/ req' = [req EXCEPT ![r] = b]
      BY <1>4, <2>1 DEF promotePutPack, promotePutYaml, Set
    <2> QED BY <1>1, <2>2, <2>3, StatusLocal
  <1> QED BY <1>2, <1>3, <1>4

\* A decision and a warmup begin.
LEMMA StatusArrivals ==
    ASSUME IInv, StatusInv, NEW r \in Requests, NEW t \in Tenants,
           arrive(r, t) \/ warmup(r, t)
    PROVE  StatusInv'
  <1>1. UNCHANGED <<engine, warm>>
    BY DEF arrive, warmup, globals
  <1>2. CASE arrive(r, t)
    <2>1. PICK b : b = [Blank("decide", t, "active") EXCEPT !.cached = warm[t],
                                                           !.live = warm[t].exists]
      OBVIOUS
    <2>2. PICK c, p : /\ c = Checked(b, warm[t].wasm, engine[warm[t].wasm].tenant)
                      /\ p = [b EXCEPT !.pc = "pack"]
      OBVIOUS
    <2>3. ReadFor(p) /\ ReadFor(c)
      BY <2>1, <2>2 DEF Blank, Checked, ReadFor
    <2>4. req' = [req EXCEPT ![r] = IF warm[t].done THEN c ELSE p]
      BY <1>2, <2>1, <2>2 DEF arrive, Set
    <2> QED BY <1>1, <2>3, <2>4, StatusLocal
  <1>3. CASE warmup(r, t)
    <2>1. \/ req' = [req EXCEPT ![r] = Done(Blank("warmup", t, "active"), "ok")]
          \/ req' = [req EXCEPT ![r] = [Blank("warmup", t, "active") EXCEPT !.pc = "pack"]]
      BY <1>3 DEF warmup, Set
    <2> QED BY <1>1, <2>1, EndedReads, StatusLocal
  <1> QED BY <1>2, <1>3

\* A tenant without a policy gets an entry that is not done.
LEMMA StatusMissing ==
    ASSUME IInv, StatusInv, NEW r \in Requests, policyMissing(r) PROVE StatusInv'
  <1>1. /\ warm \in [Tenants -> Entry] /\ req \in [Requests -> Request]
        /\ req[r].tenant \in Tenants
    BY DEF IInv, TypeOK, Request
  <1>2. PICK n : n = [NoEntry EXCEPT !.exists = TRUE, !.stage = req[r].stage]
    OBVIOUS
  <1>3. ~n.done
    BY <1>2 DEF NoEntry
  <1>4. PICK m, q : m = Detach(req, req[r].tenant) /\ q = Done(req[r], Refused(req[r].op))
    OBVIOUS
  <1>5. /\ warm' = [warm EXCEPT ![req[r].tenant] = n] /\ engine' = engine
        /\ req' = [m EXCEPT ![r] = q]
    BY <1>2, <1>4 DEF policyMissing
  <1>6. ShownInv'
    BY <1>1, <1>3, <1>5 DEF StatusInv, ShownInv, Shown
  <1>7. DOMAIN m = Requests
    BY <1>4 DEF Detach
  <1>8. \A x \in Requests : ReadFor(m[x])
    BY <1>1, <1>4, OthersRead DEF StatusInv, Stages
  <1>9. ReadFor(q)
    BY <1>4, EndedReads
  <1> QED BY <1>5, <1>6, <1>7, <1>8, <1>9, StatusStep

\* The end of a warmup.  An instance whose load was refused, or which cannot be
\* marked, is reported by no entry.
LEMMA StatusInits ==
    ASSUME IInv, StatusInv, NEW r \in Requests, NEW e \in Engines,
           ~Missing(req[r]), req[r].pc \in {"check", "boot"}, initPolicy(r, e, e)
    PROVE  StatusInv'
  <1>1. /\ req[r] \in Request /\ req[r].tenant \in Tenants /\ ReadFor(req[r])
        /\ warm \in [Tenants -> Entry] /\ engine \in [Engines -> Instance]
        /\ req \in [Requests -> Request] /\ ShownInv
    BY DEF IInv, TypeOK, StatusInv, Request
  <1>2. req[r].doc # NoDoc /\ req[r].doc.key \in {req[r].stage, "legacy"}
    BY <1>1 DEF ReadFor, Missing
  <1>3. \A t \in Tenants : warm[t].done => warm[t].wasm \in Engines /\ engine[warm[t].wasm].tenant # NoTenant
    BY DEF IInv, SoundEntry, Marked
  <1>4. CASE initRefused(r, e)
    BY <1>1, <1>4, EndedReads, StatusLocal DEF initRefused, Set
  <1>5. CASE initUnmarked(r, e)
    <2>1. engine[e].tenant = NoTenant
      BY <1>5 DEF initUnmarked, IInv, SoundEngine
    <2>2. \A t \in Tenants : warm[t].done => engine'[warm[t].wasm] = engine[warm[t].wasm]
      BY <1>1, <1>3, <1>5, <2>1 DEF initUnmarked
    <2>3. ShownInv'
      BY <1>1, <1>5, <2>2 DEF initUnmarked, ShownInv, Shown
    <2>4. PICK q : q = Done(req[r], Thrown(req[r].op))
      OBVIOUS
    <2>5. req' = [req EXCEPT ![r] = q] /\ ReadFor(q)
      BY <1>5, <2>4, EndedReads DEF initUnmarked, Set
    <2>6. DOMAIN req = Requests /\ \A x \in Requests \ {r} : ReadFor(req[x])
      BY <1>1 DEF StatusInv
    <2> QED BY <2>3, <2>5, <2>6, StatusStep
  <1>6. ASSUME NEW w, initDone(r, e, w)
        PROVE  StatusInv'
    <2>1. PICK n : n = [exists |-> TRUE, done |-> TRUE, stage |-> req[r].stage,
                        wasm |-> e, pack |-> req[r].pack]
      OBVIOUS
    <2>2. PICK i : i = [doc |-> req[r].doc, tenant |-> req[r].tenant, late |-> FALSE]
      OBVIOUS
    <2>3. PICK tag : tag = IF w = e THEN req[r].tenant ELSE engine[w].tenant
      OBVIOUS
    <2>4. PICK s, m : s = Switch(req, e, r) /\ m = Detach(s, req[r].tenant)
      OBVIOUS
    <2>5. PICK q : q = IF req[r].op = "decide" THEN Checked(req[r], w, tag)
                       ELSE Done(req[r], "ok")
      OBVIOUS
    <2>6. /\ warm' = [warm EXCEPT ![req[r].tenant] = n]
          /\ engine' = [engine EXCEPT ![e] = i]
          /\ req' = [m EXCEPT ![r] = q]
      BY <1>6, <2>1, <2>2, <2>3, <2>4, <2>5 DEF initDone
    <2>7. ShownInv'
      <3> SUFFICES ASSUME NEW t \in Tenants
                   PROVE  Shown(t, warm'[t], engine'[warm'[t].wasm])
        BY DEF ShownInv
      <3>1. CASE t = req[r].tenant
        <4>1. warm'[t] = n /\ engine'[n.wasm] = i
          BY <1>1, <2>1, <2>6, <3>1
        <4> QED BY <1>2, <2>1, <2>2, <4>1 DEF Shown
      <3>2. CASE t # req[r].tenant
        <4>1. warm'[t] = warm[t]
          BY <2>6, <3>2
        <4>2. CASE warm[t].wasm = e
          <5>1. engine'[e].tenant = req[r].tenant
            BY <1>1, <2>2, <2>6
          <5> QED BY <3>2, <4>1, <4>2, <5>1 DEF Shown
        <4>3. CASE warm[t].wasm # e
          <5>1. warm[t].done => engine'[warm[t].wasm] = engine[warm[t].wasm]
            BY <1>1, <1>3, <2>6, <4>3
          <5>2. Shown(t, warm[t], engine[warm[t].wasm])
            BY <1>1 DEF ShownInv
          <5> QED BY <4>1, <5>1, <5>2 DEF Shown
        <4> QED BY <4>2, <4>3
      <3> QED BY <3>1, <3>2
    <2>8. s \in [Requests -> Request]
      <3>1. \A x \in Requests : s[x] \in Request
        BY <1>1, <2>4 DEF Switch, Request
      <3> QED BY <2>4, <3>1 DEF Switch
    <2>9. \A x \in Requests : ReadFor(s[x])
      BY <1>1, <2>4, OthersRead DEF StatusInv, Stages
    <2>10. \A x \in Requests : ReadFor(m[x])
      BY <1>1, <2>4, <2>8, <2>9, OthersRead DEF Stages
    <2>11. DOMAIN m = Requests
      BY <2>4 DEF Detach
    <2>12. ReadFor(Checked(req[r], w, tag))
      BY <1>1 DEF Checked, ReadFor, Request
    <2>13. ReadFor(q)
      BY <2>5, <2>12, EndedReads
    <2> QED BY <2>6, <2>7, <2>10, <2>11, <2>13, StatusStep
  <1> QED BY <1>4, <1>5, <1>6 DEF initPolicy

LEMMA StatusWarmups ==
    ASSUME IInv, StatusInv, NEW r \in Requests, loadDefault(r) \/ boot(r)
    PROVE  StatusInv'
  <1>1. CASE loadDefault(r)
    <2>1. PICK e \in Engines : e = default
      BY <1>1 DEF loadDefault, IInv, TypeOK
    <2> QED BY <1>1, <2>1, StatusInits DEF loadDefault, At, validPack
  <1>2. CASE boot(r)
    <2>1. ~Missing(req[r])
      BY <1>2 DEF boot, At, IInv, SoundIn, Missing
    <2> QED BY <1>2, <2>1, StatusInits DEF boot, At
  <1> QED BY <1>1, <1>2

\* A re-initialisation loads what was read for the stage of the entry the request
\* took; where that is still the map's entry, it is what the status names.
LEMMA StatusReinit ==
    ASSUME IInv, StatusInv, NEW r \in Requests, reinit(r) PROVE StatusInv'
  <1>1. /\ req[r] \in Request /\ ReadFor(req[r]) /\ SoundIn(req[r], engine, verified)
        /\ engine \in [Engines -> Instance] /\ req \in [Requests -> Request]
    BY DEF IInv, TypeOK, StatusInv
  <1>2. PICK e \in Engines : e = req[r].wasm
    BY <1>1 DEF reinit, At, SoundIn, Marked
  <1>3. PICK i : i = [doc |-> req[r].doc, tenant |-> req[r].tenant,
                      late |-> req[r].cached # warm[req[r].tenant]]
    OBVIOUS
  <1>4. PICK m, q : m = Switch(req, e, r) /\ q = [req[r] EXCEPT !.pc = "panic", !.doc = NoDoc]
    OBVIOUS
  <1>5. engine' = [engine EXCEPT ![e] = i] /\ warm' = warm
    BY <1>2, <1>3 DEF reinit
  <1>6. ~i.late => i.doc.key \in {warm[i.tenant].stage, "legacy"}
    BY <1>1, <1>3 DEF reinit, At, ReadFor
  <1>7. ShownInv'
    <2> SUFFICES ASSUME NEW t \in Tenants
                 PROVE  Shown(t, warm[t], engine'[warm[t].wasm])
      BY <1>5 DEF ShownInv
    <2>1. CASE warm[t].wasm = e
      BY <1>1, <1>5, <1>6, <2>1 DEF Shown
    <2>2. CASE warm[t].wasm # e
      <3>1. warm[t].done => warm[t].wasm \in Engines
        BY DEF IInv, SoundEntry, Marked
      <3>2. warm[t].done => engine'[warm[t].wasm] = engine[warm[t].wasm]
        BY <1>1, <1>5, <2>2, <3>1
      <3> QED BY <3>2 DEF StatusInv, ShownInv, Shown
    <2> QED BY <2>1, <2>2
  <1>8. m[r] = req[r] /\ DOMAIN m = Requests
    BY <1>4 DEF Switch
  <1>9. req' = [m EXCEPT ![r] = q]
    <2>1. req' = [m EXCEPT ![r].pc = "panic", ![r].doc = NoDoc]
      BY <1>2, <1>4 DEF reinit
    <2> QED BY <1>1, <1>4, <1>8, <2>1 DEF Request
  <1>10. \A x \in Requests : ReadFor(m[x])
    BY <1>1, <1>4, OthersRead, WorkerAssumption DEF StatusInv, WorkerAssumption, Stages
  <1>11. ReadFor(q)
    BY <1>1, <1>4 DEF ReadFor, Request
  <1> QED BY <1>7, <1>8, <1>9, <1>10, <1>11, StatusStep

\* An entry invalidated is not done, until a warmup has replaced it.
LEMMA StatusInvalidate ==
    ASSUME IInv, StatusInv, NEW r \in Requests, NEW q \in Request, Invalidate(r, q)
    PROVE  StatusInv'
  <1>1. /\ warm \in [Tenants -> Entry] /\ q.tenant \in Tenants /\ q.stage \in Stages
        /\ req \in [Requests -> Request]
    BY DEF IInv, TypeOK, Request
  <1>2. engine' = engine
    BY DEF Invalidate
  <1>3. \A t \in Tenants : warm'[t].done => warm'[t] = warm[t]
    BY <1>1 DEF Invalidate, Entry
  <1>4. ShownInv'
    BY <1>2, <1>3 DEF StatusInv, ShownInv, Shown
  <1>5. PICK m, n : m = Mutate(req, q.tenant, q.stage) /\ n = [q EXCEPT !.pc = "pack"]
    OBVIOUS
  <1>6. ReadFor(n)
    BY <1>5 DEF ReadFor, Request
  <1>7. req' = [m EXCEPT ![r] = n] /\ DOMAIN m = Requests
    BY <1>5 DEF Invalidate, Mutate
  <1>8. \A x \in Requests : ReadFor(m[x])
    BY <1>1, <1>5, OthersRead DEF StatusInv
  <1> QED BY <1>4, <1>6, <1>7, <1>8, StatusStep

LEMMA StatusOperators ==
    ASSUME IInv, StatusInv, NEW r \in Requests,
           \/ promoteInvalidate(r)
           \/ \E t \in Tenants, s \in Stages : reload(r, t, s) \/ promote(r, t, s)
    PROVE  StatusInv'
  <1>1. CASE promoteInvalidate(r)
    <2>1. PICK q : q = [req[r] EXCEPT !.stage = "active", !.pack = NoPack, !.doc = NoDoc]
      OBVIOUS
    <2>2. req[r] \in Request
      BY DEF IInv, TypeOK
    <2>3. q \in Request
      BY <2>1, <2>2 DEF Request, Stages
    <2> QED BY <1>1, <2>1, <2>3, StatusInvalidate DEF promoteInvalidate
  <1>2. ASSUME NEW t \in Tenants, NEW s \in Stages, reload(r, t, s)
        PROVE  StatusInv'
    <2>1. Blank("reload", t, s) \in Request
      BY BlankType DEF Ops
    <2> QED BY <1>2, <2>1, StatusInvalidate DEF reload
  <1>3. ASSUME NEW t \in Tenants, NEW s \in Stages, promote(r, t, s)
        PROVE  StatusInv'
    <2>1. req' = [req EXCEPT ![r] = [Blank("promote", t, s) EXCEPT !.pc = "src_pack"]]
          /\ UNCHANGED <<engine, warm>>
      BY <1>3 DEF promote, Set, globals
    <2> QED BY <2>1, EndedReads, StatusLocal
  <1> QED BY <1>1, <1>2, <1>3

\* A fresh isolate has no entries.
LEMMA StatusEvict ==
    ASSUME Evict PROVE StatusInv'
  <1>1. ShownInv'
    BY DEF Evict, FreshWarm, NoEntry, ShownInv, Shown
  <1>2. \A x \in Requests : ReadFor(req'[x])
    BY EndedReads DEF Evict
  <1> QED BY <1>1, <1>2 DEF StatusInv

LEMMA StatusInit == Init => StatusInv
  <1> SUFFICES ASSUME Init PROVE StatusInv
    OBVIOUS
  <1>1. ShownInv
    BY DEF Init, FreshWarm, NoEntry, ShownInv, Shown
  <1>2. \A x \in Requests : ReadFor(req[x])
    BY EndedReads DEF Init
  <1> QED BY <1>1, <1>2 DEF StatusInv

LEMMA StatusNext ==
    ASSUME IInv, StatusInv, [Next]_vars PROVE StatusInv'
  <1>1. ASSUME NEW r \in Requests, handle(r) PROVE StatusInv'
    BY <1>1, StatusReads, StatusPromotes, StatusMissing, StatusWarmups, StatusReinit,
       StatusOperators DEF handle, warmupTenant, promoteSteps
  <1>2. ASSUME NEW r \in Requests, NEW x \in Targets,
               reload(r, x[1], x[2]) \/ promote(r, x[1], x[2])
        PROVE  StatusInv'
    <2>1. x[1] \in Tenants /\ x[2] \in Stages
      BY WorkerAssumption DEF WorkerAssumption
    <2> QED BY <1>2, <2>1, StatusOperators
  <1>3. CASE UNCHANGED <<engine, warm, req>>
    BY <1>3 DEF StatusInv, ShownInv
  <1>4. ASSUME NEW t \in Tenants, NEW k \in Keys,
               \/ \E p \in Packs \cup {NoPack} : WritePack(t, k, p)
               \/ \E p \in Policies \cup {NoDoc} : WriteYaml(t, k, p)
        PROVE  StatusInv'
    BY <1>3, <1>4 DEF WritePack, WriteYaml, globals
  <1>5. CASE UNCHANGED vars
    BY <1>3, <1>5 DEF vars
  <1> QED BY <1>1, <1>2, <1>4, <1>5, StatusArrivals, StatusEvict DEF Next

-----------------------------------------------------------------------------
(* Instances whose exports take no new property, which is what the runtime  *)
(* makes of WebAssembly's exports: no tag is ever set, so that no entry is  *)
(* done and no request gets as far as its decision (Unserved).              *)

Unserved(q) == q.out # "decided" /\ (q.op = "warmup" => q.out # "ok")

NothingServed == \A r \in Requests : Unserved(req[r])

LEMMA FrozenFact ==
    ASSUME Extensible = {}, IInv
    PROVE  /\ \A t \in Tenants : ~warm[t].done
           /\ \A r \in Requests : req[r].pc \notin {"reinit", "apply", "panic"}
  <1>1. \A w : ~Marked(w, engine)
    BY DEF IInv, SoundEngine, Marked
  <1> QED BY <1>1 DEF IInv, SoundEntry, SoundIn

\* The requests after a step of one of them that leaves op and out of the others alone.
LEMMA UnservedStep ==
    ASSUME IInv, NothingServed, NEW r \in Requests, NEW q, Unserved(q), NEW m,
           DOMAIN m = Requests,
           \A x \in Requests : m[x].op = req[x].op /\ m[x].out = req[x].out,
           req' = [m EXCEPT ![r] = q]
    PROVE  NothingServed'
  BY DEF NothingServed, Unserved

LEMMA UnservedLocal ==
    ASSUME IInv, NothingServed, NEW r \in Requests, NEW q, Unserved(q),
           req' = [req EXCEPT ![r] = q]
    PROVE  NothingServed'
  BY UnservedStep DEF IInv, TypeOK

\* A request that begins has no outcome yet, and one ends unserved with any other outcome.
LEMMA UnservedEnds ==
    ASSUME NEW q \in Request, NEW out, out # "decided", q.op = "warmup" => out # "ok"
    PROVE  Unserved(Done(q, out))
  BY DEF Unserved, Done, Blank

LEMMA UnservedBegins ==
    ASSUME NEW op, NEW t, NEW s
    PROVE  Unserved(Blank(op, t, s))
  BY DEF Unserved, Blank

LEMMA UnservedReads ==
    ASSUME Extensible = {}, IInv, NothingServed, NEW r \in Requests,
           \/ readPack(r) \/ readYaml(r) \/ packInvalid(r) \/ needEngine(r) \/ bootFailed(r)
           \/ promoteReadPack(r) \/ promoteReadYaml(r)
           \/ promotePutPack(r) \/ promotePutYaml(r)
    PROVE  NothingServed'
  <1>1. req[r] \in Request /\ Unserved(req[r])
    BY DEF IInv, TypeOK, NothingServed
  <1>2. ASSUME NEW q, q.op = req[r].op, q.out = req[r].out, req' = [req EXCEPT ![r] = q]
        PROVE  NothingServed'
    BY <1>1, <1>2, UnservedLocal DEF Unserved
  <1>3. CASE packInvalid(r) \/ bootFailed(r)
    BY <1>1, <1>3, UnservedEnds, UnservedLocal DEF packInvalid, bootFailed, Set, Thrown
  <1>4. CASE promoteReadYaml(r)
    <2>1. Unserved(Done(req[r], "404"))
      BY <1>1, UnservedEnds
    <2>2. PICK d : d = [tenant |-> req[r].tenant, key |-> req[r].stage,
                        policy |-> Staged(yamls, NoDoc, req[r])]
      OBVIOUS
    <2>3. PICK q : q = [req[r] EXCEPT !.pc = "put_pack", !.doc = d]
      OBVIOUS
    <2>4. Unserved(q)
      BY <1>1, <2>3 DEF Unserved, Request
    <2>5. req' = [req EXCEPT ![r] = Done(req[r], "404")] \/ req' = [req EXCEPT ![r] = q]
      BY <1>4, <2>2, <2>3 DEF promoteReadYaml, Set
    <2> QED BY <2>1, <2>4, <2>5, UnservedLocal
  <1>5. CASE readPack(r) \/ promoteReadPack(r)
    <2>1. PICK pc, pack :
            req' = [req EXCEPT ![r] = [req[r] EXCEPT !.pc = pc, !.pack = pack]]
      BY <1>5 DEF readPack, promoteReadPack, Set
    <2>2. PICK q : q = [req[r] EXCEPT !.pc = pc, !.pack = pack]
      OBVIOUS
    <2>3. q.op = req[r].op /\ q.out = req[r].out
      BY <1>1, <2>2 DEF Request
    <2> QED BY <1>2, <2>1, <2>2, <2>3
  <1>6. CASE readYaml(r)
    <2>1. PICK q : q = [req[r] EXCEPT !.pc = "check",
                                      !.doc = getYaml(req[r].tenant, req[r].stage)]
      OBVIOUS
    <2>2. q.op = req[r].op /\ q.out = req[r].out
      BY <1>1, <2>1 DEF Request
    <2> QED BY <1>2, <1>6, <2>1, <2>2 DEF readYaml, Set
  <1>7. CASE needEngine(r) \/ promotePutPack(r) \/ promotePutYaml(r)
    <2>1. PICK pc : req' = [req EXCEPT ![r] = [req[r] EXCEPT !.pc = pc]]
      BY <1>7 DEF needEngine, promotePutPack, promotePutYaml, Set
    <2>2. PICK q : q = [req[r] EXCEPT !.pc = pc]
      OBVIOUS
    <2>3. q.op = req[r].op /\ q.out = req[r].out
      BY <1>1, <2>2 DEF Request
    <2> QED BY <1>2, <2>1, <2>2, <2>3
  <1> QED BY <1>3, <1>4, <1>5, <1>6, <1>7

LEMMA UnservedMissing ==
    ASSUME IInv, NothingServed, NEW r \in Requests, policyMissing(r)
    PROVE  NothingServed'
  <1>1. req[r] \in Request /\ req \in [Requests -> Request]
    BY DEF IInv, TypeOK
  <1>2. PICK m : m = Detach(req, req[r].tenant)
    OBVIOUS
  <1>3. DOMAIN m = Requests /\ \A x \in Requests : m[x].op = req[x].op /\ m[x].out = req[x].out
    BY <1>1, <1>2 DEF Detach, Request
  <1>4. PICK q : q = Done(req[r], Refused(req[r].op)) /\ Unserved(q)
    BY <1>1, UnservedEnds DEF Refused
  <1>5. req' = [m EXCEPT ![r] = q]
    BY <1>2, <1>4 DEF policyMissing
  <1> QED BY <1>3, <1>4, <1>5, UnservedStep

\* init_policy is refused, or the mark is, whichever instance is tried.
LEMMA UnservedInit ==
    ASSUME Extensible = {}, IInv, NothingServed, NEW r \in Requests, NEW e,
           initPolicy(r, e, e)
    PROVE  NothingServed'
  <1>1. req' = [req EXCEPT ![r] = Done(req[r], Thrown(req[r].op))]
    BY DEF initPolicy, initRefused, initUnmarked, initDone, Set
  <1>2. req[r] \in Request
    BY DEF IInv, TypeOK
  <1>3. PICK q : q = Done(req[r], Thrown(req[r].op)) /\ Unserved(q)
    BY <1>2, UnservedEnds DEF Thrown
  <1> QED BY <1>1, <1>3, UnservedLocal

LEMMA UnservedInvalidate ==
    ASSUME IInv, NothingServed, NEW r \in Requests, NEW q \in Request, Unserved(q),
           Invalidate(r, q)
    PROVE  NothingServed'
  <1>1. req \in [Requests -> Request]
    BY DEF IInv, TypeOK
  <1>2. PICK m : m = Mutate(req, q.tenant, q.stage)
    OBVIOUS
  <1>3. DOMAIN m = Requests /\ \A x \in Requests : m[x].op = req[x].op /\ m[x].out = req[x].out
    BY <1>1, <1>2 DEF Mutate, Request
  <1>4. PICK n : n = [q EXCEPT !.pc = "pack"]
    OBVIOUS
  <1>5. Unserved(n)
    BY <1>4 DEF Unserved, Request
  <1>6. req' = [m EXCEPT ![r] = n]
    BY <1>2, <1>4 DEF Invalidate
  <1> QED BY <1>3, <1>5, <1>6, UnservedStep

LEMMA UnservedArrivals ==
    ASSUME Extensible = {}, IInv, NothingServed, NEW r \in Requests, NEW t \in Tenants,
           arrive(r, t) \/ warmup(r, t)
    PROVE  NothingServed'
  <1>1. ~warm[t].done
    BY FrozenFact
  <1>2. CASE arrive(r, t)
    <2>1. PICK b : b = [Blank("decide", t, "active") EXCEPT
                          !.cached = warm[t], !.live = warm[t].exists, !.pc = "pack"]
      OBVIOUS
    <2>2. Unserved(b)
      BY <2>1 DEF Unserved, Blank
    <2>3. req' = [req EXCEPT ![r] = b]
      BY <1>1, <1>2, <2>1 DEF arrive, Set, Blank
    <2> QED BY <2>2, <2>3, UnservedLocal
  <1>3. CASE warmup(r, t)
    <2>1. PICK b : b = [Blank("warmup", t, "active") EXCEPT !.pc = "pack"]
      OBVIOUS
    <2>2. Unserved(b)
      BY <2>1 DEF Unserved, Blank
    <2>3. req' = [req EXCEPT ![r] = b]
      BY <1>1, <1>3, <2>1 DEF warmup, Set
    <2> QED BY <2>2, <2>3, UnservedLocal
  <1> QED BY <1>2, <1>3

LEMMA UnservedOperators ==
    ASSUME IInv, NothingServed, NEW r \in Requests,
           \/ promoteInvalidate(r)
           \/ \E t \in Tenants, s \in Stages : reload(r, t, s) \/ promote(r, t, s)
    PROVE  NothingServed'
  <1>1. CASE promoteInvalidate(r)
    <2>1. PICK q : q = [req[r] EXCEPT !.stage = "active", !.pack = NoPack, !.doc = NoDoc]
      OBVIOUS
    <2>2. req[r] \in Request /\ Unserved(req[r])
      BY DEF IInv, TypeOK, NothingServed
    <2>3. q.op = req[r].op /\ q.out = req[r].out
      BY <2>1, <2>2 DEF Request
    <2>4. Unserved(q)
      BY <2>2, <2>3 DEF Unserved
    <2>5. q \in Request
      BY <2>1, <2>2 DEF Request, Stages
    <2> QED BY <1>1, <2>1, <2>4, <2>5, UnservedInvalidate DEF promoteInvalidate
  <1>2. ASSUME NEW t \in Tenants, NEW s \in Stages, reload(r, t, s)
        PROVE  NothingServed'
    <2>1. Blank("reload", t, s) \in Request
      BY BlankType DEF Ops
    <2> QED BY <1>2, <2>1, UnservedBegins, UnservedInvalidate DEF reload
  <1>3. ASSUME NEW t \in Tenants, NEW s \in Stages, promote(r, t, s)
        PROVE  NothingServed'
    <2>1. PICK b : b = [Blank("promote", t, s) EXCEPT !.pc = "src_pack"]
      OBVIOUS
    <2>2. Unserved(b)
      BY <2>1 DEF Unserved, Blank
    <2> QED BY <1>3, <2>1, <2>2, UnservedLocal DEF promote, Set
  <1> QED BY <1>1, <1>2, <1>3

LEMMA UnservedEvict ==
    ASSUME IInv, NothingServed, Evict PROVE NothingServed'
  <1> SUFFICES ASSUME NEW r \in Requests PROVE Unserved(req'[r])
    BY DEF NothingServed
  <1>1. CASE Free(r)
    BY <1>1, UnservedBegins DEF Evict
  <1>2. CASE ~Free(r)
    <2>1. PICK q : q = [req[r] EXCEPT !.hole = "none"]
      OBVIOUS
    <2>2. req'[r] = Done(q, "lost")
      BY <1>2, <2>1 DEF Evict
    <2> QED BY <2>2 DEF Unserved, Done, Blank
  <1> QED BY <1>1, <1>2

LEMMA UnservedNext ==
    ASSUME Extensible = {}, IInv, NothingServed, [Next]_vars PROVE NothingServed'
  <1>1. ASSUME NEW r \in Requests, handle(r) PROVE NothingServed'
    <2>1. ~At(r, "reinit") /\ ~At(r, "apply") /\ ~At(r, "panic")
      BY FrozenFact DEF At
    <2>2. CASE loadDefault(r) \/ boot(r)
      BY <2>2, UnservedInit DEF loadDefault, boot
    <2>3. CASE promoteSteps(r)
      BY <2>3, UnservedReads, UnservedOperators DEF promoteSteps
    <2>4. CASE warmupTenant(r)
      BY <2>2, <2>4, UnservedReads, UnservedMissing DEF warmupTenant
    <2> QED BY <1>1, <2>1, <2>3, <2>4
            DEF handle, readReinit, reinit, reinitRefused, reinitSkipped, decide
  <1>2. ASSUME NEW r \in Requests, NEW x \in Targets,
               reload(r, x[1], x[2]) \/ promote(r, x[1], x[2])
        PROVE  NothingServed'
    <2>1. x[1] \in Tenants /\ x[2] \in Stages
      BY WorkerAssumption DEF WorkerAssumption
    <2> QED BY <1>2, <2>1, UnservedOperators
  <1>3. CASE UNCHANGED req
    BY <1>3 DEF NothingServed
  <1>4. ASSUME NEW t \in Tenants, NEW k \in Keys,
               \/ \E p \in Packs \cup {NoPack} : WritePack(t, k, p)
               \/ \E p \in Policies \cup {NoDoc} : WriteYaml(t, k, p)
        PROVE  NothingServed'
    BY <1>3, <1>4 DEF WritePack, WriteYaml
  <1>5. CASE UNCHANGED vars
    BY <1>3, <1>5 DEF vars
  <1> QED BY <1>1, <1>2, <1>4, <1>5, UnservedArrivals, UnservedEvict DEF Next

-----------------------------------------------------------------------------
(* The theorems                                                            *)

LEMMA InitIInv == Init => IInv
  <1> SUFFICES ASSUME Init PROVE IInv OBVIOUS
  <1>1. engine \in [Engines -> Instance] /\ \A e \in Engines : SoundEngine(e, engine[e])
    BY DEF Init, FreshEngines, FreshEngine, Instance, SoundEngine
  <1>2. warm \in [Tenants -> Entry] /\ \A t \in Tenants : SoundEntry(t, warm[t], engine, verified)
    BY DEF Init, FreshWarm, NoEntry, Entry, SoundEntry
  <1>3. req \in [Requests -> Request] /\ \A r \in Requests : SoundIn(req[r], engine, verified)
    BY BlankType, BlankSound, WorkerAssumption DEF Init, WorkerAssumption, Ops, Stages
  <1>4. TypeOK
    BY <1>1, <1>2, <1>3, WorkerAssumption DEF Init, TypeOK, WorkerAssumption
  <1> QED BY <1>1, <1>2, <1>3, <1>4 DEF IInv

LEMMA NextIInv == IInv /\ [Next]_vars => IInv'
  <1> SUFFICES ASSUME IInv, [Next]_vars PROVE IInv' OBVIOUS
  <1>1. ASSUME NEW r \in Requests, handle(r) PROVE IInv'
    <2>1. CASE warmupTenant(r)
      BY <2>1, ReadPackStep, ReadYamlStep, PolicyMissingStep, PackInvalidStep,
         NeedEngineStep, LoadDefaultStep, BootStep, BootFailedStep DEF warmupTenant
    <2>2. CASE promoteSteps(r)
      BY <2>2, PromoteReadPackStep, PromoteReadYamlStep, PromotePutPackStep,
         PromotePutYamlStep, PromoteInvalidateStep DEF promoteSteps
    <2> QED BY <1>1, <2>1, <2>2, ReadReinitStep, ReinitStep, ReinitRefusedStep,
               ReinitSkippedStep, DecideStep DEF handle
  <1>2. ASSUME NEW r \in Requests, NEW t \in Tenants, arrive(r, t) \/ warmup(r, t)
        PROVE  IInv'
    BY <1>2, ArriveStep, WarmupStep
  <1>3. ASSUME NEW r \in Requests, NEW x \in Targets,
               reload(r, x[1], x[2]) \/ promote(r, x[1], x[2])
        PROVE  IInv'
    <2>1. x[1] \in Tenants /\ x[2] \in Stages
      BY WorkerAssumption DEF WorkerAssumption
    <2> QED BY <1>3, <2>1, ReloadStep, PromoteStep
  <1>4. ASSUME NEW t \in Tenants, NEW k \in Keys,
               \/ \E p \in Packs \cup {NoPack} : WritePack(t, k, p)
               \/ \E p \in Policies \cup {NoDoc} : WriteYaml(t, k, p)
        PROVE  IInv'
    BY <1>4, WriteStep
  <1>5. CASE UNCHANGED vars
    BY <1>5 DEF vars, IInv, TypeOK
  <1> QED BY <1>1, <1>2, <1>3, <1>4, <1>5, EvictStep DEF Next

\* Every behaviour of the isolate keeps the inductive invariant.
THEOREM Invariance == Spec => []IInv
  BY InitIInv, NextIInv, PTL DEF Spec

\* Variables keep their types.
THEOREM TypeCorrect == Spec => []TypeOK
  <1>1. IInv => TypeOK BY DEF IInv
  <1> QED BY <1>1, Invariance, PTL

\* The tag of an instance always names the tenant whose policy it runs, so
\* that the test of line 447 means what it is for.
THEOREM TagIsTruthfulHolds == Spec => []TagIsTruthful
  <1>1. IInv => TagIsTruthful BY DEF IInv, TagIsTruthful, SoundEngine
  <1> QED BY <1>1, Invariance, PTL

\* No request is decided by an unloaded engine or without a verified pack of
\* its tenant, in whatever order requests, operators and evictions interleave.
THEOREM FailClosedHolds == Spec => []FailClosed
  <1>1. IInv => FailClosed
    BY WorkerAssumption DEF WorkerAssumption, IInv, FailClosed, SoundIn
  <1> QED BY <1>1, Invariance, PTL

\* Isolation fails only through the two holes: the await between the reload of
\* the engine and the decision, and a YAML gone when the engine is reloaded.
THEOREM OwnPolicyHolds == Spec => []OwnPolicyButForTwoHoles
  <1>1. IInv => OwnPolicyButForTwoHoles
    BY DEF IInv, OwnPolicyButForTwoHoles, SoundIn
  <1> QED BY <1>1, Invariance, PTL

\* A tenant reported ready has an engine that was given a policy and marked.
THEOREM ReadyMeansMarkedHolds == Spec => []ReadyMeansMarked
  <1>1. IInv => ReadyMeansMarked
    BY DEF IInv, ReadyMeansMarked, SoundEntry, Marked
  <1> QED BY <1>1, Invariance, PTL

\* The stage /_policy/status names is the one the tenant's engine runs, with any number
\* of requests, reloads, promotions, warmups and re-initialisations under way and any keys
\* written by hand, except through one hole: a re-initialisation that outlived its entry.
THEOREM StatusCoherentHolds == Spec => []StatusCoherentButForLateReinit
  <1>1. StatusInv => StatusCoherentButForLateReinit
    BY DEF StatusInv, ShownInv, Shown, Serves, StatusCoherentButForLateReinit
  <1>2. IInv /\ StatusInv /\ [Next]_vars => StatusInv'
    BY StatusNext
  <1> QED BY <1>1, <1>2, StatusInit, Invariance, PTL DEF Spec

\* Every instance marks itself by a property of its exports (worker.mjs:99), which the runtime
\* freezes: then no request is decided and no warmup answers 200, whatever the keys hold and
\* however requests interleave (docs/runbooks/p0-multitenant.md expects 200).
THEOREM FrozenExportsServeNothing ==
    ASSUME Extensible = {} PROVE Spec => []NothingServed
  <1>1. Init => NothingServed
    BY UnservedBegins DEF Init, NothingServed
  <1>2. IInv /\ NothingServed /\ [Next]_vars => NothingServed'
    BY UnservedNext
  <1> QED BY <1>1, <1>2, Invariance, PTL DEF Spec
=============================================================================
