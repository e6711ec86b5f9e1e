# UBL Flagship: formal models

TLA+ models of the stateful parts of this repository, the TLC runs that check
them on small instances, and TLAPS proofs for every value of the constants.
Every definition is translated from the source; `PROJECT.json` maps it to its
lines. Paths below are relative to `src/`.

## 1. The system

UBL Flagship serves several tenants from Cloudflare Workers (TypeScript and
JavaScript) and a few Rust services. A request at the edge is decided by a
signed policy; the identity, quota, office, media and messenger services stand
behind it, and a browser client in front of it. There is no shared transaction
anywhere: state lives in Workers KV, in D1 tables, in Durable Objects, in the
memory of an isolate or of a tab, and a handler is a sequence of awaited calls
between which any other handler may run and any of which may fail.

### 1.1 Inventory

| Component (code) | Module | State | Operations | Hard behaviours | What makes it correct |
|---|---|---|---|---|---|
| Policy worker (`workers/policy-worker/src/worker.mjs`) | `PolicyWorker` | one `_engine`, map `tenantWarmup`; pack and YAML of each tenant in KV | decide, `/warmup`, `/_reload`, promote, `/_policy/status` | tenants share one engine across awaits; promotion is two puts; eviction | nothing is decided without a verified pack; the engine's tag is true; a tenant's own policy decides; the status names what is served |
| Panic switch (same file) | `PanicSwitch` | three KV keys with a time to live | `/panic/on`, `/panic/off`, the reads of a request | keys are written, read and expire one at a time | on is obeyed until the deadline, off is over, it always ends |
| Key cache (`workers/policy-worker/src/jwks.mjs`) | `JwksCache` | cache of fetch, `caches.default` | `getJWKS`, `verifyES256`, `/auth/check` | two caches that know nothing of each other; rotation; late puts | a rotation reaches every request in bounded time |
| Policy engine (`crates/policy-engine`) | `PolicyEngine` | none | `decide`, `eval_wire_rec`, `bit_eval` | wires that name bits; order of outputs | evaluated as part of the proxy |
| Policy proxy (`crates/policy-proxy`) | `PolicyProxy` | chip, panic deadline, four counters, each under its own lock | forward, reload, panic on and off, metrics | locks taken one after the other | counters add up |
| Quota object (`apps/quota-do/src/worker.ts`) | `QuotaDO`, abstract `QuotaBudget` | minute bucket, day counter, answered op_keys; plans in KV | `check_and_consume`, `snapshot` | stale limits, lazy refill at boundaries, retries, eviction, quantities below 0 | no window and no day over budget, an op_key paid once |
| Quota skeleton (`apps/quota-do/skeleton`) | `QuotaSkeleton`, abstract `QuotaBudget` | the same promise, another algorithm | consume, snapshot | the same | the same |
| Sessions and refresh tokens (`workers/auth-worker/src`, `apps/core-api/src/tokens`) | `AuthTokens` | `sessions`, `refresh_tokens` | mint, refresh, revoke, logout | every statement its own transaction; calls fail before or after their effect | a closed session stays closed, a redeemed token buys nothing |
| Passkeys (`workers/auth-worker/src/worker.ts`) | `Passkeys`, abstract `Ticket` | challenges in KV, `users`, `passkeys`, `sessions` | register and login, start and finish | challenge deleted last; three INSERTs without a transaction | a session is its owner's; a challenge is a one-time code |
| Device flow (same file; `apps/office/ubl-id-cloudflare-kit`) | `DeviceFlow`, `IdKit` | `device_codes` in D1; a KV record in the kit | start, approve, poll | approvals and polls that overlap; expiry | a device keeps its session; tokens are given once |
| Gateway MCP (`apps/gateway/src/mcp`) | `McpGateway` | a session for each socket: brief, cache of results | tools, brief | results expire, are evicted, are forgotten with the socket | an operation runs once in a connection |
| Webhooks (`apps/webhooks-worker`) | `Webhooks` | marks and dead letters in KV | receive | the mark precedes the processing | an answered event is not processed again |
| RoomDO (`workers/rtc-worker`) | `RoomDO` | sockets in the room | hello, signal, close | sockets that never said hello, or are gone | everyone shows the true count in the end |
| Media API (`apps/media-api-worker`) | `MediaUploads`, `MediaStreams` | KV, R2, D1, queue | presign, commit, link; prepare, goLive, end, token, rooms | four stores without a transaction; values put back whole | announced once with the hash of its row; a replay means a recording |
| Office API (`workers/office-api-worker`) | `OfficeDesk`, `Handovers` | lenses, budget; handovers | lenses, frames, simulation, files, budget; commit, latest, narrative | negative and missing counts; handovers of one millisecond | a budget is kept, net of negative counts; the last handover is told |
| Office indexer (`workers/office-indexer-worker`) | `OfficeIndex` | anchors, vectors, `indexed_at` | the daily job, evidence over it | runs that overlap, stop, meet an upload or have no binding for vectors | anchors cover what was indexed, vectors too where they could be stored |
| LLM router (`workers/office-llm`) | `LlmRouter` | policy in the environment | generate | keys set and unset | every prompt finds a provider that may be used |
| MCP registry (`workers/mcp-registry-worker`) | `Registry` | one list in KV | list, post | read, append, put back | only a post that overlapped its own can drop an acknowledged server |
| Messenger: stream (`.../services/sse.ts`) | `EventStream` | source, cursor, attempts, a timer | connect, disconnect, events, errors | a timer that outlives a disconnect; replay from the cursor | no event is missed |
| Messenger: jobs (`jobsApi.ts`, `useJobs.ts`, `JobDrawer.tsx`) | `JobSockets`, `JobBoard`, `JobDrawer` | the socket, its handlers and timer; lists | subscribe, list, create, approve, open | two sockets, late answers, lost updates, a limit of 100 | a listener has a socket; a lone refresh mends the list |
| Messenger: optimistic updates (`useOptimistic.ts`) | `Optimistic` | pending copies of a list | add, confirm, revert, time out | whole copies confirmed in another order | shown is what was asked |
| Messenger: chat (`ChatPage.tsx`, `ublApi.ts`) | `ChatPage` | messages, conversations | send, answer, select, stream events | temporary names from the clock; stale handlers | a message shows its own outcome |
| Messenger: sign-in (`useAuth.ts`, `App.tsx`, login and onboarding pages) | `SignIn` | storage, key in memory, page | restore, register, log in, demo, log out, tenants | answers that outlive a logout, refused logins, reloads | one identity, and what is left of another is named |
| Messenger: signature (`crypto.ts`) | `Ed25519` | none | derive, sign | field arithmetic by hand | what is signed verifies |

### 1.2 How the parts interact

The core API holds no session state: `mint_token` asks the auth worker for the
session, asks again whether it is revoked, and asks it to store a refresh
token, three HTTP calls with D1 statements behind them; `AuthTokens` therefore
contains both programs. Passkeys and the device flow insert into the same
table `sessions`; what happens to a session afterwards is the subject of
`AuthTokens`, and each of the other modules has the rows it inserts. Policy
worker and panic switch share a file and a KV namespace but no state: a request
reads the panic flags between the check of its engine and its decision, which is
the await that `PolicyWorker` keeps as the step `panic`. The policy proxy
evaluates the engine (`PolicyProxy` extends `PolicyEngine`). The office API
reads what the indexer writes (`OfficeIndex` holds both sides). Events of
`EventStream` reach `ChatPage`, which assumes of them what is shown there: each
at least once while the page is there. Updates through `JobSockets` reach
`JobBoard`, which therefore gets them twice, out of order or not at all.

### 1.3 Not modelled

- ABAC rules (`apps/core-api/src/tokens/abac.rs`): a pure match of one list
  with tests beside it; `AuthTokens` leaves the verdict open, which covers all.
- Canonicalizer, hashing and signing of the core API, policy signer and key
  generator: pure functions of library calls; the server is routing.
- Office dreamer: its second statement selects a column (`content`) that no
  table of the repository has, so that a run throws before it changes anything.
  (It also compares milliseconds with seconds, `index.ts:17`.)
- Receipts, `evidence.ts`, `auth.ts` of the office, `OnboardingContext.tsx` and
  the second frontend `apps/messenger/src`: nothing calls them. `/versions`
  recompute and `rebuild_versions` call methods that do not exist.
- Media `/stage` page: nothing in the repository writes the keys it reads.
- Messenger proxy (no state), messenger rendering and styling, templates,
  deployment scripts and sample kits.
- `snapshot_index` copies rows to R2 and reads none back.
- KV's eventual consistency, and a missing binding of R2.

## 2. How the project grew, and what could follow

The order was that of importance: decision path, tokens, quota, panic switch;
then identity (passkeys, devices, keys), the services with partial failures, the
messenger. Abstract specifications stand where two programs make one promise:
`QuotaBudget` (both quota objects) and `Ticket` (one-time codes). Proofs followed
the same order, then those of the three compositions. Candidates for further
work: a shared `sessions` table for `Passkeys`, `DeviceFlow` and `AuthTokens`;
refinement of `Ticket` by refresh tokens, which `auth_rotation` shows to fail
today; what any policy decides, not only the three of the repository.

## 3. Modules

Module `X` is the component, `MCX` its instances for TLC with the `.cfg` files
named after it, `XProofs` its theorems. Where no definition is needed for an
instance (`PanicSwitch`, `AuthTokens`, `Messenger`) the `.cfg` is of the module
itself. A
definition `name_Suffix` directly before `name` is a plausible bug of
that code, used only to show that a property notices it; those that no listed
mutant uses can be tried by hand (`consumeTokens_Late` of
`OfficeDesk`, `mayUse_NoKey` of `LlmRouter`, `lookup_Miss` of `Webhooks`,
`onclose_Known` of `JobSockets`, `data_First` of `Optimistic`, `setJob_Kept` of
`JobDrawer`, `pollDelete_Lookup` of `IdKit`).

**Scenes.** `Identity`, `Workers` and `Messenger` instantiate several
small components that share no row side by side. A variable `scene`, chosen in
the initial state, says which one moves; the others rest in one initial state. So
every behaviour is a behaviour of one component, all of them are explored, and
the state space is the sum of theirs. A property of a component holds of the
resting ones in their initial state, and mutants show that each is really
violated by a bug of its own component. The assumptions of the parts are
operators, which the composition asserts of its instances in one `ASSUME`
(`IdentityAssumption`, `WorkersAssumption`, `MessengerAssumption`), so TLC
evaluates all of them. A property of a composition is that of one part under the
same name, or the conjunction of one of each of several parts; the theorems say
of each conjunct where it comes from.

### PolicyWorker

A step of a request is the code between two awaits. `pc` names what it awaits:
`pack` and `yaml` (the two KV reads of `warmupTenant`), `check` (the YAML has
arrived; verify, find the engine, load), `boot` (WASM is being instantiated),
`reinit` and `apply` (lines 449-456), `panic` (lines 466-468), and the steps of
a promotion. `cached` and `live` model a JavaScript reference: `warmupTenant`
replaces the entry of a tenant, `/_reload` mutates it, and a request that holds
it sees mutations only while the map still holds the same object.

- The engine the worker imports, `build/policy_engine.wasm`, is not in the
  repository, and two builds are said to make it. `scripts/build-worker.sh:10`
  builds a crate `policy-engine-wasm` that is not in the repository; from what
  lines 576-600 ask of it, an instance remembers the document `init_policy` was
  given last and refuses the texts in `BadYaml`. README.md:154 and
  `scripts/deploy/deploy-phase3.sh:65` build `crates/policy-engine`, whose
  `wasm.rs` exports a `wasm_bindgen` class and none of the functions the worker
  calls; its module wants imports, `WebAssembly.instantiate` is given none, and
  `getEngine` throws: `bootFailed`, which may end any boot.
- `wasm.__inited = true` and `wasm.__tenant = tenant` (lines 98-99) write to `instance.exports`, which the
  WebAssembly JavaScript API specifies to be frozen; the constant `Extensible`
  is the set of instances for which those assignments work. Elsewhere
  the module throws a TypeError in every warmup (`initUnmarked`). So
  `Extensible = {}` is the worker as the API specifies it: no request is ever
  decided (`FrozenExportsServeNothing`), and `policy_pairing` takes it. What the
  code behind line 98 would do, were the tag kept elsewhere or the exports
  copied, can only be asked with an instance that takes it: runs `policy` (one
  instance of each kind) and `policy_edits` have one, and what they show of the
  decision and of the status is said of such engines. The theorems hold for every
  `Extensible`.
- `late` is history: an engine loaded last by a re-initialisation (line 449) whose
  entry was no longer the map's.
- `catch` at line 112 reads a `const` of the `try` block and throws itself:
  every error inside `warmupTenant` ends the request without an answer
  (`Thrown`), only the early return of line 87 is a 503 (`Refused`).
- The fallbacks of a KV read on the legacy keys are one step with the read.
  KV's eventual consistency is not modelled. Stages are `active` and `next`.

### PanicSwitch

Time is kept as what is left of each deadline, so no clock needs a bound.
`active` is the remaining life of `panic_{t}_active`; `expires` the remaining
life of `panic_{t}_expires_at` and the time to the instant it holds, computed
when the request came and put later. Switch calls overlap freely; `alone` and
`promise` are history that says which requests may rely on which answer. A
request that falls between the expiry of the two keys is still decided under
panic, by the flag alone; `PanicLifted` therefore speaks of `/panic/off` only,
and `PanicObeyed` of the time before the deadline only.

### QuotaDO and QuotaBudget

`effectiveLimits` awaits two KV reads, `readPlan` and `readOverrides`, during
which other calls run; from the load of the meter to its put the object's input
gate is closed, so each outcome of `checkAndConsume` is one action: `Cached`,
`Backpressure`, `RateLimit`, `Debit`, `PassThrough`. A retry is a `Request` with
an op_key already used, whether the answer was lost or not. `Restart` loses the
calls in flight; nothing else is in memory. `winTotal`, `dayTotal` and `debits`
are history: what was really debited, net of what was given back, since nothing
looks at the sign of `qty` (`worker.ts:177`): a quantity of 0 or below passes the
checks of the bucket and of the cap and adds to what is left. The skeleton does
the same (`index.ts:182`). `MaxCredit` bounds how far below 0 a day may go before
no further negative quantity comes.

The budget properties speak of rated meters (every bucket that KV may name for
them has a rate and a burst) and of capped meters. They need that: the merge at
line 126 replaces a bucket, and an override with a cap alone leaves a bucket
that is never refilled and answers BACKPRESSURE to every call.

`QuotaBudget` is the promise: two budgets and a set of paid operations, without
buckets, clocks, KV or calls. The mapping reads `minute` from the debits of the
window (a bucket does not store its grant), `day` from the stored counter if it
is of today, `paid` from the stored op_keys.

### AuthTokens

One action for each SQL statement and each answer between the two programs; a
foreign key is the guard of an INSERT (`MayReference`) and of a DELETE
(`Referenced`). `fail` ends a request at any await, before or after the effect
of the statement; the session lookup and the revocation check treat a failure
as an answer (`fallBack`, `revokedUnknown`), as the Rust code does. What ABAC
says is left open. `jwt_revocations` is written and never read, and left out.

### Passkeys and Ticket

One action for each KV call and SQL statement of the two start and two finish
handlers; `fail` ends a request at any of them. An assertion is made for one
challenge and the credential made for a challenge bears its name. The deployed
handlers store a challenge that is not the one of the options
(`worker.ts:69`, `85`): the constant `Offered` says which challenge the options
made with each stored one carry. `passkey_challenge` takes the deployed code;
run `identity` takes options that carry the stored challenge, since otherwise
no finish ever gets past its first step and nothing behind it would be checked.

`Ticket` is what a one-time code promises: asking after it was spent gets
nothing. It does not promise more, since two requests that both looked the code
up before either deleted it are both served. `Passkeys` implements it with
`spent` the challenges that are gone and a request holding between lookup and
answer.

### DeviceFlow and IdKit

The D1 flow of the auth worker inserts a session and then updates the row of the
code; `told` is what the device was answered, `raced` marks codes with
approvals that overlapped, for which the promise does not hold: the later UPDATE
replaces the session. The kit keeps one KV record; `late` marks calls that began
after tokens were given with nothing else in flight.

### JwksCache

Time is what is left of each entry; `steady` is history, the seconds the served
key has been the same. The two caches add up, since an answer that is about to
expire in the one is put in the other for its full `max-age`, and the put itself
may be late: the bound of `RotationReaches` is `TTL + MaxAge + 2 * Patience`.
`verifyES256` converts the signature to DER (`jwks.mjs`) while WebCrypto takes
`r || s`, so that the deployed code refuses every bearer token (`joseToDer`,
`verify`). An answer of 500 is cached by `cacheTtl` like any other.

### PolicyEngine and PolicyProxy

A chip is read from YAML into wires and outputs; the policies of `policies/` are
values. `eval_wire` is the recursive function over the wires and `decide` the
first output that fires; the proxy calls it for every request. `PolicyProxy` has one step for each lock: evaluation, the counters one
by one, and the metrics that read them one by one. The ledger, `panic_reason`
and the upstream's answer are written and never read, and left out.
`main.rs:180` builds a `RequestContext` without three of its fields and would not
compile; they are modelled as absent.

### McpGateway, Webhooks, Registry, LlmRouter

The gateway handles the messages of a socket one after the other; its cache is
forgotten with the socket, bounded by `Capacity` and the TTL. A delivery of a
webhook is three steps: lookup, mark, process; processing is a stub in the code
and may fail. One without an id (`named`) is given the name of its millisecond
(`worker.ts:94`), which another may or may not have: its lookup has either outcome
and no promise is made of it. `Registry` keeps what each post knew to be
acknowledged when it read the list (`known`), and which posts were put between the
read and the put of another (`crossed`): these may be lost. `LlmRouter` is a pure choice over keys that deployments change.

### MediaUploads and MediaStreams

`commit` is a read of KV and R2 and three writes, to KV, D1 and the queue, each
of which may fail and end the handler; the same medium may be committed again,
at the same time, with another hash. Streams and rooms are values that a handler
reads, changes and puts back whole; `asked` is what the last `go_live` not
overlapped by another asked of recording. With `StreamApi` configured a live
input is kept nowhere, hence no token is ever given for it.

### RoomDO

Sockets are handled one event at a time; `inbox` is what a client has not read
yet and `shown` what it shows. A client's own `presence.update` is sent on as it is
(`presenceUpdate`, `worker.ts:85`), and with a count in it the others show what
that client claimed (`Claimed`) until the room's next count.

### OfficeDesk, Handovers, OfficeIndex

`file.canonical`, the families of files and the version edges are read and never
written by the code (`markCanonical` writes the family's `canonical_file_id`, which
the frame does not read): they are constants.
A negative count passes the check of the budget (`OfficeSessionDO.ts:100`) and gives
back; a request without a count makes the sum no number (`number`), and nothing is
refused after it. A handover is
`earlier` than another when it was answered in a millisecond before the other
began. `OfficeIndex` has one step for each statement of the indexer; a run may
stop anywhere, two may overlap, and a file may be uploaded in between. The binding
of Vectorize is commented out in `wrangler.toml:10`: `bound` says whether both are
there, a deployment may add them (`Deploy`), and a run without them returns from
`embedAndStore` at once and marks its file all the same (`embedded` is history: the
files whose last run had them). The ids of
vectors never equal those of anchors, so that an evidence answer cites nothing.

### QuotaSkeleton

As `QuotaDO`, with the skeleton's own bucket, and `QuotaBudget` as its promise.
A bucket without a rate keeps tokens of an earlier window; one with only a cap
always answers BACKPRESSURE; keys are never forgotten.

### The messenger's client

`EventStream` has the source, the cursor and the timer of `sse.ts`; the gateway
numbers events, and a source without a cursor begins with the next one. `SignIn`
has the three places an identity is kept in (storage, `cachedSigningKey`, the
state of the hook), the guards of the routes, and the calls that go on after the
page that made them is gone. `crypto.ts:431` and `ublApi.ts:299` sign with
whatever key is cached and never read `canSignClientSide`; `OneIdentity`
therefore speaks of the key itself, and `left` (history) says what is here of
somebody else: a key of a login that was refused after PRF, or of whoever was
there before the demo, a tenant of an earlier user. `loginDemo` is offered by
`AuthContext.tsx:74` to every page. `ChatPage` names an optimistic message by the
millisecond of its send (`MaxMs` makes two sends share one). `JobSockets` and
`JobBoard` are the two sides of job updates; `quiet` holds a list call for which
nothing else is going on, and `Limit` is the `limit: 100` of `useJobs.ts:49`: of
more jobs than that the gateway chooses which to answer with. No page calls
`useJobs` yet, and `JobDrawer` is imported by `ChatPage.tsx:15` and not rendered:
both are modelled as they are written, with one page that would use them. `Optimistic` keeps copies of the whole list;
`overlap` marks what the copies cannot undo. `Ed25519` has the formulas and the
two loops of `crypto.ts` with field, order and base point as constants; the
reference beside it (`Curve`, `Sum`, `Times`) is the affine law of the curve,
which uses none of them. `CurveAssumption` says what makes the constants a curve;
TLC evaluates it, and the equation a verifier checks, on the curve over 53.

## 4. Runs

| Run | Instance | What it shows |
|---|---|---|
| `quota` | two calls, a rated and an unlimited meter, one op_key and calls without one, quantities 1 and -1, two plans and one override, seconds 7 to 10 with windows of 2 and days of 4 | budgets, idempotency, backpressure and the refinement over three windows and a day boundary; the clock starts inside a window, and the second day has two of them; grants of 2 and 1 and caps of 2 and 1 are used up by single units, the grant within a window and the cap by the two windows of a day, and -1 gives back what was debited (`MaxCredit` 0). 550,768 states |
| `policy` | two tenants, two requests, two instances (one takes no new property), reload and promotion of both stages of one tenant, no edits | `TypeOK`, `TagIsTruthful`, `FailClosed`, `OwnPolicyButForTwoHoles`, `ReadyMeansMarked` under every interleaving of two requests |
| `policy_edits` | two requests, one instance, one write or delete of any key by an operator, unsigned packs and malformed YAML | `StatusCoherentButForLateReinit`: overlapping reloads, promotions, warmups and re-initialisations leave one hole in what the status says |
| `panic` | two calls, times to live of 1 and 3 | `PanicObeyed`, `PanicLifted` and, under `FairSpec`, `PanicEnds`; two calls overlap at every step, and 1 and 3 let keys expire between any two |
| `auth` | one session, three tokens, two requests | the tables under every pair of requests; three tokens allow a token, its successor and a rival |
| `identity` | three challenges (one credential that counts), two requests, two users; one device code, two approvals, three sessions; one kit record, three calls; two keys, lifetimes of 2 and a patience of 1 | `SessionsAreOwned` and the refinement `ChallengeIsTicket`; `DevicesPairOnce` (the device keeps its session, late polls of the kit get nothing); `RotationReaches` |
| `workers` | one or two of each thing and two or three calls, in twelve scenes | `HandledOnce` (media announced once, events not processed again), `ReplayFollowsRecording`, `CountsAgree` (three sockets, inboxes of 3), `MetricsAddUp` (two policies, two requests), `HandoverKnown` (three commits, milliseconds to 2), `NotDoneAgain` (operations run and paid once, and the skeleton implements `QuotaBudget`), `BooksKept` (two overlapping runs with and without bindings; counts -1, 1 and 2; keys set and unset; three posts). 315,059 states |
| `messenger` | eight scenes: four events, five attempts; two sends; two users; two hooks, three sockets, three timers; two jobs of two versions; three updates of two items; four openings; a curve over 53 | `NothingMissed`, `OneIdentity`, `SignatureVerifies`, `ShownAsAsked` (own outcome, updates shown, drawer, a socket for who listens), `RefreshMends` (a list of one job at most, so that a second exceeds it). 307,546 states |
| `policy_pairing` | two requests, frozen exports | `DriftIsRefused` fails: a warmup between the two puts of a promotion takes the new pack with the old YAML, and its check passes |
| `auth_rotation` | two refreshes | `RotatedOnce` fails: SELECT and UPDATE are separate |
| `auth_mint` | one mint | `RevokedMeansRevoked` fails: the check reads the status, not the body |
| `passkey_challenge` | one of everything, options as deployed | `HonestFinishFindsChallenge` fails: the challenge signed is never the one stored |

Slots for requests and tokens are interchangeable and reduced by symmetry where
no liveness property is checked. Deadlock checking is off everywhere: bounded
clocks, edits and tokens let an instance stop, and a service may stay idle.
Each property of a passing run is broken by a mutant listed in `PROJECT.json`.

### Disagreements no run shows

Policy worker: with frozen exports `/warmup` never answers 200
(docs/runbooks/p0-multitenant.md:178 expects it; `FrozenExportsServeNothing`); a bad pack ends the request
without an answer (`worker.mjs:114`, against docs/ARCHITECTURE.md:167). Where the
exports take the tag, two more: a request that re-initialises the engine while a
reload finishes leaves it on a stage `/_policy/status` does not name, against
docs/blueprints/17-multitenant-gateway--po.md:150
(`StatusCoherentButForLateReinit` says that this is the only way), and a request
of another tenant that reloads the engine while this one reads the panic flags has
its own policy decide this one (`OwnPolicyButForTwoHoles`, the hole `switched`,
against `worker.mjs:2` and `95`). The first promise is thus checked with its hole
named and not as it is written, since the code as imported decides nothing and
a counterexample would be one of an engine nobody has. `promote`
answers `ok: true` whatever its warmup returned; `/admin/health` reads a `const`
before its declaration.

Policy proxy: in v3 and vvz the trigger of `deny_rate_limit` names a bit where a
wire is looked up, which is then false, so that its NOT always fires and
everything is denied (policies/ubl_core_v3.yaml:74, lib.rs:172, against
docs/blueprints/002-policy-proxy-lab-256.md:184); under v1 non-ops reach
`/admin` (`RateRuleDeniesAll` and `V1Decides` prove both); break-glass changes no decision; `eval_ms_max` can go back.

Identity: logout fails on the reference from `refresh_tokens` (`worker.ts:335`,
against UBL_ID_OFFICE_GOLIVE.md:113) and leaves approved device sessions; the
core API signs with a random key while its JWKS serves one from disk.

Quota: an override with only a cap refuses every call
(docs/blueprints/14-billing-quota-plans-p1.md:94); a negative quantity gives budget
back; the skeleton's
`GET /tenants/{id}/plan` reads `split("/")[3]`, which is "plan", and
`/admin/quota/snapshot` is not routed.

Gateway and office: the MCP cache is per socket (against
apps/gateway/README.md:29), may answer the result of another tool, and CONFLICT
is never sent; 'dependências' is never among the consequences, so a simulation
never recommends "modify" (against apps/office/IMPLEMENTACAO_COMPLETA.md:99);
the tables the workers use are not those of apps/office/schemas/d1/schema.sql;
a lens of one workspace overwrites another's; a 502 of a provider has no
fallback.

Messenger: a refused login leaves the derived key in memory; the user who signs in
next without PRF is told that he cannot sign (`canSignClientSide`, `useAuth.ts:37`),
and his messages are signed with it; the demo leaves token and key of whoever was
there; `ubl_tenant_id` survives logout; a
late answer to `GET /tenant` writes the previous user's tenant; "already has a
tenant" leads back to onboarding; handlers of `useSSE` are those of the first
render; two sends of one millisecond get one answer; a job may be shown twice
when two sockets deliver, and the list is not refreshed when the socket comes
back; the drawer may show another job after a late answer; every POST is tried
three times (`network.ts:15`) without a key that would let the gateway tell.

### Fairness

Only `PanicSwitch` states fairness: `WF(Tick)`, since time passes and KV expires
keys whatever the program does, and `WF(Step(c))`, since the runtime resumes a
handler whose await has ended; a call of KV that never ends is a failure of it,
which needs no fairness. Nothing makes callers come back, upstreams answer or
browsers reconnect, so the other modules claim safety only; what "eventually"
would say there is said of the states in which all answers have come
(`NothingMissed`, `CountsAgree`, `RefreshMends`, `ShowsTheOpened`), and of a
bounded time (`RotationReaches`).

## 5. Proofs

All proofs are for every value of the constants, from the named assumptions of
the modules (`WorkerAssumption`, `TokensAssumption`, `QuotaAssumption`,
`PanicAssumption`, and those of the parts of a composition): types of the
constants, finite sets where something is counted, distinct null values, positive
windows, days and times to live, and `Window <= Epoch`, since a bucket whose
`start` is 0 counts as never filled and `Date.now()` is long past that. Three are
worth a word: `ChatAssumption` says that names a gateway gives to messages are no
milliseconds of the page, and `BoardAssumption` that every job is of one
conversation. The third is mathematics: `CurveAssumption` takes from the theory of
the curve that P is a prime (by what Fermat's theorem says of one), that -1 is a
square and d is none, that the law is associative on the multiples of the base
point, and that L of them make the neutral point. All of this is known of the
curve the code uses, and nothing in it speaks of the code's formulas or loops.

### Programs of their own

- `QuotaDOProofs`. The bounds on the totals are not inductive: nothing in them
  speaks of the stored meters. `IInv` ties both together: in the current window
  the debits and the tokens left add up to one grant (`TokensAddUp`), the used
  count of today is today's debits (`UsedIsDebited`), a key not stored was
  never debited (`KeysKept`), and limits in flight come from some document
  (`LimitsKnown`). Nonlinear facts about windows are three lemmas of their own.
  `BudgetImplemented` maps `Debit` to `Spend`, `PassThrough` to `Accept`, `Tick`
  to a reset or a stutter and everything else to a stutter.
- `PolicyWorkerProofs`. `IInv` says of one instance that its tag is true, of one
  entry that its engine is marked and that a finished entry belongs to a
  verified tenant (`SoundEntry`), and of one request (`SoundIn`) that the
  documents it carries are its tenant's, that the engine it holds is marked, and
  that the engine runs its tenant's policy while it waits at `panic`, unless a
  hole was recorded. `StatusCoherentHolds` is for any number of requests and of
  edits: `StatusInv` adds that a document a warmup has read is of the stage it
  warms up, that one read to re-initialise an engine is of the stage in the entry
  the request took, and that nobody mutates that entry under it any more
  (`ReadFor`); so an engine runs what its tenant's entry names unless it was loaded
  for an entry that had been replaced (`Shown`).
  `FrozenExportsServeNothing` says that in a runtime whose module exports
  take no new property no engine is ever marked, so no request is decided and no
  warmup succeeds (`Unserved`).
- `AuthTokensProofs`. The argument is referential integrity: every stored token
  holds the row of its session, so a DELETE of the session succeeds only when no
  token of it is left and no INSERT succeeds afterwards; a mint about to answer
  has a stored token, hence a session that is not closed. A token with a
  successor is used, and a request past its SELECT was not late. Two theorems
  bound the findings. `RotatedOnceOneAtATime`: what `auth_rotation` shows takes
  two refreshes that overlap; with one request at a time, failing wherever it
  may, the token at its INSERT still has no successor (`OnceInv`).
  `MintedOnlyUnansweredHolds`: what `auth_mint` shows is no accident of its
  instance; a mint that was answered ok had a call that failed.
- `PanicSwitchProofs`. A promise is about the past and the keys are about now;
  `IInv` joins them: what a request in flight was promised is still what is
  held, what is held is true of the keys, something is held only while no
  switch call is in flight, and a switch call that ran alone so far knows what
  the keys hold. `Tick` shortens every deadline alike, so the order between them
  is kept.

### Compositions

`IdentityProofs`, `WorkersProofs` and `MessengerProofs` have the same shape: an
inductive invariant of each part from that part's assumption alone (its lemmas
name the instance, `P!`, `D!` and so on); then `Spec` of the composition implies
`Spec` of each part, since a step is a step of one part and leaves the variables
of the others; then the theorem of each property of the run. The signature has a
module of its own, which `MessengerProofs` instantiates (`KP`).

Beyond the runs' properties, `IdentityProofs` says what passkeys do by the options
that are sent: where these carry the stored challenge, `HonestFinishHolds` (a
refused request names a challenge that was not of its kind, and none becomes so:
`ToldTrue`); where they never do, as deployed, `DeployedOptionsOpenNothing` (every
finish is refused where it starts: `StuckAtStart`). And `WorkersProofs` says what
the policies of the repository decide, whatever context they are given:
`RateRuleDeniesAll` (v3 and vvz deny every request), `V1Decides` (the decision of
v1 without recursion), `ProxyDecides` (with the context the proxy builds the
decision is the policy's alone). `eval_wire` is a recursive function over the
wires; those of v1 are few and named, so `V1Wires` writes its solution down and
shows it the only one there, without induction.

| Part | Invariant | What it adds to the property, and why |
|---|---|---|
| `Passkeys` | `IdentityProofs!PInv` | a session is inserted several statements after its user and credential were read: `Vouched` says what a request relies on meanwhile, and it may, since rows of passkeys never change hands. The refinement of `Ticket` maps the two finish handlers to `Ask`, the deletion to `Redeem`, a failure to `Refuse`, the expiry to `Expire` and all else to stutters |
| `DeviceFlow` | `DInv` | of a code whose approvals did not race: one approval at a time works on it and writes the session the row has, if it has one, and a poll was told that one (`Unraced`) |
| `IdKit` | `KInv` | the record of a code that one call redeemed alone is gone, and no call is left that would put it back or redeem it (`Redeemed`); a late call is one for such a code (`Late`) |
| `JwksCache` | `JInv` | how old a replaced key may be in the cache of fetch, in a call, in `caches.default` and in the call that took it from there, each by what the place before allows (`AgedFetched`, `AgedDefault`, `AgedCall`) |
| `RoomDO` | `WorkersProofs!RInv` | messages not read yet: the last presence in an inbox says the true count, or none is there and the client shows it (`Knows`), but for one that another client claimed (`Right`) |
| `Webhooks` | `WInv` | an answered event is marked, and a delivery that began after that finds the mark |
| `MediaUploads` | `UInv` | one commit gets past the row and is the only one to announce (`OneSends`); before it there is no news (`NoRowNoNews`) |
| `MediaStreams` | `MInv` | what a session records is what its last `go_live` asked for, as long as handlers do not overlap (`Alone`) |
| `PolicyProxy` | `PInv` | an evaluation counted is in a total or its request is about to add it (`Books`); a reader's sums were true and only grow (`Reader`) |
| `Handovers` | `HInv` | commits counted as earlier have an earlier stamp (`Stamped`) |
| `OfficeDesk` | `DeskInv` | none: the budget is inductive with its types, for counts of either sign |
| `OfficeIndex` | `XInv` | rows and vectors are only added or replaced, so what a run wrote is there when it marks its file (`OneRowEach`, `Written`); vectors are, if the run began with the bindings |
| `McpGateway` | `CInv` | a key that ran is cached in its session, or its time is up, or more keys ran than fit |
| `QuotaSkeleton` | `QInv` | tokens left and tokens spent of a window make one budget; from it the refinement of `QuotaBudget` |
| `LlmRouter` | `LInv` | none: a provider picked has what it needs when it is picked |
| `Registry` | `GInv` | the list a post has read holds every server it knew to be acknowledged, but for those another post had dropped (`Complete`), and none twice or unacknowledged (`Sound`) |
| `EventStream` | `MessengerProofs!EInv` | every source after the first hello begins where the first one began (`Anchored`), and an open one has handed over all from there to where it stands (`HandedOver`) |
| `SignIn` | `AInv` | what holds while a call waits (`Staged`): a session is restored with no key in memory, a sign-in runs with nobody signed in, a login past its passkey that may sign holds that user's key; and whose tenant the calls that still answer would store (`Tenancy`) |
| `JobSockets` | `SInv` | none: a step that takes the last timer leaves a socket |
| `JobDrawer` | `JInv` | the drawer turns only while its last opening is unanswered (`Turns`), and when that one came in order nothing is pending (`InTurn`) |
| `Optimistic` | `OInv` | one copy for each update under way and none else (`Copies`); while nothing overlapped, the first copy was made on the confirmed list, the list shown has the last word on each item, and the server's list differs by what it carried out for an update under way (`Apart`) |
| `ChatPage` | `CInv` | one message of each send that the stream did not add (`OneEach`), with the status of the send and the id its answer will look for (`Told`) |
| `Ed25519` | `Ed25519Proofs!SignInv` | which points A and R stand for, not only that they are some (`Stands`) |
| `JobBoard` | `BInv` | a list call since which nothing changed at the gateway holds, once answered, the gateway's list (`Quietly`) |

### The signature

The proof of `SignatureVerifies` goes from numbers to the equation of a verifier:

1. Modulo P one may cancel what is not 0 (`Cong`, from Fermat's statement alone),
   and `modPow` computes powers (`ModPowPowers`), so `modInverse` inverts.
2. The law has no exceptions (`LawIsComplete`): its denominators are never 0,
   because -1 is a square and d is none; any two points have one sum, on the
   curve. This is what lets the code add without a special case.
3. `Stands(p, a)` says which affine point extended coordinates stand for, with
   `Z # 0`. `pointAdd` and `pointDouble` respect it (`PointAddAdds`,
   `PointDoubleDoubles`); doubling reads no last coordinate and needs that the
   point is on the curve.
4. A round of `scalarMult` keeps `LoopInv`: the multiple in the result and the
   multiple in the addend, times what is left of s, make s. The loop ends with
   what is left being 0 (`ScalarMultMultiplies`). `PowInv` is the same of `modPow`.
5. Multiples add up (`MultPlus`, from associativity) and L of them vanish, so S
   taken modulo L loses nothing. The bytes of a point tell it from every other
   (`BytesTellApart`: y gives the square of x, and P is odd), so what a verifier
   reads back is the point that was meant.

Induction is by the least element of a set of naturals (`NatSet`), which needs no
operator as a parameter; `Iteration` shows by it that a function defined by
recursion exists, so that `power`, `times` and the loops may be unfolded.

### Only model-checked

Liveness (`PanicEnds`), which the proof system does not do, and the four findings,
which are violations. Every invariant and action property of the passing runs is
a theorem. What `PolicyEngine` decides is proved for the three policies of the
repository; for any other it would be an induction over wires, and `MetricsAddUp`
takes a decision as some value or other, so it needs none. Assumed, not
proved, are the facts of `CurveAssumption`.

## 6. Bounds and abstractions

`MaxEdits` bounds the operators' writes, `MaxTime` and `MaxTicks` clocks,
`MaxMs` milliseconds told apart, `MaxEvents`, `MaxVersion`, `MaxOpens` and
`MaxShown` what a gateway publishes and a page is asked, `MaxInbox` unread
messages, `MaxEval` a duration, `MaxCredit` what negative quantities give back
beyond what was debited; `Tokens`, `Sessions`, `SessionIds` and `UserIds` are
the rows ever created; `Ttls`, `TTL` and `MaxAge` the lives of keys and entries.
Two callers are what a race needs; a third is there where the property speaks of
one that comes after two others (posts, commits, sockets, polls). JSON, hashing
and signatures are records with a Boolean, except in `Ed25519`; tenant
resolution from host and headers, CORS, Access and JWT guards, metrics and
wording are outside the models.
