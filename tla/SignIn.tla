------------------------------- MODULE SignIn -------------------------------
(***************************************************************************)
(* Signing in to the messenger: the hook useAuth, the cached signing key   *)
(* (crypto.ts), the route guards of App.tsx, the login and the onboarding  *)
(* page.  The session token and the tenant live in the browser's storage   *)
(* and outlive a reload; the key lives in memory.                          *)
(*                                                                         *)
(* While isLoading the guards show a spinner and no page, so one call of   *)
(* useAuth is under way at a time; what a page started goes on without it. *)
(* Guards look at the tenant when the route or the session changes only.   *)
(* Messages are signed with whatever key is cached (crypto.ts, ublApi.ts),  *)
(* whether or not canSignClientSide says so.                               *)
(***************************************************************************)
EXTENDS Naturals, FiniteSets

CONSTANTS Users, Tenants, None

VARIABLES token,    \* localStorage ubl_session_token: whose session
          tenant,   \* localStorage ubl_tenant_id
          key,      \* cachedSigningKey: whose, or None
          user,     \* state.user of useAuth
          canSign,  \* state.canSignClientSide
          loading,  \* state.isLoading
          page,     \* the page shown once not loading
          op,       \* the call of useAuth under way, or how the last one ended
          asks,     \* calls to the tenant API under way
          member,   \* server: the tenant of each user
          left      \* history: what is here of somebody else than the user shown

vars == <<token, tenant, key, user, canSign, loading, page, op, asks, member, left>>

DemoUser == "demo:user"

Op  == [pc : {"idle", "restoring", "registering", "login", "signing", "refused"},
        user : Users \cup {None}, prf : BOOLEAN]
Ask == [kind : {"get", "create", "join"}, by : Users]
NoOp == [pc |-> "idle", user |-> None, prf |-> FALSE]

SignInAssumption == None \notin Users \cup Tenants /\ DemoUser \notin Users \cup {None}

\* ProtectedRoute, OnboardingRoute and PublicRoute, to the page they end at.
Routed(p, u, t) == CASE u = None -> "login"
                     [] u # None /\ t = None -> "onboarding"
                     [] OTHER -> "app"

Init == /\ token = None /\ tenant = None /\ key = None
        /\ user = None /\ canSign = FALSE
        /\ loading = FALSE /\ page = "login"
        /\ op = NoOp
        /\ asks = {} /\ member = [u \in Users |-> None] /\ left = {}
-----------------------------------------------------------------------------
\* A tenant in storage, or to be put there by a late answer, that is not of u.
Foreign(u) == tenant \notin {None, member[u]} \/ \E a \in asks : a.by # u

SignedIn(u, sign) == /\ token' = u /\ user' = u /\ canSign' = sign
                     /\ loading' = FALSE /\ op' = NoOp
                     /\ page' = Routed(page, u, tenant)
                     /\ left' = (IF Foreign(u) THEN {"tenant"} ELSE {})
                                \cup (IF sign THEN {} ELSE left \ {"tenant"})

\* The page is loaded again: memory is lost, storage is not.  checkSession asks
\* who the token is for, if there is one.
reload == /\ key' = None /\ user' = None /\ canSign' = FALSE /\ asks' = {}
          /\ loading' = (token # None)
          /\ op' = IF token = None THEN NoOp ELSE [NoOp EXCEPT !.pc = "restoring"]
          /\ page' = IF token = None THEN "login" ELSE page
          /\ left' = left \ {"key"}
          /\ UNCHANGED <<token, tenant, member>>

\* whoami: the session holds, is refused (and forgotten), or the network fails
\* and the token stays for the next load.
checkSession(answer) ==
    /\ op.pc = "restoring"
    /\ \/ answer = "ok" /\ SignedIn(token, key # None)
       \/ /\ answer # "ok"
          /\ token' = IF answer = "invalid" THEN None ELSE token
          /\ loading' = FALSE /\ op' = NoOp /\ page' = "login"
          /\ UNCHANGED <<user, canSign, left>>
    /\ UNCHANGED <<tenant, key, asks, member>>

Begin(pc, u, prf) ==
    /\ ~loading /\ page = "login"
    /\ op' = [pc |-> pc, user |-> u, prf |-> prf]
    /\ loading' = TRUE

registerPasskey(u) ==
    /\ Begin("registering", u, FALSE)
    /\ UNCHANGED <<token, tenant, key, user, canSign, page, asks, member, left>>
\* Signed in at once, and sent to onboarding; no key comes with a registration.
registered == /\ op.pc = "registering" /\ SignedIn(op.user, FALSE)
              /\ UNCHANGED <<tenant, key, asks, member>>

\* Discoverable: the authenticator says who it is.  prf: it gives PRF material, and
\* a key can be derived of it.
loginWithPasskey(u, prf) ==
    /\ Begin("login", u, prf)
    /\ UNCHANGED <<token, tenant, key, user, canSign, page, asks, member, left>>
\* The passkey answers; with PRF material the key is derived before the server
\* has accepted the assertion.
asserted == /\ op.pc = "login"
            /\ op' = [op EXCEPT !.pc = "signing"]
            /\ key' = IF op.prf THEN op.user ELSE key
            /\ UNCHANGED <<token, tenant, user, canSign, loading, page, asks, member, left>>
\* login/finish; then the login page asks for the tenant.
loggedIn == /\ op.pc = "signing" /\ SignedIn(op.user, op.prf)
            /\ asks' = asks \cup {[kind |-> "get", by |-> op.user]}
            /\ UNCHANGED <<tenant, key, member>>
\* Cancelled, refused or failed, at any step.  A key derived by then stays.
refused == /\ op.pc \in {"registering", "login", "signing"}
           /\ op' = [NoOp EXCEPT !.pc = "refused"] /\ loading' = FALSE
           /\ left' = IF op.pc = "signing" /\ op.prf THEN left \cup {"key"} ELSE left
           /\ UNCHANGED <<token, tenant, key, user, canSign, page, asks, member>>

SignOut == /\ token' = None /\ user' = None /\ canSign' = FALSE
           /\ op' = NoOp /\ page' = "login"
\* Mutant: the key outlives the session.
logout_KeyKept == /\ page = "app" /\ ~loading /\ SignOut
                  /\ UNCHANGED <<key, tenant, loading, asks, member, left>>
\* From the chat or the settings page.  The tenant stays in storage.
logout == /\ page = "app" /\ ~loading /\ SignOut
          /\ key' = None /\ left' = left \ {"key"}
          /\ UNCHANGED <<tenant, loading, asks, member>>

\* Offered to every page by AuthContext; none of them calls it yet.  The token and
\* the key of whoever was there stay.
loginDemo == /\ ~loading
             /\ user' = DemoUser /\ canSign' = FALSE /\ op' = NoOp
             /\ page' = Routed(page, DemoUser, tenant)
             /\ left' = IF key = None THEN left ELSE left \cup {"key"}
             /\ UNCHANGED <<token, tenant, key, loading, asks, member>>
-----------------------------------------------------------------------------
\* The token of a request is the one at the time of the call.
Answered(a) == a \in asks /\ asks' = asks \ {a}
Navigate(t) == page' = IF loading THEN page ELSE Routed(page, user, t)

\* checkAndNavigate of the login page, whoever is signed in by then.
checkAndNavigate(a, ok) ==
    /\ a.kind = "get" /\ Answered(a)
    /\ ok => member[a.by] # None
    /\ tenant' = IF ok THEN member[a.by] ELSE tenant
    /\ Navigate(tenant')
    /\ UNCHANGED <<token, key, user, canSign, loading, op, member, left>>

\* Without a token the server refuses.
ask(kind) == /\ page = "onboarding" /\ ~loading /\ token # None
             /\ \A a \in asks : a.kind = "get"
             /\ asks' = asks \cup {[kind |-> kind, by |-> token]}
             /\ UNCHANGED <<token, tenant, key, user, canSign, loading, page, op, member, left>>

\* Stored, and the invite code is shown until the user continues.
handleCreateTenant(a, t) ==
    /\ a.kind = "create" /\ Answered(a) /\ member[a.by] = None
    /\ member' = [member EXCEPT ![a.by] = t] /\ tenant' = t
    /\ UNCHANGED <<token, key, user, canSign, loading, page, op, left>>
handleContinueAfterCreate ==
    /\ page = "onboarding" /\ tenant # None /\ Navigate(tenant)
    /\ UNCHANGED <<token, tenant, key, user, canSign, loading, op, asks, member, left>>
handleJoinTenant(a, t) ==
    /\ a.kind = "join" /\ Answered(a) /\ member[a.by] = None
    /\ \E u \in Users : member[u] = t
    /\ member' = [member EXCEPT ![a.by] = t] /\ tenant' = t
    /\ Navigate(t)
    /\ UNCHANGED <<token, key, user, canSign, loading, op, left>>

\* "already has a tenant": on to the app, without writing which.
alreadyMember(a) ==
    /\ a.kind # "get" /\ Answered(a) /\ member[a.by] # None /\ Navigate(tenant)
    /\ UNCHANGED <<token, tenant, key, user, canSign, loading, op, member, left>>
\* Carried out, but the answer is lost: the call is made again (network.ts).
lost(a, t) ==
    /\ a \in asks /\ member[a.by] = None
    /\ \/ a.kind = "create"
       \/ a.kind = "join" /\ \E u \in Users : member[u] = t
    /\ member' = [member EXCEPT ![a.by] = t]
    /\ UNCHANGED <<token, tenant, key, user, canSign, loading, page, op, asks, left>>
\* An invalid code, or the server is away.
failed(a) ==
    /\ a.kind # "get" /\ Answered(a)
    /\ UNCHANGED <<token, tenant, key, user, canSign, loading, page, op, member, left>>

Next ==
    \/ reload \/ registered \/ asserted \/ loggedIn \/ refused \/ logout \/ loginDemo
    \/ handleContinueAfterCreate
    \/ \E answer \in {"ok", "invalid", "away"} : checkSession(answer)
    \/ \E u \in Users : \/ registerPasskey(u)
                        \/ \E prf \in BOOLEAN : loginWithPasskey(u, prf)
    \/ \E kind \in {"create", "join"} : ask(kind)
    \/ \E a \in asks :
         \/ \E ok \in BOOLEAN : checkAndNavigate(a, ok)
         \/ \E t \in Tenants : handleCreateTenant(a, t) \/ handleJoinTenant(a, t) \/ lost(a, t)
         \/ alreadyMember(a) \/ failed(a)

Spec == Init /\ [][Next]_vars
-----------------------------------------------------------------------------
(* Properties                                                              *)

TypeOK == /\ {token, key} \subseteq Users \cup {None} /\ user \in Users \cup {None, DemoUser}
          /\ tenant \in Tenants \cup {None} /\ canSign \in BOOLEAN /\ loading \in BOOLEAN
          /\ page \in {"login", "onboarding", "app"} /\ op \in Op
          /\ asks \subseteq Ask /\ member \in [Users -> Tenants \cup {None}]
          /\ left \subseteq {"key", "tenant"}

\* One browser, one identity.  The token sent is that of the user shown, if it is not
\* the demo; a key that is offered for signing is his; and so is one that merely could
\* sign, and the tenant the guards go by, unless it was left by somebody else: by a
\* login refused after its key was derived, by whoever was there before the demo, or a
\* tenant of whoever was signed in before.  Reloads, logouts and late answers of the
\* user himself leave nothing, and whoever signs in with a key of his own, or loads the
\* page again, signs with no other.
OneIdentity ==
    /\ user \in Users => token = user
    /\ canSign => key = user
    /\ "key" \notin left => \/ key \in {None, user}
                            \/ op.pc = "signing" /\ op.prf /\ key = op.user
    /\ user \in Users /\ "tenant" \notin left => tenant \in {None, member[user]}
=============================================================================
