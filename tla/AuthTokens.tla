----------------------------- MODULE AuthTokens -----------------------------
(***************************************************************************)
(* Sessions and rotating refresh tokens: the D1 tables of the auth worker  *)
(* (schemas/auth_p0.sql), its internal routes and logout                   *)
(* (workers/auth-worker/src), and the token routes of the core API that    *)
(* call them (apps/core-api/src/tokens).                                   *)
(*                                                                         *)
(* Each SQL statement is one step; nothing groups the statements of a      *)
(* handler in a transaction.  Any call can fail, before its statement or   *)
(* after it on the way back, and a caller that gives up leaves its request *)
(* running: what it tries next is another request.  D1 enforces foreign    *)
(* keys.  jwt_revocations is left out: revokeToken writes it and nothing   *)
(* in src/ reads it.                                                       *)
(***************************************************************************)
EXTENDS Naturals, FiniteSets
LOCAL INSTANCE TLC

CONSTANTS
    Sessions,       \* session ids, each created at most once
    AccessSession,  \* "access-session", the id of an Access identity
    Tokens,         \* refresh tokens, each created at most once
    NoToken,
    Requests        \* slots for requests in flight

ASSUME TokensAssumption ==
    /\ AccessSession \notin Sessions
    /\ NoToken \notin Tokens

VARIABLES
    session,  \* table sessions: the state of the row of each id
    paired,   \* sessions that a row of device_codes references
    token,    \* table refresh_tokens
    req,      \* the requests
    closed    \* history: sessions whose logout or revocation was answered ok

\* For TLC: tokens and request slots are interchangeable.
Symmetry == Permutations(Requests) \cup Permutations(Tokens)

tables == <<session, paired, token>>
vars   == <<session, paired, token, req, closed>>

Row == [row : {"none", "stored", "deleted"},
        session : Sessions \cup {AccessSession},
        used : BOOLEAN, expired : BOOLEAN,
        parent : Tokens \cup {NoToken}]   \* the token it replaced, if any

Ops  == {"mint", "refresh", "revoke", "logout"}
Pcs  == {"idle", "session", "abac", "revoked", "select", "mark", "create",
         "del_session", "del_tokens", "reply", "done"}
Outs == {"none", "ok", "unauthorized", "forbidden", "session_revoked",
         "invalid_refresh_token", "500"}

Request == [op : Ops, pc : Pcs,
            session : Sessions \cup {AccessSession},
            access  : BOOLEAN,               \* it also carries an Access token
            token   : Tokens \cup {NoToken}, \* the one it redeems
            late    : BOOLEAN,  \* history: that one had a successor already
            failed  : BOOLEAN,  \* history: some call it made failed
            out     : Outs]

Blank(op, s) == [op |-> op, pc |-> "idle", session |-> s, access |-> FALSE,
                 token |-> NoToken, late |-> FALSE, failed |-> FALSE,
                 out |-> "none"]

Init == /\ session = [s \in Sessions |-> "none"]
        /\ paired = {}
        /\ token = [t \in Tokens |->
                      [row |-> "none", session |-> AccessSession, used |-> FALSE,
                       expired |-> FALSE, parent |-> NoToken]]
        /\ req = [r \in Requests |-> Blank("mint", AccessSession)]
        /\ closed = {}
-----------------------------------------------------------------------------
(* The tables                                                              *)

HasRow(s) == s \in Sessions /\ session[s] \in {"live", "expired"}
Live(s)   == s \in Sessions /\ session[s] = "live"

\* What the foreign keys of refresh_tokens and device_codes hold a session by.
\* Mutant: refresh tokens do not hold their session.
Referenced_Paired(s) == s \in paired
Referenced(s) == \/ s \in paired
                 \/ \E t \in Tokens : token[t].row = "stored" /\ token[t].session = s

\* SELECT ... WHERE token_hash = ? AND expires_at > now AND used_at IS NULL
\* Mutant: used_at is not looked at.
Redeemable_Used(t) == token[t].row = "stored" /\ ~token[t].expired
Redeemable(t) == token[t].row = "stored" /\ ~token[t].expired /\ ~token[t].used

HasSuccessor(t) == \E x \in Tokens : token[x].parent = t

\* A login, a registration and the approval of a device code insert a session.
OpenSession(s) ==
    /\ session[s] = "none"
    /\ session' = [session EXCEPT ![s] = "live"]
    /\ UNCHANGED <<paired, token, req, closed>>

\* The second statement of an approval: device_codes references the session,
\* if it is still there.  Which sessions come from approvals is left open.
PairDevice(s) ==
    /\ HasRow(s)
    /\ paired' = paired \cup {s}
    /\ UNCHANGED <<session, token, req, closed>>

ExpireSession(s) ==
    /\ session[s] = "live"
    /\ session' = [session EXCEPT ![s] = "expired"]
    /\ UNCHANGED <<paired, token, req, closed>>

ExpireToken(t) ==
    /\ token[t].row = "stored" /\ ~token[t].expired
    /\ token' = [token EXCEPT ![t].expired = TRUE]
    /\ UNCHANGED <<session, paired, req, closed>>
-----------------------------------------------------------------------------
(* Steps of a request                                                      *)

At(r, pc)     == req[r].pc = pc
Free(r)       == req[r].pc \in {"idle", "done"}
Goto(r, pc)   == req' = [req EXCEPT ![r].pc = pc]
Answer(r, o)  == req' = [req EXCEPT ![r].pc = "done", ![r].out = o]

\* POST /tokens/mint with a cookie, an Access token or both.
mint(r, s, access) ==
    /\ Free(r) /\ (s \in Sessions \/ access)
    /\ req' = [req EXCEPT ![r] = [Blank("mint", s) EXCEPT
                  !.pc = "session", !.access = access]]
    /\ UNCHANGED <<tables, closed>>

\* GET /internal/sessions/:sid.
validate_session(r) ==
    /\ At(r, "session") /\ Live(req[r].session)
    /\ Goto(r, "abac")
    /\ UNCHANGED <<tables, closed>>

\* No such session, or no answer: the Access identity, if there is one.
fallBack(r) ==
    /\ At(r, "session")
    /\ req' = [req EXCEPT ![r].session = AccessSession,
                          ![r].failed = @ \/ Live(req[r].session),
                          ![r].pc  = IF req[r].access THEN "abac" ELSE "done",
                          ![r].out = IF req[r].access THEN "none"
                                     ELSE "unauthorized"]
    /\ UNCHANGED <<tables, closed>>

\* What the policy says of the request is left open.
evaluate_abac(r) ==
    /\ At(r, "abac")
    /\ Goto(r, "revoked") \/ Answer(r, "forbidden")
    /\ UNCHANGED <<tables, closed>>

\* isSessionRevoked answers {revoked: true} or {revoked: false}, both with
\* status 200; is_session_revoked takes any answer with that status for yes.
is_session_revoked(r) ==
    /\ At(r, "revoked")
    /\ Answer(r, "session_revoked")
    /\ UNCHANGED <<tables, closed>>

\* With no answer, or with an error status, the session counts as good.
revokedUnknown(r) ==
    /\ At(r, "revoked")
    /\ req' = [req EXCEPT ![r].pc = "create", ![r].failed = TRUE]
    /\ UNCHANGED <<tables, closed>>

\* The foreign key of refresh_tokens.session_id.
\* Mutants: no foreign key; one that takes a deleted session.
MayReference_Any(s) == TRUE
MayReference_Created(s) == s \in Sessions /\ session[s] # "none"
MayReference(s) == HasRow(s)

\* INSERT INTO refresh_tokens, for mint and for refresh.
createRefreshToken(r) ==
    LET q == req[r] IN
    /\ At(r, "create") /\ MayReference(q.session)
    /\ \E t \in Tokens :
         /\ token[t].row = "none"
         /\ token' = [token EXCEPT ![t] =
                        [row |-> "stored", session |-> q.session, used |-> FALSE,
                         expired |-> FALSE, parent |-> q.token]]
    /\ Goto(r, "reply")
    /\ UNCHANGED <<session, paired, closed>>

createRefused(r) ==
    /\ At(r, "create") /\ ~MayReference(req[r].session)
    /\ Answer(r, "500")
    /\ UNCHANGED <<tables, closed>>

\* POST /tokens/refresh.
refresh(r, t) ==
    /\ Free(r) /\ token[t].row # "none"
    /\ req' = [req EXCEPT ![r] = [Blank("refresh", token[t].session) EXCEPT
                  !.pc = "select", !.token = t, !.late = HasSuccessor(t)]]
    /\ UNCHANGED <<tables, closed>>

validateRefreshToken(r) ==
    /\ At(r, "select")
    /\ IF Redeemable(req[r].token) THEN Goto(r, "mark")
                                   ELSE Answer(r, "invalid_refresh_token")
    /\ UNCHANGED <<tables, closed>>

\* UPDATE refresh_tokens SET used_at; no row may match any more (used of a
\* deleted row is never read).
markUsed(r) ==
    LET t == req[r].token IN
    /\ At(r, "mark")
    /\ token' = [token EXCEPT ![t].used = TRUE]
    /\ Goto(r, "create")
    /\ UNCHANGED <<session, paired, closed>>

\* POST /session/logout, and POST /tokens/revoke with a session_id.
close(r, op, s) ==
    /\ Free(r) /\ session[s] # "none"
    /\ req' = [req EXCEPT ![r] = [Blank(op, s) EXCEPT !.pc = "del_session"]]
    /\ UNCHANGED <<tables, closed>>

\* DELETE FROM sessions, which a foreign key may refuse.
deleteSession(r) ==
    LET s == req[r].session IN
    /\ At(r, "del_session")
    /\ \/ /\ HasRow(s) /\ ~Referenced(s)
          /\ session' = [session EXCEPT ![s] = "deleted"]
          /\ Goto(r, "del_tokens")
       \/ /\ ~HasRow(s)
          /\ Goto(r, "del_tokens") /\ UNCHANGED session
       \/ /\ HasRow(s) /\ Referenced(s)
          /\ Answer(r, "500") /\ UNCHANGED session
    /\ UNCHANGED <<paired, token, closed>>

deleteTokens(r) ==
    /\ At(r, "del_tokens")
    /\ token' = [t \in Tokens |->
                   IF token[t].row = "stored" /\ token[t].session = req[r].session
                   THEN [token[t] EXCEPT !.row = "deleted"] ELSE token[t]]
    /\ Goto(r, "reply")
    /\ UNCHANGED <<session, paired, closed>>

reply(r) ==
    /\ At(r, "reply")
    /\ Answer(r, "ok")
    /\ closed' = IF req[r].op \in {"revoke", "logout"}
                 THEN closed \cup {req[r].session} ELSE closed
    /\ UNCHANGED tables

\* A call fails and the request ends with it: in the session lookup and in
\* the revocation check a failure is an answer, see above.
fail(r) ==
    /\ ~Free(r) /\ req[r].pc \notin {"session", "revoked"}
    /\ req' = [req EXCEPT ![r].pc = "done", ![r].out = "500", ![r].failed = TRUE]
    /\ UNCHANGED <<tables, closed>>

mint_token(r) == \/ validate_session(r) \/ fallBack(r) \/ evaluate_abac(r)
                 \/ is_session_revoked(r) \/ revokedUnknown(r)
refresh_token(r) == validateRefreshToken(r) \/ markUsed(r)
create_refresh_token(r) == createRefreshToken(r) \/ createRefused(r)
revokeToken(r) == deleteSession(r) \/ deleteTokens(r)

Next == \/ \E s \in Sessions :
             OpenSession(s) \/ PairDevice(s) \/ ExpireSession(s)
        \/ \E t \in Tokens : ExpireToken(t)
        \/ \E r \in Requests :
             \/ \E s \in Sessions \cup {AccessSession}, a \in BOOLEAN : mint(r, s, a)
             \/ \E t \in Tokens : refresh(r, t)
             \/ \E op \in {"revoke", "logout"}, s \in Sessions : close(r, op, s)
             \/ mint_token(r) \/ refresh_token(r) \/ create_refresh_token(r)
             \/ revokeToken(r) \/ reply(r) \/ fail(r)

Spec == Init /\ [][Next]_vars
-----------------------------------------------------------------------------
(* Properties                                                              *)

TypeOK == /\ session \in [Sessions -> {"none", "live", "expired", "deleted"}]
          /\ paired \subseteq Sessions
          /\ token \in [Tokens -> Row]
          /\ \A t \in Tokens : token[t].row # "none" => token[t].session \in Sessions
          /\ req \in [Requests -> Request]
          /\ closed \subseteq Sessions

\* A session whose logout or revocation was answered ok is over: its row is
\* gone and no refresh token of it can be redeemed, whatever mints and
\* refreshes of the same session ran between the two DELETEs or after them.
ClosedForGood ==
    \A s \in closed :
        /\ session[s] = "deleted"
        /\ \A t \in Tokens : token[t].session = s => ~Redeemable(t)

\* The step in which r is given new tokens.
Delivered(r) == At(r, "reply") /\ req'[r].pc = "done" /\ req'[r].out = "ok"
                /\ req[r].op \in {"mint", "refresh"}

\* No mint or refresh hands out tokens of a session after its logout or its
\* revocation was answered ok.
NoTokensAfterClose == [][\A r \in Requests :
                           Delivered(r) => req[r].session \notin closed]_vars

\* A refresh presented after its token was replaced gets no tokens, across
\* failures between the SELECT, the UPDATE and the INSERT.
LateRedemptionRefused ==
    \A r \in Requests : req[r].op = "refresh" /\ req[r].late => req[r].out # "ok"

\* "Rotacao: marcar usado e emitir novo par" (refresh.rs:56): a refresh token
\* is replaced at most once.
RotatedOnce ==
    \A t \in Tokens : Cardinality({x \in Tokens : token[x].parent = t}) <= 1

\* "Verificar revogacao de session" (mint.rs:70): session_revoked is answered
\* only for a session that is no longer live.
RevokedMeansRevoked ==
    [][\A r \in Requests :
         At(r, "revoked") /\ req'[r].out = "session_revoked"
           => ~Live(req[r].session)]_vars
=============================================================================
