-------------------------- MODULE AuthTokensProofs --------------------------
(***************************************************************************)
(* Proofs about AuthTokens, for any sessions, tokens and requests.  The    *)
(* argument is referential integrity (Integrity): a stored refresh token   *)
(* holds the row of its session, so a DELETE of the session succeeds only  *)
(* when no token of it is left, and no INSERT succeeds afterwards.  What   *)
(* each request still relies on is SoundIn.                                *)
(***************************************************************************)
EXTENDS AuthTokens, FiniteSetTheorems, TLAPS

\* Every stored token references a session row; what has a successor is used.
Integrity ==
    /\ \A t \in Tokens : token[t].row = "stored" => HasRow(token[t].session)
    /\ \A t \in Tokens : token[t].parent # NoToken => token[token[t].parent].used
    /\ \A t \in Tokens : token[t].used => token[t].row # "none"

SoundIn(q) ==
    /\ q.op \in {"revoke", "logout"} => q.session \in Sessions /\ q.token = NoToken
    /\ q.op = "mint" => q.token = NoToken
    /\ q.op = "refresh" => q.token \in Tokens /\ token[q.token].row # "none"
    /\ q.pc \in {"session", "abac", "revoked"} => q.op = "mint"
    /\ q.pc \in {"select", "mark"} => q.op = "refresh"
    /\ q.pc \in {"create"} => q.op \in {"mint", "refresh"}
    /\ q.pc \in {"del_session", "del_tokens"} => q.op \in {"revoke", "logout"}
    /\ q.pc = "del_session" => session[q.session] # "none"
    /\ q.pc = "del_tokens" => session[q.session] = "deleted"
    /\ q.pc = "reply" /\ q.op \in {"revoke", "logout"} => session[q.session] = "deleted"
    /\ q.pc = "reply" /\ q.op \in {"mint", "refresh"} =>
         \E t \in Tokens : token[t].row = "stored" /\ token[t].session = q.session
    /\ q.op = "refresh" /\ q.pc \in {"create", "reply"} => token[q.token].used
    /\ q.op = "refresh" /\ q.late =>
         token[q.token].used /\ q.pc \in {"select", "done"} /\ q.out # "ok"
    /\ q.pc # "done" => q.out = "none"

IInv == /\ TypeOK
        /\ Integrity
        /\ \A r \in Requests : SoundIn(req[r])
        /\ \A s \in closed : session[s] = "deleted"

-----------------------------------------------------------------------------
(* Steps that change no table                                              *)

\* A step that writes one request and leaves the tables alone preserves the
\* invariant when the request it writes is sound.
LEMMA LocalStep ==
    ASSUME IInv, NEW r \in Requests, NEW q \in Request, SoundIn(q),
           req' = [req EXCEPT ![r] = q], UNCHANGED <<tables, closed>>
    PROVE  IInv'
  <1>1. TypeOK' BY DEF IInv, TypeOK, tables
  <1>2. Integrity' BY DEF IInv, Integrity, HasRow, tables
  <1>3. \A x \in Requests : SoundIn(req[x])'
    <2> SUFFICES ASSUME NEW x \in Requests PROVE SoundIn(req[x])' OBVIOUS
    <2>1. req'[x] = IF x = r THEN q ELSE req[x] BY DEF IInv, TypeOK
    <2>2. SoundIn(req[x]) BY DEF IInv
    <2> QED BY <2>1, <2>2 DEF SoundIn, tables
  <1> QED BY <1>1, <1>2, <1>3 DEF IInv, tables

\* What a request looks like after Goto and Answer.
LEMMA MovedType ==
    ASSUME NEW q \in Request, NEW pc \in Pcs, NEW o \in Outs
    PROVE  [q EXCEPT !.pc = pc] \in Request /\ [q EXCEPT !.pc = "done", !.out = o] \in Request
  BY DEF Request, Pcs

LEMMA AnswerStep ==
    ASSUME IInv, NEW r \in Requests, NEW o \in Outs, o # "ok",
           Answer(r, o), UNCHANGED <<tables, closed>>
    PROVE  IInv'
  <1> DEFINE n == [req[r] EXCEPT !.pc = "done", !.out = o]
  <1>1. req[r] \in Request /\ SoundIn(req[r]) BY DEF IInv, TypeOK
  <1>2. n \in Request BY <1>1, MovedType DEF Pcs
  <1>3. SoundIn(n) BY <1>1 DEF SoundIn, Request
  <1>4. req' = [req EXCEPT ![r] = n] BY DEF Answer
  <1> HIDE DEF n
  <1>5. PICK q \in Request : q = n BY <1>2
  <1> QED BY <1>3, <1>4, <1>5, LocalStep

LEMMA GotoStep ==
    ASSUME IInv, NEW r \in Requests, NEW pc \in Pcs, Goto(r, pc),
           SoundIn([req[r] EXCEPT !.pc = pc]), UNCHANGED <<tables, closed>>
    PROVE  IInv'
  <1> DEFINE n == [req[r] EXCEPT !.pc = pc]
  <1>1. n \in Request BY MovedType DEF IInv, TypeOK, Outs
  <1>2. req' = [req EXCEPT ![r] = n] BY DEF Goto
  <1> HIDE DEF n
  <1>3. PICK q \in Request : q = n BY <1>1
  <1> QED BY <1>2, <1>3, LocalStep DEF n

LEMMA BlankType ==
    ASSUME NEW op \in Ops, NEW s \in Sessions \cup {AccessSession}
    PROVE  Blank(op, s) \in Request
  BY DEF Blank, Request, Pcs, Outs

LEMMA MintStep ==
    ASSUME IInv, NEW r \in Requests, NEW s \in Sessions \cup {AccessSession},
           NEW a \in BOOLEAN, mint(r, s, a)
    PROVE  IInv'
  <1> DEFINE b == Blank("mint", s)
             n == [b EXCEPT !.pc = "session", !.access = a]
  <1>1. b \in Request BY BlankType DEF Ops
  <1>2. /\ b.op = "mint" /\ b.token = NoToken /\ ~b.late /\ b.out = "none"
    BY DEF Blank
  <1>3. req' = [req EXCEPT ![r] = n] /\ UNCHANGED <<tables, closed>> BY DEF mint
  <1> HIDE DEF b
  <1>4. n \in Request BY <1>1 DEF Request, Pcs
  <1>5. SoundIn(n) BY <1>1, <1>2 DEF SoundIn, Request
  <1> HIDE DEF n
  <1>6. PICK q \in Request : q = n BY <1>4
  <1> QED BY <1>3, <1>5, <1>6, LocalStep

LEMMA MintTokenStep ==
    ASSUME IInv, NEW r \in Requests, mint_token(r) PROVE IInv'
  <1>1. req[r] \in Request /\ SoundIn(req[r]) BY DEF IInv, TypeOK
  <1>2. CASE validate_session(r)
    <2>1. SoundIn([req[r] EXCEPT !.pc = "abac"])
      BY <1>1, <1>2 DEF SoundIn, Request, validate_session, At
    <2> QED BY <1>2, <2>1, GotoStep DEF validate_session, Pcs
  <1>3. CASE fallBack(r)
    <2> DEFINE f == req[r].failed \/ Live(req[r].session)
               pc == IF req[r].access THEN "abac" ELSE "done"
               o == IF req[r].access THEN "none" ELSE "unauthorized"
               n == [req[r] EXCEPT !.session = AccessSession, !.failed = f,
                                   !.pc = pc, !.out = o]
    <2>1. f \in BOOLEAN /\ pc \in {"abac", "done"} /\ o \in Outs /\ o # "ok"
          /\ (pc # "done" => o = "none")
      BY <1>1 DEF Live, Outs, Request
    <2>2. req' = [req EXCEPT ![r] = n] /\ UNCHANGED <<tables, closed>>
      BY <1>1, <1>3 DEF fallBack, Request
    <2>3. req[r].pc = "session" BY <1>3 DEF fallBack, At
    <2> HIDE DEF f, pc, o
    <2>4. n \in Request BY <1>1, <2>1 DEF Request, Pcs
    <2>5. SoundIn(n) BY <1>1, <2>1, <2>3 DEF SoundIn, Request
    <2> HIDE DEF n
    <2>6. PICK q \in Request : q = n BY <2>4
    <2> QED BY <2>2, <2>5, <2>6, LocalStep
  <1>4. CASE evaluate_abac(r)
    <2>1. SoundIn([req[r] EXCEPT !.pc = "revoked"])
      BY <1>1, <1>4 DEF SoundIn, Request, evaluate_abac, At
    <2> QED BY <1>4, <2>1, GotoStep, AnswerStep DEF evaluate_abac, Pcs, Outs
  <1>5. CASE is_session_revoked(r)
    BY <1>5, AnswerStep DEF is_session_revoked, Outs
  <1>6. CASE revokedUnknown(r)
    <2> DEFINE n == [req[r] EXCEPT !.pc = "create", !.failed = TRUE]
    <2>1. n \in Request BY <1>1 DEF Request, Pcs
    <2>2. SoundIn(n)
      BY <1>1, <1>6 DEF SoundIn, Request, revokedUnknown, At
    <2>3. req' = [req EXCEPT ![r] = n] /\ UNCHANGED <<tables, closed>>
      BY <1>6 DEF revokedUnknown
    <2> HIDE DEF n
    <2>4. PICK q \in Request : q = n BY <2>1
    <2> QED BY <2>2, <2>3, <2>4, LocalStep
  <1> QED BY <1>2, <1>3, <1>4, <1>5, <1>6 DEF mint_token

\* A refresh begins: that its token has a successor means it is used.
LEMMA RefreshStep ==
    ASSUME IInv, NEW r \in Requests, NEW t \in Tokens, refresh(r, t) PROVE IInv'
  <1> DEFINE b == Blank("refresh", token[t].session)
             l == HasSuccessor(t)
             n == [b EXCEPT !.pc = "select", !.token = t, !.late = l]
  <1>1. b \in Request BY BlankType DEF Ops, IInv, TypeOK, Row
  <1>2. b.op = "refresh" /\ b.out = "none" BY DEF Blank
  <1>3. l \in BOOLEAN /\ (l => token[t].used)
    BY TokensAssumption DEF HasSuccessor, IInv, Integrity, TokensAssumption
  <1>4. /\ req' = [req EXCEPT ![r] = n] /\ UNCHANGED <<tables, closed>>
        /\ token[t].row # "none"
    BY DEF refresh
  <1> HIDE DEF b, l
  <1>5. n \in Request BY <1>1, <1>3 DEF Request, Pcs
  <1>6. SoundIn(n) BY <1>1, <1>2, <1>3, <1>4 DEF SoundIn, Request
  <1> HIDE DEF n
  <1>7. PICK q \in Request : q = n BY <1>5
  <1> QED BY <1>4, <1>6, <1>7, LocalStep

LEMMA ValidateStep ==
    ASSUME IInv, NEW r \in Requests, validateRefreshToken(r) PROVE IInv'
  <1>1. req[r] \in Request /\ SoundIn(req[r]) /\ req[r].pc = "select"
    BY DEF IInv, TypeOK, validateRefreshToken, At
  <1>2. CASE Redeemable(req[r].token)
    <2>1. SoundIn([req[r] EXCEPT !.pc = "mark"])
      BY <1>1, <1>2 DEF SoundIn, Request, Redeemable
    <2> QED BY <1>2, <2>1, GotoStep DEF validateRefreshToken, Pcs
  <1>3. CASE ~Redeemable(req[r].token)
    BY <1>3, AnswerStep DEF validateRefreshToken, Outs
  <1> QED BY <1>2, <1>3

LEMMA CloseStep ==
    ASSUME IInv, NEW r \in Requests, NEW op \in {"revoke", "logout"},
           NEW s \in Sessions, close(r, op, s)
    PROVE  IInv'
  <1> DEFINE b == Blank(op, s)
             n == [b EXCEPT !.pc = "del_session"]
  <1>1. b \in Request BY BlankType DEF Ops
  <1>2. /\ b.op = op /\ b.token = NoToken /\ ~b.late /\ b.out = "none"
        /\ b.session = s
    BY DEF Blank
  <1>3. /\ req' = [req EXCEPT ![r] = n] /\ UNCHANGED <<tables, closed>>
        /\ session[s] # "none"
    BY DEF close
  <1> HIDE DEF b
  <1>4. n \in Request BY <1>1 DEF Request, Pcs
  <1>5. SoundIn(n) BY <1>1, <1>2, <1>3 DEF SoundIn, Request
  <1> HIDE DEF n
  <1>6. PICK q \in Request : q = n BY <1>4
  <1> QED BY <1>3, <1>5, <1>6, LocalStep

LEMMA FailStep ==
    ASSUME IInv, NEW r \in Requests, fail(r) PROVE IInv'
  <1> DEFINE n == [req[r] EXCEPT !.pc = "done", !.out = "500", !.failed = TRUE]
  <1>1. req[r] \in Request /\ SoundIn(req[r]) BY DEF IInv, TypeOK
  <1>2. n \in Request BY <1>1 DEF Request, Pcs, Outs
  <1>3. SoundIn(n) BY <1>1 DEF SoundIn, Request
  <1>4. req' = [req EXCEPT ![r] = n] /\ UNCHANGED <<tables, closed>> BY DEF fail
  <1> HIDE DEF n
  <1>5. PICK q \in Request : q = n BY <1>2
  <1> QED BY <1>3, <1>4, <1>5, LocalStep

-----------------------------------------------------------------------------
(* Steps that write a table                                                *)

LEMMA OpenStep ==
    ASSUME IInv, NEW s \in Sessions, OpenSession(s) PROVE IInv'
  <1>1. /\ session' = [session EXCEPT ![s] = "live"] /\ session[s] = "none"
        /\ UNCHANGED <<paired, token, req, closed>>
    BY DEF OpenSession
  <1>2. TypeOK' BY <1>1 DEF IInv, TypeOK
  <1>3. Integrity'
    <2>1. \A x : HasRow(x) => HasRow(x)'
      BY <1>1 DEF HasRow, IInv, TypeOK
    <2> QED BY <1>1, <2>1 DEF IInv, Integrity
  <1>4. \A r \in Requests : SoundIn(req[r])'
    <2> SUFFICES ASSUME NEW r \in Requests PROVE SoundIn(req[r])' OBVIOUS
    <2>1. SoundIn(req[r]) BY DEF IInv
    <2>2. req'[r] = req[r] /\ token' = token BY <1>1
    <2>3. \A x \in Sessions : session[x] # "none" => session'[x] = session[x]
      BY <1>1 DEF IInv, TypeOK
    <2>4. \A x \in Sessions : session[x] = "deleted" => session'[x] = "deleted"
      BY <2>3
    <2> QED BY <2>1, <2>2, <2>3, <2>4 DEF SoundIn
  <1>5. \A x \in closed' : session'[x] = "deleted"
    BY <1>1 DEF IInv, TypeOK
  <1> QED BY <1>2, <1>3, <1>4, <1>5 DEF IInv

LEMMA PairDeviceStep ==
    ASSUME IInv, NEW s \in Sessions, PairDevice(s) PROVE IInv'
  <1>1. paired' = paired \cup {s} /\ UNCHANGED <<session, token, req, closed>>
    BY DEF PairDevice
  <1>2. TypeOK' BY <1>1 DEF IInv, TypeOK
  <1>3. Integrity' BY <1>1 DEF IInv, Integrity, HasRow
  <1>4. \A r \in Requests : SoundIn(req[r])' BY <1>1 DEF IInv, SoundIn
  <1> QED BY <1>1, <1>2, <1>3, <1>4 DEF IInv

LEMMA ExpireSessionStep ==
    ASSUME IInv, NEW s \in Sessions, ExpireSession(s) PROVE IInv'
  <1>1. /\ session' = [session EXCEPT ![s] = "expired"] /\ session[s] = "live"
        /\ UNCHANGED <<paired, token, req, closed>>
    BY DEF ExpireSession
  <1>2. TypeOK' BY <1>1 DEF IInv, TypeOK
  <1>3. Integrity'
    <2>1. \A x : HasRow(x) => HasRow(x)'
      BY <1>1 DEF HasRow, IInv, TypeOK
    <2> QED BY <1>1, <2>1 DEF IInv, Integrity
  <1>4. \A r \in Requests : SoundIn(req[r])'
    <2> SUFFICES ASSUME NEW r \in Requests PROVE SoundIn(req[r])' OBVIOUS
    <2>1. SoundIn(req[r]) BY DEF IInv
    <2>2. req'[r] = req[r] /\ token' = token BY <1>1
    <2>3. \A x \in Sessions : /\ session[x] # "none" => session'[x] # "none"
                              /\ session[x] = "deleted" => session'[x] = "deleted"
      BY <1>1 DEF IInv, TypeOK
    <2> QED BY <2>1, <2>2, <2>3 DEF SoundIn
  <1>5. \A x \in closed' : session'[x] = "deleted"
    BY <1>1 DEF IInv, TypeOK
  <1> QED BY <1>2, <1>3, <1>4, <1>5 DEF IInv

\* Rows of refresh_tokens that keep their place and stay used once they are.
LEMMA TokenStep ==
    ASSUME IInv, NEW t \in Tokens, NEW w \in Row,
           token' = [token EXCEPT ![t] = w], UNCHANGED <<session, paired, closed>>,
           w.row = token[t].row, w.session = token[t].session,
           w.parent = token[t].parent, token[t].used => w.used,
           w.used => w.row # "none"
    PROVE  /\ Integrity'
           /\ token' \in [Tokens -> Row]
           /\ \A x \in Tokens : token'[x].row # "none" => token'[x].session \in Sessions
           /\ \A q \in Request : SoundIn(q) => SoundIn(q)'
  <1>1. token \in [Tokens -> Row] BY DEF IInv, TypeOK
  <1>2. \A x \in Tokens : /\ token'[x].row = token[x].row
                          /\ token'[x].session = token[x].session
                          /\ token'[x].parent = token[x].parent
                          /\ token[x].used => token'[x].used
    BY <1>1
  <1>3. token' \in [Tokens -> Row] BY <1>1
  <1>4. \A x \in Tokens : token'[x].row # "none" => token'[x].session \in Sessions
    BY <1>2 DEF IInv, TypeOK
  <1>5. Integrity'
    <2>1. \A x \in Tokens : token'[x].row = "stored" => HasRow(token[x].session)'
      BY <1>2 DEF IInv, Integrity, HasRow
    <2>2. ASSUME NEW x \in Tokens, token'[x].parent # NoToken
          PROVE  token'[token'[x].parent].used
      <3>1. token[x].parent \in Tokens /\ token[token[x].parent].used
        BY <1>1, <1>2, <2>2 DEF IInv, Integrity, Row
      <3> QED BY <1>2, <3>1
    <2>3. \A x \in Tokens : token'[x].used => token'[x].row # "none"
      BY <1>1 DEF IInv, Integrity
    <2> QED BY <1>2, <2>1, <2>2, <2>3 DEF Integrity
  <1>6. \A q \in Request : SoundIn(q) => SoundIn(q)'
    BY <1>2 DEF SoundIn, Request
  <1> QED BY <1>3, <1>4, <1>5, <1>6

LEMMA ExpireTokenStep ==
    ASSUME IInv, NEW t \in Tokens, ExpireToken(t) PROVE IInv'
  <1> DEFINE n == [token[t] EXCEPT !.expired = TRUE]
  <1>1. token[t] \in Row BY DEF IInv, TypeOK
  <1>2. n \in Row /\ n.row = token[t].row /\ n.session = token[t].session
        /\ n.parent = token[t].parent /\ n.used = token[t].used
        /\ (n.used => n.row # "none")
    BY <1>1 DEF Row, IInv, Integrity
  <1>3. token' = [token EXCEPT ![t] = n] /\ UNCHANGED <<session, paired, req, closed>>
    BY DEF ExpireToken
  <1> HIDE DEF n
  <1>4. PICK w \in Row : w = n BY <1>2
  <1>5. /\ Integrity' /\ token' \in [Tokens -> Row]
        /\ \A x \in Tokens : token'[x].row # "none" => token'[x].session \in Sessions
        /\ \A q \in Request : SoundIn(q) => SoundIn(q)'
    BY <1>2, <1>3, <1>4, TokenStep
  <1>6. TypeOK' BY <1>3, <1>5 DEF IInv, TypeOK
  <1>7. \A r \in Requests : SoundIn(req[r])'
    <2> SUFFICES ASSUME NEW r \in Requests PROVE SoundIn(req[r])' OBVIOUS
    <2>1. PICK q \in Request : q = req[r] BY DEF IInv, TypeOK
    <2>2. SoundIn(q) BY <2>1 DEF IInv
    <2>3. req'[r] = q BY <1>3, <2>1
    <2>4. SoundIn(q)' BY <1>5, <2>2
    <2> QED BY <2>3, <2>4 DEF SoundIn
  <1> QED BY <1>3, <1>5, <1>6, <1>7 DEF IInv

LEMMA MarkUsedStep ==
    ASSUME IInv, NEW r \in Requests, markUsed(r) PROVE IInv'
  <1> DEFINE t == req[r].token
             n == [token[t] EXCEPT !.used = TRUE]
             m == [req[r] EXCEPT !.pc = "create"]
  <1>1. req[r] \in Request /\ SoundIn(req[r]) /\ req[r].pc = "mark"
    BY DEF IInv, TypeOK, markUsed, At
  <1>2. t \in Tokens /\ req[r].op = "refresh" /\ token[t].row # "none"
    BY <1>1 DEF SoundIn
  <1>3. token[t] \in Row BY <1>2 DEF IInv, TypeOK
  <1>4. n \in Row /\ n.row = token[t].row /\ n.session = token[t].session
        /\ n.parent = token[t].parent /\ n.used /\ n.row # "none"
    BY <1>2, <1>3 DEF Row
  <1>5. /\ token' = [token EXCEPT ![t] = n] /\ req' = [req EXCEPT ![r] = m]
        /\ UNCHANGED <<session, paired, closed>>
    BY DEF markUsed, Goto
  <1> HIDE DEF n
  <1>6. PICK w \in Row, k \in Tokens : w = n /\ k = t BY <1>2, <1>4
  <1>7. /\ Integrity' /\ token' \in [Tokens -> Row]
        /\ \A x \in Tokens : token'[x].row # "none" => token'[x].session \in Sessions
        /\ \A q \in Request : SoundIn(q) => SoundIn(q)'
    BY <1>4, <1>5, <1>6, TokenStep
  <1>8. token'[t].used /\ token'[t].row # "none"
    BY <1>2, <1>4, <1>5 DEF IInv, TypeOK
  <1>9. m \in Request BY <1>1 DEF Request, Pcs
  <1>10. \A x \in Requests : SoundIn(req[x])'
    <2> SUFFICES ASSUME NEW x \in Requests PROVE SoundIn(req[x])' OBVIOUS
    <2>1. PICK q \in Request : q = req[x] BY DEF IInv, TypeOK
    <2>2. SoundIn(q)' BY <1>7, <2>1 DEF IInv
    <2>3. CASE x # r
      <3>1. req'[x] = q BY <1>5, <2>1, <2>3 DEF IInv, TypeOK
      <3> QED BY <2>2, <3>1 DEF SoundIn
    <2>4. CASE x = r
      <3>1. req'[x] = m BY <1>5, <2>4 DEF IInv, TypeOK
      <3>2. /\ m.op = "refresh" /\ m.pc = "create" /\ m.token = t /\ ~m.late
            /\ m.out = "none"
        BY <1>1, <1>2 DEF SoundIn, Request
      <3> QED BY <1>2, <1>8, <3>1, <3>2 DEF SoundIn
    <2> QED BY <2>3, <2>4
  <1>11. TypeOK'
    <2>1. req' \in [Requests -> Request] BY <1>5, <1>9 DEF IInv, TypeOK
    <2> QED BY <1>5, <1>7, <2>1 DEF IInv, TypeOK
  <1> QED BY <1>5, <1>7, <1>10, <1>11 DEF IInv

\* The INSERT: its session has a row, and its parent was marked by markUsed.
LEMMA CreateStep ==
    ASSUME IInv, NEW r \in Requests, createRefreshToken(r) PROVE IInv'
  <1> DEFINE q == req[r]
             m == [q EXCEPT !.pc = "reply"]
  <1>1. q \in Request /\ SoundIn(q) /\ q.pc = "create" /\ HasRow(q.session)
    BY DEF IInv, TypeOK, createRefreshToken, At, MayReference
  <1>2. PICK t \in Tokens :
          /\ token[t].row = "none"
          /\ token' = [token EXCEPT ![t] =
                         [row |-> "stored", session |-> q.session, used |-> FALSE,
                          expired |-> FALSE, parent |-> q.token]]
    BY DEF createRefreshToken
  <1> DEFINE n == [row |-> "stored", session |-> q.session, used |-> FALSE,
                   expired |-> FALSE, parent |-> q.token]
  <1>3. /\ req' = [req EXCEPT ![r] = m] /\ UNCHANGED <<session, paired, closed>>
    BY DEF createRefreshToken, Goto
  <1>4. /\ token \in [Tokens -> Row] /\ n \in Row /\ n.row = "stored"
        /\ n.session = q.session /\ n.parent = q.token /\ q.session \in Sessions
    BY <1>1 DEF IInv, TypeOK, Row, Request, HasRow
  <1>5. token' = [token EXCEPT ![t] = n] BY <1>2
  <1> HIDE DEF n
  <1>6. /\ token' \in [Tokens -> Row] /\ token'[t] = n
        /\ \A x \in Tokens \ {t} : token'[x] = token[x]
    BY <1>4, <1>5
  <1>7. Integrity'
    <2>1. \A x \in Tokens : token'[x].row = "stored" => HasRow(token[x].session)'
      BY <1>1, <1>3, <1>4, <1>6 DEF IInv, Integrity, HasRow
    <2>2. ASSUME NEW x \in Tokens, token'[x].parent # NoToken
          PROVE  token'[token'[x].parent].used
      <3>1. CASE x = t
        <4>1. token'[x].parent = q.token /\ q.token # NoToken
          BY <1>4, <1>6, <2>2, <3>1
        <4>2. q.op = "refresh" /\ q.token \in Tokens /\ token[q.token].used
          BY <1>1, <4>1 DEF SoundIn
        <4>3. q.token # t
          BY <1>2, <4>2 DEF IInv, Integrity
        <4> QED BY <1>6, <4>1, <4>2, <4>3
      <3>2. CASE x # t
        <4>1. /\ token'[x] = token[x] /\ token[x].parent \in Tokens
              /\ token[token[x].parent].used /\ token[x].parent # t
          BY <1>2, <1>4, <1>6, <2>2, <3>2 DEF IInv, Integrity, Row
        <4> QED BY <1>6, <4>1
      <3> QED BY <3>1, <3>2
    <2>3. \A x \in Tokens : token'[x].used => token'[x].row # "none"
      BY <1>4, <1>6 DEF IInv, Integrity
    <2>4. \A x \in Tokens : token'[x].row = "stored" => HasRow(token'[x].session)
      BY <1>1, <1>4, <1>6 DEF IInv, Integrity
    <2> QED BY <1>3, <2>2, <2>3, <2>4 DEF Integrity, HasRow
  <1>8. m \in Request BY <1>1, MovedType DEF Outs, Pcs
  <1>9. \A x \in Requests : SoundIn(req[x])'
    <2> SUFFICES ASSUME NEW x \in Requests PROVE SoundIn(req[x])' OBVIOUS
    <2>1. /\ \A y \in Tokens : token[y].row # "none" => token'[y] = token[y]
          /\ \A y \in Tokens : token[y].used => token'[y] = token[y]
          /\ \A y \in Tokens : token[y].row = "stored" => token'[y] = token[y]
      BY <1>2, <1>6 DEF IInv, Integrity
    <2>2. CASE x # r
      <3>1. PICK p \in Request : p = req[x] BY DEF IInv, TypeOK
      <3>2. req'[x] = p /\ SoundIn(p)
        BY <1>3, <2>2, <3>1 DEF IInv, TypeOK
      <3>3. /\ p.pc = "reply" /\ p.op \in {"mint", "refresh"} =>
                 \E y \in Tokens : token'[y].row = "stored" /\ token'[y].session = p.session
            /\ p.op = "refresh" => p.token \in Tokens /\ token'[p.token] = token[p.token]
        BY <2>1, <3>2 DEF SoundIn
      <3>4. SoundIn(p)' BY <1>3, <3>2, <3>3 DEF SoundIn
      <3> QED BY <3>2, <3>4 DEF SoundIn
    <2>3. CASE x = r
      <3>1. req'[x] = m BY <1>3, <2>3 DEF IInv, TypeOK
      <3>2. /\ m.pc = "reply" /\ m.op = q.op /\ m.token = q.token /\ m.late = q.late
            /\ m.session = q.session /\ m.out = q.out
        BY <1>1 DEF Request
      <3>3. token'[t].row = "stored" /\ token'[t].session = q.session
        BY <1>4, <1>6
      <3>4. /\ q.op \in {"mint", "refresh"} /\ q.out = "none"
            /\ q.op = "mint" => q.token = NoToken
        BY <1>1 DEF SoundIn
      <3>5. q.op = "refresh" => /\ q.token \in Tokens /\ ~q.late
                                /\ token'[q.token].row # "none"
                                /\ token'[q.token].used
        BY <1>1, <2>1 DEF SoundIn
      <3>6. \E y \in Tokens : token'[y].row = "stored" /\ token'[y].session = q.session
        BY <3>3
      <3> HIDE DEF m, q
      <3>7. PICK p \in Request : p = m BY <1>8
      <3>8. SoundIn(p)' BY <3>2, <3>4, <3>5, <3>6, <3>7 DEF SoundIn
      <3> QED BY <3>1, <3>7, <3>8 DEF SoundIn
    <2> QED BY <2>2, <2>3
  <1>10. TypeOK'
    <2>1. req' \in [Requests -> Request] BY <1>3, <1>8 DEF IInv, TypeOK
    <2>2. \A x \in Tokens : token'[x].row # "none" => token'[x].session \in Sessions
      BY <1>4, <1>6 DEF IInv, TypeOK
    <2> QED BY <1>3, <1>6, <2>1, <2>2 DEF IInv, TypeOK
  <1> QED BY <1>3, <1>7, <1>9, <1>10 DEF IInv

\* The DELETE of a session: no stored token references it, so Integrity stays.
LEMMA DeleteSessionStep ==
    ASSUME IInv, NEW r \in Requests, deleteSession(r) PROVE IInv'
  <1> DEFINE s == req[r].session
             m == [req[r] EXCEPT !.pc = "del_tokens"]
  <1>1. /\ req[r] \in Request /\ SoundIn(req[r]) /\ req[r].pc = "del_session"
        /\ s \in Sessions /\ session[s] # "none" /\ req[r].op \in {"revoke", "logout"}
        /\ req[r].token = NoToken /\ req[r].out = "none"
    BY DEF IInv, TypeOK, SoundIn, deleteSession, At
  <1>2. m \in Request BY <1>1, MovedType DEF Pcs, Outs
  <1>3. CASE HasRow(s) /\ Referenced(s)
    BY <1>3, AnswerStep DEF deleteSession, tables, Outs
  <1>4. CASE ~HasRow(s)
    <2>1. session[s] = "deleted" BY <1>1, <1>4 DEF IInv, TypeOK, HasRow
    <2>2. SoundIn(m) BY <1>1, <2>1 DEF SoundIn, Request
    <2> QED BY <1>4, <2>2, GotoStep DEF deleteSession, tables, Pcs
  <1>5. CASE HasRow(s) /\ ~Referenced(s)
    <2>1. /\ session' = [session EXCEPT ![s] = "deleted"]
          /\ req' = [req EXCEPT ![r] = m] /\ UNCHANGED <<paired, token, closed>>
      BY <1>5 DEF deleteSession, Goto
    <2>2. /\ session'[s] = "deleted"
          /\ \A x \in Sessions \ {s} : session'[x] = session[x]
      BY <1>1, <2>1 DEF IInv, TypeOK
    <2>3. TypeOK' BY <1>1, <1>2, <2>1 DEF IInv, TypeOK
    <2>4. Integrity'
      <3>1. \A t \in Tokens : token[t].row = "stored" => HasRow(token[t].session)'
        BY <1>5, <2>1, <2>2 DEF IInv, Integrity, Referenced, HasRow
      <3> QED BY <2>1, <3>1 DEF IInv, Integrity, HasRow
    <2>5. \A x \in Requests : SoundIn(req[x])'
      <3> SUFFICES ASSUME NEW x \in Requests PROVE SoundIn(req[x])' OBVIOUS
      <3>1. CASE x # r
        <4>1. req'[x] = req[x] /\ SoundIn(req[x]) /\ token' = token
          BY <2>1, <3>1 DEF IInv, TypeOK
        <4>2. \A y : /\ session[y] # "none" => session'[y] # "none" \/ y \notin Sessions
                     /\ session[y] = "deleted" => session'[y] = "deleted" \/ y \notin Sessions
          BY <2>2
        <4>3. req[x].op \in {"revoke", "logout"} => req[x].session \in Sessions
          BY <4>1 DEF SoundIn
        <4> QED BY <4>1, <4>2, <4>3 DEF SoundIn
      <3>2. CASE x = r
        <4>1. req'[x] = m BY <1>1, <2>1, <3>2 DEF IInv, TypeOK
        <4>2. /\ m.pc = "del_tokens" /\ m.op = req[r].op /\ m.token = NoToken
              /\ m.session = s /\ m.out = "none"
          BY <1>1 DEF Request
        <4> QED BY <1>1, <2>2, <4>1, <4>2 DEF SoundIn
      <3> QED BY <3>1, <3>2
    <2>6. \A x \in closed' : session'[x] = "deleted"
      BY <2>1, <2>2 DEF IInv, TypeOK
    <2> QED BY <2>3, <2>4, <2>5, <2>6 DEF IInv
  <1> QED BY <1>3, <1>4, <1>5

\* The second DELETE finds nothing: its session is gone, and with it its tokens.
LEMMA DeleteTokensStep ==
    ASSUME IInv, NEW r \in Requests, deleteTokens(r) PROVE IInv'
  <1>1. /\ req[r] \in Request /\ SoundIn(req[r]) /\ req[r].pc = "del_tokens"
        /\ req[r].op \in {"revoke", "logout"} /\ session[req[r].session] = "deleted"
    BY DEF IInv, TypeOK, SoundIn, deleteTokens, At
  <1>2. \A t \in Tokens : ~(/\ token[t].row = "stored"
                            /\ token[t].session = req[r].session)
    BY <1>1 DEF IInv, Integrity, HasRow
  <1>3. token' = token
    BY <1>2 DEF deleteTokens, IInv, TypeOK
  <1>4. SoundIn([req[r] EXCEPT !.pc = "reply"])
    BY <1>1 DEF SoundIn, Request
  <1> QED BY <1>3, <1>4, GotoStep DEF deleteTokens, tables, Pcs

LEMMA ReplyStep ==
    ASSUME IInv, NEW r \in Requests, reply(r) PROVE IInv'
  <1> DEFINE m == [req[r] EXCEPT !.pc = "done", !.out = "ok"]
  <1>1. req[r] \in Request /\ SoundIn(req[r]) /\ req[r].pc = "reply"
    BY DEF IInv, TypeOK, reply, At
  <1>2. m \in Request BY <1>1, MovedType DEF Pcs, Outs
  <1>3. /\ req' = [req EXCEPT ![r] = m] /\ UNCHANGED tables
        /\ closed' = IF req[r].op \in {"revoke", "logout"}
                     THEN closed \cup {req[r].session} ELSE closed
    BY DEF reply, Answer
  <1>4. req[r].op \in {"revoke", "logout"} =>
          req[r].session \in Sessions /\ session[req[r].session] = "deleted"
    BY <1>1 DEF SoundIn
  <1>5. TypeOK' BY <1>2, <1>3, <1>4 DEF IInv, TypeOK, tables
  <1>6. Integrity' BY <1>3 DEF IInv, Integrity, HasRow, tables
  <1>7. \A x \in Requests : SoundIn(req[x])'
    <2> SUFFICES ASSUME NEW x \in Requests PROVE SoundIn(req[x])' OBVIOUS
    <2>1. CASE x # r
      <3>1. req'[x] = req[x] /\ SoundIn(req[x]) BY <1>3, <2>1 DEF IInv, TypeOK
      <3> QED BY <1>3, <3>1 DEF SoundIn, tables
    <2>2. CASE x = r
      <3>1. req'[x] = m BY <1>3, <2>2 DEF IInv, TypeOK
      <3>2. SoundIn(m) BY <1>1 DEF SoundIn, Request
      <3> HIDE DEF m
      <3> QED BY <1>3, <3>1, <3>2 DEF SoundIn, tables
    <2> QED BY <2>1, <2>2
  <1>8. \A x \in closed' : session'[x] = "deleted"
    BY <1>3, <1>4 DEF IInv, tables
  <1> QED BY <1>5, <1>6, <1>7, <1>8 DEF IInv

-----------------------------------------------------------------------------
(* The invariant and what follows from it                                  *)

LEMMA InitIInv == Init => IInv
  <1> SUFFICES ASSUME Init PROVE IInv OBVIOUS
  <1>1. /\ \A t \in Tokens : token[t] =
              [row |-> "none", session |-> AccessSession, used |-> FALSE,
               expired |-> FALSE, parent |-> NoToken]
        /\ \A r \in Requests : req[r] = Blank("mint", AccessSession)
        /\ closed = {} /\ paired = {}
    BY DEF Init
  <1>2. TypeOK
    <2>1. token \in [Tokens -> Row] BY DEF Init, Row
    <2>2. req \in [Requests -> Request] BY BlankType DEF Init, Ops
    <2>3. session \in [Sessions -> {"none", "live", "expired", "deleted"}] BY DEF Init
    <2> QED BY <1>1, <2>1, <2>2, <2>3 DEF TypeOK
  <1>3. Integrity BY <1>1 DEF Integrity
  <1>4. \A r \in Requests : SoundIn(req[r])
    BY <1>1 DEF SoundIn, Blank
  <1> QED BY <1>1, <1>2, <1>3, <1>4 DEF IInv

LEMMA NextIInv == IInv /\ [Next]_vars => IInv'
  <1> SUFFICES ASSUME IInv, [Next]_vars PROVE IInv' OBVIOUS
  <1>1. CASE UNCHANGED vars
    <2>1. TypeOK' BY <1>1 DEF IInv, TypeOK, vars, tables
    <2>2. Integrity' BY <1>1 DEF IInv, Integrity, HasRow, vars, tables
    <2>3. \A r \in Requests : SoundIn(req[r])'
      BY <1>1 DEF IInv, SoundIn, vars, tables
    <2> QED BY <1>1, <2>1, <2>2, <2>3 DEF IInv, vars
  <1>2. ASSUME NEW s \in Sessions, OpenSession(s) \/ PairDevice(s) PROVE IInv'
    BY <1>2, OpenStep, PairDeviceStep
  <1>3. ASSUME NEW s \in Sessions, ExpireSession(s) PROVE IInv'
    BY <1>3, ExpireSessionStep
  <1>4. ASSUME NEW t \in Tokens, ExpireToken(t) PROVE IInv'
    BY <1>4, ExpireTokenStep
  <1>5. ASSUME NEW r \in Requests, NEW s \in Sessions \cup {AccessSession},
               NEW a \in BOOLEAN, mint(r, s, a)
        PROVE  IInv'
    BY <1>5, MintStep
  <1>6. ASSUME NEW r \in Requests, NEW t \in Tokens, refresh(r, t) PROVE IInv'
    BY <1>6, RefreshStep
  <1>7. ASSUME NEW r \in Requests, NEW op \in {"revoke", "logout"},
               NEW s \in Sessions, close(r, op, s)
        PROVE  IInv'
    BY <1>7, CloseStep
  <1>8. ASSUME NEW r \in Requests, mint_token(r) PROVE IInv'
    BY <1>8, MintTokenStep
  <1>9. ASSUME NEW r \in Requests, refresh_token(r) PROVE IInv'
    BY <1>9, ValidateStep, MarkUsedStep DEF refresh_token
  <1>10. ASSUME NEW r \in Requests, create_refresh_token(r) PROVE IInv'
    <2>1. CASE createRefreshToken(r) BY <2>1, CreateStep
    <2>2. CASE createRefused(r) BY <2>2, AnswerStep DEF createRefused, Outs
    <2> QED BY <1>10, <2>1, <2>2 DEF create_refresh_token
  <1>11. ASSUME NEW r \in Requests, revokeToken(r) PROVE IInv'
    BY <1>11, DeleteSessionStep, DeleteTokensStep DEF revokeToken
  <1>12. ASSUME NEW r \in Requests, reply(r) PROVE IInv'
    BY <1>12, ReplyStep
  <1>13. ASSUME NEW r \in Requests, fail(r) PROVE IInv'
    BY <1>13, FailStep
  <1> QED BY <1>1, <1>2, <1>3, <1>4, <1>5, <1>6, <1>7, <1>8, <1>9, <1>10,
             <1>11, <1>12, <1>13 DEF Next

(* Rotation with requests one at a time: between the SELECT that found a    *)
(* token unused and the INSERT of its successor nobody else inserts one.    *)

OneAtATime == \A r, s \in Requests : r = s

Fresh(q) == q.op = "refresh" /\ q.pc \in {"mark", "create"} => ~HasSuccessor(q.token)

OnceInv ==
    /\ \A x, y \in Tokens : token[x].parent = token[y].parent /\ token[x].parent # NoToken
                              => x = y
    /\ \A r \in Requests : Fresh(req[r])

LEMMA OnceWorld ==
    ASSUME OnceInv, req' = req, \A x \in Tokens : token'[x].parent = token[x].parent
    PROVE  OnceInv'
  BY DEF OnceInv, Fresh, HasSuccessor

LEMMA OnceStep ==
    ASSUME OneAtATime, OnceInv, NEW r \in Requests, NEW q, req'[r] = q,
           \A x \in Tokens : token'[x].parent = token[x].parent, Fresh(q)
    PROVE  OnceInv'
  <1>1. \A t : HasSuccessor(t)' <=> HasSuccessor(t)
    BY DEF HasSuccessor
  <1> QED BY <1>1 DEF OneAtATime, OnceInv, Fresh

\* A step that gives the request another place and outcome.
LEMMA OnceMoves ==
    ASSUME OneAtATime, IInv, OnceInv, NEW r \in Requests, NEW pc, NEW out,
           req' = [req EXCEPT ![r] = [req[r] EXCEPT !.pc = pc, !.out = out]],
           \A x \in Tokens : token'[x].parent = token[x].parent,
           pc = "mark" => ~HasSuccessor(req[r].token),
           pc = "create" => req[r].op = "mint" \/ req[r].pc = "mark"
    PROVE  OnceInv'
  <1>1. req[r] \in Request /\ req \in [Requests -> Request] /\ Fresh(req[r])
    BY DEF IInv, TypeOK, OnceInv
  <1>2. PICK q : q = [req[r] EXCEPT !.pc = pc, !.out = out]
    OBVIOUS
  <1>3. q.op = req[r].op /\ q.token = req[r].token /\ q.pc = pc /\ req'[r] = q
    BY <1>1, <1>2 DEF Request
  <1>4. Fresh(q)
    BY <1>1, <1>3 DEF Fresh
  <1> QED BY <1>3, <1>4, OnceStep

LEMMA OnceSteps ==
    ASSUME OneAtATime, IInv, OnceInv, NEW r \in Requests,
           mint_token(r) \/ refresh_token(r) \/ createRefused(r) \/ revokeToken(r)
             \/ reply(r) \/ fail(r)
    PROVE  OnceInv'
  <1>1. req[r] \in Request /\ SoundIn(req[r]) /\ token \in [Tokens -> Row]
        /\ req \in [Requests -> Request]
    BY DEF IInv, TypeOK
  <1>2. \A x \in Tokens : token'[x].parent = token[x].parent
    <2>1. CASE token' = token
      BY <2>1
    <2>2. CASE markUsed(r)
      BY <1>1, <2>2 DEF markUsed, Row
    <2>3. CASE deleteTokens(r)
      BY <1>1, <2>3 DEF deleteTokens, Row
    <2> QED BY <2>1, <2>2, <2>3
            DEF mint_token, validate_session, fallBack, evaluate_abac, is_session_revoked,
                revokedUnknown, refresh_token, validateRefreshToken, createRefused,
                revokeToken, deleteSession, reply, fail, tables
  <1>3. ASSUME NEW pc, Goto(r, pc), pc = "mark" => ~HasSuccessor(req[r].token),
               pc = "create" => req[r].op = "mint" \/ req[r].pc = "mark"
        PROVE  OnceInv'
    <2>1. [req[r] EXCEPT !.pc = pc] = [req[r] EXCEPT !.pc = pc, !.out = req[r].out]
      BY <1>1 DEF Request
    <2>2. req' = [req EXCEPT ![r] = [req[r] EXCEPT !.pc = pc, !.out = req[r].out]]
      BY <1>3, <2>1 DEF Goto
    <2> QED BY <1>2, <1>3, <2>2, OnceMoves
  <1>4. ASSUME NEW o, Answer(r, o) PROVE OnceInv'
    <2>1. PICK pc : pc = "done"
      OBVIOUS
    <2>2. req' = [req EXCEPT ![r] = [req[r] EXCEPT !.pc = pc, !.out = o]]
      BY <1>4, <2>1 DEF Answer
    <2>3. pc # "mark" /\ pc # "create"
      BY <2>1
    <2> QED BY <1>2, <2>2, <2>3, OnceMoves
  <1>5. ASSUME NEW q, req'[r] = q, q.op = "mint" \/ q.pc = "done" PROVE OnceInv'
    <2>1. Fresh(q)
      BY <1>5 DEF Fresh
    <2> QED BY <1>2, <1>5, <2>1, OnceStep
  <1>6. CASE validateRefreshToken(r)
    <2>1. Redeemable(req[r].token) => ~HasSuccessor(req[r].token)
      BY <1>1, <1>6, TokensAssumption
         DEF validateRefreshToken, At, SoundIn, Redeemable, HasSuccessor, IInv, Integrity,
             TokensAssumption
    <2> QED BY <1>3, <1>4, <1>6, <2>1 DEF validateRefreshToken
  <1>7. CASE markUsed(r)
    BY <1>3, <1>7 DEF markUsed, At
  <1>8. CASE mint_token(r)
    <2>1. req[r].op = "mint"
      BY <1>1, <1>8 DEF SoundIn, mint_token, validate_session, fallBack, evaluate_abac,
                        is_session_revoked, revokedUnknown, At
    <2>2. req'[r].op = "mint"
      BY <1>1, <1>8, <2>1
         DEF mint_token, validate_session, fallBack, evaluate_abac, is_session_revoked,
             revokedUnknown, Goto, Answer, Request
    <2> QED BY <1>5, <2>2
  <1>9. CASE createRefused(r) \/ reply(r)
    BY <1>4, <1>9 DEF createRefused, reply
  <1>10. CASE revokeToken(r)
    BY <1>3, <1>4, <1>10 DEF revokeToken, deleteSession, deleteTokens
  <1>11. CASE fail(r)
    <2>1. req'[r].pc = "done"
      BY <1>1, <1>11 DEF fail, Request
    <2> QED BY <1>5, <2>1
  <1> QED BY <1>6, <1>7, <1>8, <1>9, <1>10, <1>11 DEF refresh_token

LEMMA OnceBegins ==
    ASSUME OneAtATime, IInv, OnceInv, NEW r \in Requests,
           \/ \E s \in Sessions \cup {AccessSession}, a \in BOOLEAN : mint(r, s, a)
           \/ \E t \in Tokens : refresh(r, t)
           \/ \E op \in {"revoke", "logout"}, s \in Sessions : close(r, op, s)
    PROVE  OnceInv'
  <1>1. token' = token /\ req \in [Requests -> Request]
    BY DEF mint, refresh, close, tables, IInv, TypeOK
  <1>2. req'[r].pc \notin {"mark", "create"}
    <2>1. CASE \E s \in Sessions \cup {AccessSession}, a \in BOOLEAN : mint(r, s, a)
      <3>1. PICK s, a : req' = [req EXCEPT ![r] = [Blank("mint", s) EXCEPT
                                   !.pc = "session", !.access = a]]
        BY <2>1 DEF mint
      <3> QED BY <1>1, <3>1 DEF Blank
    <2>2. CASE \E t \in Tokens : refresh(r, t)
      <3>1. PICK s, t, l : req' = [req EXCEPT ![r] = [Blank("refresh", s) EXCEPT
                                      !.pc = "select", !.token = t, !.late = l]]
        BY <2>2 DEF refresh
      <3> QED BY <1>1, <3>1 DEF Blank
    <2>3. CASE \E op \in {"revoke", "logout"}, s \in Sessions : close(r, op, s)
      <3>1. PICK op, s : req' = [req EXCEPT ![r] = [Blank(op, s) EXCEPT !.pc = "del_session"]]
        BY <2>3 DEF close
      <3> QED BY <1>1, <3>1 DEF Blank
    <2> QED BY <2>1, <2>2, <2>3
  <1> QED BY <1>1, <1>2, OnceStep DEF Fresh

\* The successor is inserted by the one request that found no other.
LEMMA OnceCreate ==
    ASSUME OneAtATime, IInv, OnceInv, NEW r \in Requests, createRefreshToken(r)
    PROVE  OnceInv'
  <1>1. /\ req[r] \in Request /\ req \in [Requests -> Request] /\ SoundIn(req[r])
        /\ Fresh(req[r]) /\ token \in [Tokens -> Row]
    BY DEF IInv, TypeOK, OnceInv
  <1>2. PICK n, p : /\ n \in Tokens /\ p = req[r].token
                    /\ \A x \in Tokens : token'[x].parent
                                           = IF x = n THEN p ELSE token[x].parent
    <2>1. PICK n \in Tokens :
            token' = [token EXCEPT ![n] =
                        [row |-> "stored", session |-> req[r].session, used |-> FALSE,
                         expired |-> FALSE, parent |-> req[r].token]]
      BY DEF createRefreshToken
    <2> QED BY <1>1, <2>1
  <1>3. p # NoToken => \A x \in Tokens : token[x].parent # p
    BY <1>1, <1>2 DEF createRefreshToken, At, SoundIn, Fresh, HasSuccessor
  <1>4. \A x, y \in Tokens : token'[x].parent = token'[y].parent /\ token'[x].parent # NoToken
                               => x = y
    BY <1>2, <1>3 DEF OnceInv
  <1>5. req'[r].pc = "reply"
    BY <1>1 DEF createRefreshToken, Goto, Request
  <1> QED BY <1>4, <1>5 DEF OnceInv, Fresh, OneAtATime

LEMMA OnceNext ==
    ASSUME OneAtATime, IInv, OnceInv, [Next]_vars PROVE OnceInv'
  <1>1. ASSUME NEW s \in Sessions, OpenSession(s) \/ PairDevice(s) \/ ExpireSession(s)
        PROVE  OnceInv'
    BY <1>1, OnceWorld DEF OpenSession, PairDevice, ExpireSession
  <1>2. ASSUME NEW t \in Tokens, ExpireToken(t) PROVE OnceInv'
    <2>1. \A x \in Tokens : token'[x].parent = token[x].parent
      BY <1>2 DEF ExpireToken, IInv, TypeOK, Row
    <2> QED BY <1>2, <2>1, OnceWorld DEF ExpireToken
  <1>3. CASE UNCHANGED vars
    BY <1>3, OnceWorld DEF vars, tables
  <1> QED BY <1>1, <1>2, <1>3, OnceSteps, OnceBegins, OnceCreate
          DEF Next, create_refresh_token

-----------------------------------------------------------------------------
-----------------------------------------------------------------------------
(* What a mint goes past: the revocation check                             *)

Passed(q) == q.op = "mint" /\ (q.pc \in {"create", "reply"} \/ q.out = "ok") => q.failed

LEMMA PassedStep ==
    ASSUME IInv, \A r \in Requests : Passed(req[r]), [Next]_vars
    PROVE  \A r \in Requests : Passed(req[r])'
  <1>0. req \in [Requests -> Request] /\ \A r \in Requests : SoundIn(req[r])
    BY DEF IInv, TypeOK
  <1>1. ASSUME NEW r \in Requests, NEW q, req' = [req EXCEPT ![r] = q], Passed(q)
        PROVE  \A x \in Requests : Passed(req[x])'
    <2>1. \A x \in Requests : req'[x] = IF x = r THEN q ELSE req[x]
      BY <1>0, <1>1
    <2> QED BY <1>1, <2>1 DEF Passed
  <1>2. CASE req' = req
    BY <1>2
  <1>3. ASSUME NEW r \in Requests, NEW pc, Goto(r, pc),
               pc \notin {"create", "reply"} \/ req[r].op # "mint" \/ req[r].pc = "create"
        PROVE  \A x \in Requests : Passed(req[x])'
    <2>1. PICK q : q = [req[r] EXCEPT !.pc = pc]
      OBVIOUS
    <2>2. q.op = req[r].op /\ q.pc = pc /\ q.out = req[r].out /\ q.failed = req[r].failed
      BY <1>0, <2>1 DEF Request
    <2>3. Passed(q)
      BY <1>3, <2>2 DEF Passed
    <2>4. req' = [req EXCEPT ![r] = q]
      BY <1>0, <1>3, <2>1 DEF Goto, Request
    <2> QED BY <1>1, <2>3, <2>4
  <1>4. ASSUME NEW r \in Requests, NEW o, Answer(r, o),
               o # "ok" \/ req[r].pc = "reply"
        PROVE  \A x \in Requests : Passed(req[x])'
    <2>1. PICK q : q = [req[r] EXCEPT !.pc = "done", !.out = o]
      OBVIOUS
    <2>2. q.op = req[r].op /\ q.pc = "done" /\ q.out = o /\ q.failed = req[r].failed
      BY <1>0, <2>1 DEF Request
    <2>3. Passed(q)
      BY <1>4, <2>2 DEF Passed
    <2>4. req' = [req EXCEPT ![r] = q]
      BY <1>0, <1>4, <2>1 DEF Answer, Request
    <2> QED BY <1>1, <2>3, <2>4
  <1>5. ASSUME NEW r \in Requests,
               fallBack(r) \/ revokedUnknown(r) \/ fail(r)
        PROVE  \A x \in Requests : Passed(req[x])'
    <2>1. \A x \in Requests : x # r => req'[x] = req[x]
      BY <1>0, <1>5 DEF fallBack, revokedUnknown, fail
    <2>2. Passed(req'[r])
      BY <1>0, <1>5 DEF fallBack, revokedUnknown, fail, Passed, Request
    <2> QED BY <2>1, <2>2
  <1>6. ASSUME NEW r \in Requests,
               \/ \E s \in Sessions \cup {AccessSession}, a \in BOOLEAN : mint(r, s, a)
               \/ \E t \in Tokens : refresh(r, t)
               \/ \E op \in {"revoke", "logout"}, s \in Sessions : close(r, op, s)
        PROVE  \A x \in Requests : Passed(req[x])'
    <2>1. PICK q : /\ req' = [req EXCEPT ![r] = q]
                   /\ q.pc \in {"session", "select", "del_session"} /\ q.out = "none"
      <3>1. CASE \E s \in Sessions \cup {AccessSession}, a \in BOOLEAN : mint(r, s, a)
        <4>1. PICK s, a : req' = [req EXCEPT ![r] = [Blank("mint", s) EXCEPT
                                     !.pc = "session", !.access = a]]
          BY <3>1 DEF mint
        <4> DEFINE q == [Blank("mint", s) EXCEPT !.pc = "session", !.access = a]
        <4>2. q.pc = "session" /\ q.out = "none" BY DEF Blank
        <4>3. req' = [req EXCEPT ![r] = q] BY <4>1
        <4> HIDE DEF q
        <4> QED BY <4>2, <4>3
      <3>2. CASE \E t \in Tokens : refresh(r, t)
        <4>1. PICK s, t, l : req' = [req EXCEPT ![r] = [Blank("refresh", s) EXCEPT
                                        !.pc = "select", !.token = t, !.late = l]]
          BY <3>2 DEF refresh
        <4> DEFINE q == [Blank("refresh", s) EXCEPT !.pc = "select", !.token = t, !.late = l]
        <4>2. q.pc = "select" /\ q.out = "none" BY DEF Blank
        <4>3. req' = [req EXCEPT ![r] = q] BY <4>1
        <4> HIDE DEF q
        <4> QED BY <4>2, <4>3
      <3>3. CASE \E op \in {"revoke", "logout"}, s \in Sessions : close(r, op, s)
        <4>1. PICK op, s : req' = [req EXCEPT ![r] = [Blank(op, s) EXCEPT !.pc = "del_session"]]
          BY <3>3 DEF close
        <4> DEFINE q == [Blank(op, s) EXCEPT !.pc = "del_session"]
        <4>2. q.pc = "del_session" /\ q.out = "none" BY DEF Blank
        <4>3. req' = [req EXCEPT ![r] = q] BY <4>1
        <4> HIDE DEF q
        <4> QED BY <4>2, <4>3
      <3> QED BY <1>6, <3>1, <3>2, <3>3
    <2>2. Passed(q)
      BY <2>1 DEF Passed
    <2> QED BY <1>1, <2>1, <2>2
  <1>7. ASSUME NEW r \in Requests, mint_token(r)
        PROVE  \A x \in Requests : Passed(req[x])'
    BY <1>3, <1>4, <1>5, <1>7
       DEF mint_token, validate_session, evaluate_abac, is_session_revoked
  <1>8. ASSUME NEW r \in Requests, refresh_token(r) \/ create_refresh_token(r)
        PROVE  \A x \in Requests : Passed(req[x])'
    <2>1. refresh_token(r) => req[r].op = "refresh"
      BY <1>0 DEF refresh_token, validateRefreshToken, markUsed, At, SoundIn
    <2> QED BY <1>3, <1>4, <1>8, <2>1
            DEF refresh_token, validateRefreshToken, markUsed, create_refresh_token,
                createRefreshToken, createRefused, At
  <1>9. ASSUME NEW r \in Requests, revokeToken(r) \/ reply(r)
        PROVE  \A x \in Requests : Passed(req[x])'
    <2>1. revokeToken(r) => req[r].op # "mint"
      BY <1>0 DEF revokeToken, deleteSession, deleteTokens, At, SoundIn
    <2> QED BY <1>3, <1>4, <1>9, <2>1
            DEF revokeToken, deleteSession, deleteTokens, reply, At
  <1> QED BY <1>2, <1>5, <1>6, <1>7, <1>8, <1>9
          DEF Next, vars, OpenSession, PairDevice, ExpireSession, ExpireToken

-----------------------------------------------------------------------------
\* The inductive invariant holds in every state a behaviour reaches.
THEOREM Invariance == Spec => []IInv
  BY InitIInv, NextIInv, PTL DEF Spec

\* TypeOK: the tables and the requests keep their types, and every row of
\* refresh_tokens names a session that was once created.
THEOREM TypeCorrect == Spec => []TypeOK
  <1>1. IInv => TypeOK BY DEF IInv
  <1> QED BY <1>1, Invariance, PTL

\* ClosedForGood: after a logout or revocation that answered ok the session's
\* row is gone and none of its refresh tokens passes the SELECT of
\* validateRefreshToken.
THEOREM ClosedForGoodHolds == Spec => []ClosedForGood
  <1>1. IInv => ClosedForGood
    BY DEF IInv, Integrity, ClosedForGood, Redeemable, HasRow
  <1> QED BY <1>1, Invariance, PTL

\* LateRedemptionRefused: refresh_token answers ok to no request whose token
\* had a successor when it arrived.
THEOREM LateRedemptionHolds == Spec => []LateRedemptionRefused
  <1>1. IInv => LateRedemptionRefused
    BY DEF IInv, SoundIn, LateRedemptionRefused
  <1> QED BY <1>1, Invariance, PTL

\* NoTokensAfterClose: the step that answers a mint or a refresh with tokens
\* finds the row of their session still there.
THEOREM NoTokensAfterCloseHolds == Spec => NoTokensAfterClose
  <1> DEFINE Step == \A r \in Requests : Delivered(r) => req[r].session \notin closed
  <1>1. IInv /\ [Next]_vars => [Step]_vars
    <2> SUFFICES ASSUME IInv, NEW r \in Requests, Delivered(r)
                 PROVE  req[r].session \notin closed
      OBVIOUS
    <2>1. PICK t \in Tokens : token[t].row = "stored" /\ token[t].session = req[r].session
      BY DEF IInv, SoundIn, Delivered, At
    <2>2. HasRow(req[r].session) BY <2>1 DEF IInv, Integrity
    <2> QED BY <2>2 DEF IInv, HasRow
  <1> QED BY <1>1, Invariance, PTL DEF Spec, NoTokensAfterClose

\* With requests one at a time a refresh token is replaced at most once, through failures
\* between any two statements: what the run auth_rotation shows to fail needs two refreshes
\* that overlap.
THEOREM RotatedOnceOneAtATime ==
    ASSUME OneAtATime PROVE Spec => []RotatedOnce
  <1>1. Init => OnceInv
    <2> SUFFICES ASSUME Init PROVE OnceInv
      OBVIOUS
    <2>1. \A x \in Tokens : token[x].parent = NoToken
      BY DEF Init
    <2>2. \A r \in Requests : Fresh(req[r])
      BY DEF Init, Fresh, Blank
    <2> QED BY <2>1, <2>2 DEF OnceInv
  <1>2. IInv /\ OnceInv /\ [Next]_vars => OnceInv'
    BY OnceNext
  <1>3. OnceInv => RotatedOnce
    <2> SUFFICES ASSUME OnceInv, NEW t \in Tokens
                 PROVE  Cardinality({x \in Tokens : token[x].parent = t}) <= 1
      BY DEF RotatedOnce
    <2> DEFINE S == {x \in Tokens : token[x].parent = t}
    <2>1. \A x, y \in S : x = y
      BY TokensAssumption DEF OnceInv, TokensAssumption
    <2> HIDE DEF S
    <2>2. S = {} \/ \E x : S = {x}
      BY <2>1
    <2>3. Cardinality(S) = 0 \/ Cardinality(S) = 1
      BY <2>2, FS_EmptySet, FS_Singleton
    <2> QED BY <2>3 DEF S
  <1> QED BY <1>1, <1>2, <1>3, Invariance, PTL DEF Spec

\* MintedOnlyUnanswered: is_session_revoked (mint.rs) takes any answer for yes, so a mint
\* hands out tokens only when a call it made failed, the revocation check's.
MintedOnlyUnanswered ==
    \A r \in Requests : req[r].op = "mint" /\ req[r].out = "ok" => req[r].failed

\* While every call is answered no session ever gets a token from POST /tokens/mint, live
\* or not.
THEOREM MintedOnlyUnansweredHolds == Spec => []MintedOnlyUnanswered
  <1> DEFINE I == \A r \in Requests : Passed(req[r])
  <1>1. Init => I
    BY DEF Init, Blank, Passed
  <1>2. IInv /\ I /\ [Next]_vars => I'
    BY PassedStep
  <1>3. I => MintedOnlyUnanswered
    BY DEF Passed, MintedOnlyUnanswered
  <1> HIDE DEF I
  <1> QED BY <1>1, <1>2, <1>3, Invariance, PTL DEF Spec
=============================================================================
