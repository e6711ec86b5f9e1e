--------------------------- MODULE IdentityProofs ---------------------------
(***************************************************************************)
(* Proofs about Identity: about each of its four parts for any users,      *)
(* challenges, codes, keys, lifetimes and numbers of requests, and from    *)
(* them about the whole.                                                   *)
(***************************************************************************)
EXTENDS Identity, TLAPS
-----------------------------------------------------------------------------
(***************************************************************************)
(* Passkeys.  A session names a user and a credential that were read or    *)
(* written several statements earlier; Vouched says what a request that    *)
(* still carries them relies on, given the tables: rows of passkeys are    *)
(* added and counted, and never change hands.  The second part maps every  *)
(* step to a step of Ticket, or to none.                                   *)
(***************************************************************************)
\* A row with an owner is one of an inserted user.
OwnersAreUsers == \A c \in Challenges :
    /\ passkey[c].user # None => passkey[c].user \in users
    /\ passkey[c].user = None => passkey[c] = P!NoRow

\* Only credentials with a row sign.
SignersHaveRows == \A c \in Challenges :
    signed[c] # P!Unsigned => /\ signed[c].cred \in Challenges
                            /\ passkey[signed[c].cred].user # None

\* What a request in flight relies on.
Vouched(f, sig, pk, us) ==
    /\ f.pc \notin {"idle", "ok", "refused", "failed"} => f.ch \in Challenges
    /\ f.pc \in {"user", "passkey"} => f.cred \in Challenges
    /\ f.pc = "passkey" => f.user \in us
    /\ f.pc = "select" => sig[f.ch] # P!Unsigned
    /\ f.pc \in {"count", "session"} =>
         /\ f.cred \in Challenges /\ f.user \in us
         /\ pk[f.cred].user = f.user

\* SessionsAreOwned, and the credential of a session is one there is.
SessionsKept == \A s \in SessionIds : session[s].user # None =>
    /\ session[s].user \in users /\ session[s].cred \in Challenges
    /\ passkey[session[s].cred].user = session[s].user

PInv == /\ P!TypeOK /\ OwnersAreUsers /\ SignersHaveRows /\ SessionsKept
        /\ \A r \in Requests : Vouched(finish[r], signed, passkey, users)
-----------------------------------------------------------------------------
(* Rows of passkeys never change hands *)

\* What a change of the tables must leave as it is.
Stays == /\ users \subseteq users' /\ users' \subseteq UserIds
         /\ passkey' \in [Challenges -> [user : UserIds \cup {None}, n : Nat]]
         /\ \A c \in Challenges : passkey[c].user # None => passkey'[c].user = passkey[c].user

LEMMA NoneIsNoUser ==
    ASSUME P!PasskeyAssumption, PInv PROVE None \notin users /\ None \notin Challenges
BY DEF P!PasskeyAssumption, PInv, P!TypeOK

LEMMA OwnerIsUser ==
    ASSUME PInv, NEW c \in Challenges, passkey[c].user # None
    PROVE  passkey[c].user \in users
BY DEF PInv, OwnersAreUsers

LEMMA VouchedStays ==
    ASSUME P!PasskeyAssumption, PInv, Stays, NEW f,
           Vouched(f, signed, passkey, users),
           \A c \in Challenges : signed[c] # P!Unsigned => signed'[c] = signed[c]
    PROVE  Vouched(f, signed', passkey', users')
<1>1. f.pc = "select" => signed'[f.ch] # P!Unsigned
  BY DEF Vouched
<1>2. f.pc \in {"count", "session"} => passkey'[f.cred].user = f.user
  BY NoneIsNoUser DEF Vouched, Stays
<1> QED BY <1>1, <1>2 DEF Vouched, Stays

\* One request moves on to g, the tables change as Stays allows.
LEMMA RequestMoves ==
    ASSUME P!PasskeyAssumption, PInv, Stays, NEW r \in Requests, NEW g,
           finish' = [finish EXCEPT ![r] = g], P!TypeOK',
           Vouched(g, signed', passkey', users'),
           OwnersAreUsers', UNCHANGED <<signed, session>>
    PROVE  PInv'
<1>1. SignersHaveRows'
  BY DEF PInv, SignersHaveRows, Stays
<1>2. SessionsKept'
  BY DEF PInv, SessionsKept, Stays
<1>3. ASSUME NEW q \in Requests PROVE Vouched(finish[q], signed, passkey, users)'
  <2>1. CASE q = r
    BY <2>1 DEF PInv, P!TypeOK
  <2>2. CASE q # r
    <3>1. finish'[q] = finish[q] /\ Vouched(finish[q], signed, passkey, users)
      BY <2>2 DEF PInv, P!TypeOK
    <3> QED BY <3>1, VouchedStays
  <2> QED BY <2>1, <2>2
<1> QED BY <1>1, <1>2, <1>3 DEF PInv

LEMMA TablesStay ==
    ASSUME PInv, UNCHANGED <<users, passkey>>
    PROVE  Stays /\ OwnersAreUsers'
BY DEF PInv, P!TypeOK, Stays, OwnersAreUsers

FinishType == [pc : P!Pcs, op : {"register", "login"},
               ch : Challenges \cup {Stranger}, cred : Challenges \cup {None},
               user : UserIds \cup {None}, n : Nat]

\* The same when nothing but the request changes.
LEMMA OnlyRequestMoves ==
    ASSUME P!PasskeyAssumption, PInv, NEW r \in Requests, NEW g \in FinishType,
           finish' = [finish EXCEPT ![r] = g],
           Vouched(g, signed, passkey, users),
           UNCHANGED <<signed, device, session, users, passkey>>,
           challenge' \in [Challenges -> {"unused", "register", "login", "gone"}]
    PROVE  PInv'
<1>1. P!TypeOK'
  BY DEF PInv, P!TypeOK, FinishType
<1>2. Vouched(g, signed', passkey', users')
  OBVIOUS
<1> QED BY <1>1, <1>2, TablesStay, RequestMoves

\* A step to another place that claims nothing new.
LEMMA GotoTyped ==
    ASSUME PInv, NEW r \in Requests, NEW pc \in P!Pcs, P!Goto(r, pc)
    PROVE  /\ finish[r] \in FinishType /\ [finish[r] EXCEPT !.pc = pc] \in FinishType
           /\ finish' = [finish EXCEPT ![r] = [finish[r] EXCEPT !.pc = pc]]
           /\ finish' \in [Requests -> FinishType]
<1>1. finish \in [Requests -> FinishType]
  BY DEF PInv, P!TypeOK, FinishType
<1>2. finish[r] \in FinishType /\ [finish[r] EXCEPT !.pc = pc] \in FinishType
  BY <1>1 DEF FinishType
<1>3. finish' = [finish EXCEPT ![r] = [finish[r] EXCEPT !.pc = pc]]
  BY <1>1 DEF P!Goto
<1>4. finish' \in [Requests -> FinishType]
  BY <1>1, <1>2, <1>3
<1> QED BY <1>2, <1>3, <1>4

LEMMA Leaves ==
    ASSUME P!PasskeyAssumption, PInv, NEW r \in Requests, NEW pc \in {"ok", "failed", "delete"},
           pc = "delete" => finish[r].ch \in Challenges,
           P!Goto(r, pc), UNCHANGED <<signed, device, session, users, passkey>>,
           challenge' \in [Challenges -> {"unused", "register", "login", "gone"}]
    PROVE  PInv'
<1> DEFINE g == [finish[r] EXCEPT !.pc = pc]
<1>1. pc \in P!Pcs
  BY DEF P!Pcs
<1>2. g \in FinishType /\ finish' = [finish EXCEPT ![r] = g] /\ g.pc = pc /\ g.ch = finish[r].ch
  BY <1>1, GotoTyped DEF FinishType
<1>3. Vouched(g, signed, passkey, users)
  BY <1>2 DEF Vouched
<1> QED BY <1>2, <1>3, OnlyRequestMoves

LEMMA PasskeysInit ==
    ASSUME P!PasskeyAssumption, P!Init PROVE PInv
<1>1. P!TypeOK
  BY DEF P!PasskeyAssumption, P!Init, P!TypeOK, P!Unsigned, P!Assertion, P!NoRow, P!Row, P!Opened, P!Blank, P!Pcs
<1>2. OwnersAreUsers /\ SignersHaveRows /\ SessionsKept
  BY DEF P!Init, OwnersAreUsers, SignersHaveRows, SessionsKept, P!Unsigned, P!Assertion, P!NoRow, P!Row, P!Opened
<1>3. ASSUME NEW r \in Requests PROVE Vouched(finish[r], signed, passkey, users)
  BY DEF P!Init, Vouched, P!Blank
<1> QED BY <1>1, <1>2, <1>3 DEF PInv
-----------------------------------------------------------------------------
(* Every step keeps the invariant *)

LEMMA StoreStep ==
    ASSUME P!PasskeyAssumption, PInv, NEW c \in Challenges,
           P!handleRegisterStart(c) \/ P!handleLoginStart(c) \/ P!Expire(c)
    PROVE  PInv'
<1>1. UNCHANGED <<signed, device, users, passkey, session, finish>>
  BY DEF P!handleRegisterStart, P!handleLoginStart, P!Expire
<1>2. P!TypeOK'
  BY <1>1 DEF PInv, P!TypeOK, P!handleRegisterStart, P!handleLoginStart, P!Expire
<1> QED BY <1>1, <1>2 DEF PInv, OwnersAreUsers, SignersHaveRows, SessionsKept

LEMMA SignStep ==
    ASSUME P!PasskeyAssumption, PInv, NEW c \in Challenges, NEW cred \in Challenges, P!Sign(c, cred)
    PROVE  PInv'
<1> DEFINE n == IF cred \in Counting THEN device[cred] + 1 ELSE 0
<1>1. n \in Nat
  BY DEF PInv, P!TypeOK
<1>2. /\ signed[c] = P!Unsigned /\ passkey[cred] # P!NoRow
      /\ signed' = [signed EXCEPT ![c] = P!Assertion(cred, n)]
      /\ device' = [device EXCEPT ![cred] = n]
      /\ UNCHANGED <<challenge, users, passkey, session, finish>>
  BY DEF P!Sign
<1>3. P!TypeOK'
  BY <1>1, <1>2 DEF PInv, P!TypeOK, P!Assertion
<1>4. passkey[cred].user # None
  BY <1>2 DEF PInv, OwnersAreUsers
<1>5. signed'[c].cred = cred /\ \A d \in Challenges : d # c => signed'[d] = signed[d]
  BY <1>2 DEF PInv, P!TypeOK, P!Assertion
<1>6. SignersHaveRows'
  BY <1>2, <1>4, <1>5 DEF PInv, SignersHaveRows
<1>7. OwnersAreUsers' /\ SessionsKept' /\ Stays
  BY <1>2, TablesStay DEF PInv, SessionsKept
<1>8. ASSUME NEW r \in Requests PROVE Vouched(finish[r], signed, passkey, users)'
  <2>1. finish'[r] = finish[r] /\ Vouched(finish[r], signed, passkey, users)
    BY <1>2 DEF PInv
  <2> QED BY <1>2, <1>5, <1>7, <2>1, VouchedStays
<1> QED BY <1>3, <1>6, <1>7, <1>8 DEF PInv

LEMMA FinishStep ==
    ASSUME P!PasskeyAssumption, PInv, NEW r \in Requests, NEW c \in Challenges,
           P!registerFinish(r, c) \/ P!loginFinish(r, c)
    PROVE  PInv'
<1>1. PICK g \in FinishType : /\ finish' = [finish EXCEPT ![r] = g]
                              /\ Vouched(g, signed, passkey, users)
  <2>1. CASE P!registerFinish(r, c)
    <3> DEFINE g == IF Offered[c] = c /\ challenge[c] = "register"
                    THEN [P!Blank("user", c) EXCEPT !.cred = c] ELSE P!Blank("refused", c)
    <3>1. g \in FinishType /\ Vouched(g, signed, passkey, users)
      BY DEF P!Blank, FinishType, P!Pcs, Vouched
    <3> QED BY <2>1, <3>1 DEF P!registerFinish, P!Go
  <2>2. CASE P!loginFinish(r, c)
    <3> DEFINE g == IF Offered[c] = c /\ challenge[c] = "login"
                    THEN [P!Blank("select", c) EXCEPT !.op = "login"]
                    ELSE [P!Blank("refused", c) EXCEPT !.op = "login"]
    <3>1. g \in FinishType /\ Vouched(g, signed, passkey, users)
      BY <2>2 DEF P!loginFinish, P!Blank, FinishType, P!Pcs, Vouched
    <3> QED BY <2>2, <3>1 DEF P!loginFinish, P!Go
  <2> QED BY <2>1, <2>2
<1>2. UNCHANGED <<challenge, signed, device, session, users, passkey>>
  BY DEF P!registerFinish, P!loginFinish, P!kv
<1> QED BY <1>1, <1>2, OnlyRequestMoves DEF PInv, P!TypeOK

LEMMA InsertUserStep ==
    ASSUME P!PasskeyAssumption, PInv, NEW r \in Requests, P!insertUser(r)
    PROVE  PInv'
<1> DEFINE u == P!New(UserIds \ users)
           g == [finish[r] EXCEPT !.pc = "passkey", !.user = u]
<1>1. u \in UserIds
  BY DEF P!New, P!insertUser, PInv, P!TypeOK
<1>2. /\ users' = users \cup {u} /\ finish' = [finish EXCEPT ![r] = g]
      /\ UNCHANGED <<challenge, signed, device, passkey, session>>
  BY DEF P!insertUser, P!Go, P!kv
<1>3. /\ g \in FinishType /\ g.pc = "passkey" /\ g.user = u
      /\ g.cred = finish[r].cred /\ g.ch = finish[r].ch
  BY <1>1 DEF PInv, P!TypeOK, FinishType, P!Pcs
<1>4. P!TypeOK'
  BY <1>1, <1>2, <1>3 DEF PInv, P!TypeOK, FinishType
<1>5. Stays /\ OwnersAreUsers'
  BY <1>1, <1>2 DEF PInv, P!TypeOK, Stays, OwnersAreUsers
<1>6. Vouched(finish[r], signed, passkey, users) /\ finish[r].pc = "user"
  BY DEF PInv, P!insertUser, P!At
<1>7. Vouched(g, signed', passkey', users')
  BY <1>2, <1>3, <1>6 DEF Vouched
<1> QED BY <1>2, <1>4, <1>5, <1>7, RequestMoves

LEMMA InsertPasskeyStep ==
    ASSUME P!PasskeyAssumption, PInv, NEW r \in Requests, P!insertPasskey(r)
    PROVE  PInv'
<1> DEFINE c == finish[r].cred
           u == finish[r].user
<1>1. c \in Challenges /\ u \in users /\ finish[r].ch \in Challenges /\ u \in UserIds
  BY DEF P!insertPasskey, P!At, PInv, Vouched, P!TypeOK
<1>2. CASE passkey[c] = P!NoRow
  <2> DEFINE g == [finish[r] EXCEPT !.pc = "session"]
  <2>1. "session" \in P!Pcs
    BY DEF P!Pcs
  <2>2. /\ g \in FinishType /\ finish' = [finish EXCEPT ![r] = g]
        /\ finish' \in [Requests -> FinishType]
    BY <1>2, <2>1, GotoTyped DEF P!insertPasskey
  <2>3. g.pc = "session" /\ g.cred = c /\ g.user = u /\ g.ch = finish[r].ch
    BY DEF PInv, P!TypeOK
  <2>4. /\ passkey' = [passkey EXCEPT ![c] = P!Row(u, 0)]
        /\ UNCHANGED <<challenge, signed, device, users, session>>
    BY <1>2 DEF P!insertPasskey, P!kv
  <2>5. passkey'[c].user = u /\ \A d \in Challenges : d # c => passkey'[d] = passkey[d]
    BY <1>1, <2>4 DEF PInv, P!TypeOK, P!Row
  <2>6. Stays
    <3>1. passkey[c].user = None
      BY <1>2 DEF P!NoRow, P!Row
    <3>2. passkey' \in [Challenges -> [user : UserIds \cup {None}, n : Nat]]
      BY <1>1, <2>4 DEF PInv, P!TypeOK, P!Row
    <3> QED BY <2>4, <2>5, <3>1, <3>2 DEF Stays, PInv, P!TypeOK
  <2>7. OwnersAreUsers'
    <3>1. u # None
      BY <1>1, NoneIsNoUser
    <3> QED BY <1>1, <2>4, <2>5, <3>1 DEF PInv, OwnersAreUsers
  <2>8. P!TypeOK'
    BY <2>2, <2>4, <2>6 DEF PInv, P!TypeOK, Stays, FinishType
  <2>9. Vouched(g, signed', passkey', users')
    BY <1>1, <2>3, <2>4, <2>5 DEF Vouched
  <2> QED BY <2>2, <2>4, <2>6, <2>7, <2>8, <2>9, RequestMoves
<1>3. CASE passkey[c] # P!NoRow
  BY <1>3, Leaves DEF P!insertPasskey, P!kv, PInv, P!TypeOK
<1> QED BY <1>2, <1>3

LEMMA SelectStep ==
    ASSUME P!PasskeyAssumption, PInv, NEW r \in Requests, P!selectPasskey(r)
    PROVE  PInv'
<1> DEFINE a   == signed[finish[r].ch]
           row == passkey[a.cred]
           g   == IF (a.n > 0 \/ row.n > 0) => a.n > row.n
                  THEN [finish[r] EXCEPT !.pc = "count", !.cred = a.cred,
                                         !.user = row.user, !.n = a.n]
                  ELSE [finish[r] EXCEPT !.pc = "failed"]
<1>1. finish[r].ch \in Challenges /\ a # P!Unsigned
  BY DEF P!selectPasskey, P!At, PInv, Vouched
<1>2. a.cred \in Challenges /\ row.user \in users /\ a.n \in Nat
  <2>1. a.cred \in Challenges /\ row.user # None
    BY <1>1 DEF PInv, SignersHaveRows
  <2>2. row.user \in users
    BY <2>1, OwnerIsUser
  <2>3. a.n \in Nat
    BY <1>1 DEF PInv, P!TypeOK
  <2> QED BY <2>1, <2>2, <2>3
<1>3. /\ finish' = [finish EXCEPT ![r] = g]
      /\ UNCHANGED <<challenge, signed, device, users, passkey, session>>
  BY DEF P!selectPasskey, P!Go, P!kv
<1>4. finish[r] \in FinishType /\ users \subseteq UserIds
  BY DEF PInv, P!TypeOK, FinishType
<1>5. g \in FinishType
  BY <1>2, <1>4 DEF FinishType, P!Pcs
<1>6. Vouched(g, signed, passkey, users)
  BY <1>1, <1>2, <1>4 DEF Vouched, FinishType
<1> QED BY <1>3, <1>5, <1>6, OnlyRequestMoves DEF PInv, P!TypeOK

LEMMA UpdateCountStep ==
    ASSUME P!PasskeyAssumption, PInv, NEW r \in Requests, P!updateCount(r)
    PROVE  PInv'
<1> DEFINE c == finish[r].cred
           g == [finish[r] EXCEPT !.pc = "session"]
<1>1. /\ c \in Challenges /\ finish[r].user \in users /\ finish[r].ch \in Challenges
      /\ passkey[c].user = finish[r].user /\ finish[r].n \in Nat
  BY DEF P!updateCount, P!At, PInv, Vouched, P!TypeOK
<1>2. "session" \in P!Pcs
  BY DEF P!Pcs
<1>3. /\ g \in FinishType /\ finish' = [finish EXCEPT ![r] = g]
      /\ finish' \in [Requests -> FinishType]
  BY <1>2, GotoTyped DEF P!updateCount
<1>4. g.pc = "session" /\ g.cred = c /\ g.user = finish[r].user /\ g.ch = finish[r].ch
  BY DEF PInv, P!TypeOK
<1>5. /\ passkey' = [passkey EXCEPT ![c].n = finish[r].n]
      /\ UNCHANGED <<challenge, signed, device, users, session>>
  BY DEF P!updateCount, P!kv
<1>6. /\ passkey' \in [Challenges -> [user : UserIds \cup {None}, n : Nat]]
      /\ \A d \in Challenges : passkey'[d].user = passkey[d].user
      /\ \A d \in Challenges : d # c => passkey'[d] = passkey[d]
  BY <1>1, <1>5 DEF PInv, P!TypeOK
<1>7. Stays
  BY <1>5, <1>6 DEF Stays, PInv, P!TypeOK
<1>8. OwnersAreUsers'
  <2>1. passkey'[c].user # None
    BY <1>1, <1>6, NoneIsNoUser
  <2> QED BY <1>5, <1>6, <2>1 DEF PInv, OwnersAreUsers
<1>9. P!TypeOK'
  BY <1>3, <1>5, <1>6 DEF PInv, P!TypeOK, FinishType
<1>10. Vouched(g, signed', passkey', users')
  BY <1>1, <1>4, <1>5, <1>6 DEF Vouched
<1> QED BY <1>3, <1>5, <1>7, <1>8, <1>9, <1>10, RequestMoves

LEMMA InsertSessionStep ==
    ASSUME P!PasskeyAssumption, PInv, NEW r \in Requests, P!insertSession(r)
    PROVE  PInv'
<1> DEFINE s == P!New(P!Unopened)
           f == finish[r]
           g == [f EXCEPT !.pc = "delete"]
<1>1. s \in SessionIds
  BY DEF P!New, P!Unopened, P!insertSession
<1>2. /\ f.cred \in Challenges /\ f.user \in users /\ f.ch \in Challenges
      /\ passkey[f.cred].user = f.user /\ f.user \in UserIds
  BY DEF P!insertSession, P!At, PInv, Vouched, P!TypeOK
<1>3. "delete" \in P!Pcs
  BY DEF P!Pcs
<1>4. /\ g \in FinishType /\ finish' = [finish EXCEPT ![r] = g]
      /\ finish' \in [Requests -> FinishType]
  BY <1>3, GotoTyped DEF P!insertSession
<1>5. g.pc = "delete" /\ g.ch = f.ch
  BY DEF PInv, P!TypeOK
<1>6. /\ session' = [session EXCEPT ![s] = P!Opened(f.user, f.cred)]
      /\ UNCHANGED <<challenge, signed, device, users, passkey>>
  BY DEF P!insertSession, P!kv
<1>7. P!TypeOK'
  BY <1>1, <1>2, <1>4, <1>6 DEF PInv, P!TypeOK, P!Opened, FinishType
<1>8. /\ session'[s].user = f.user /\ session'[s].cred = f.cred
      /\ \A t \in SessionIds : t # s => session'[t] = session[t]
  BY <1>1, <1>6 DEF PInv, P!TypeOK, P!Opened
<1>9. SessionsKept'
  BY <1>2, <1>6, <1>8 DEF PInv, SessionsKept
<1>10. Vouched(g, signed, passkey, users)
  BY <1>2, <1>5 DEF Vouched
<1>11. ASSUME NEW q \in Requests PROVE Vouched(finish[q], signed, passkey, users)'
  BY <1>4, <1>6, <1>10 DEF PInv, P!TypeOK
<1> QED BY <1>6, <1>7, <1>9, <1>11, TablesStay DEF PInv, SignersHaveRows

LEMMA FinishEnds ==
    ASSUME P!PasskeyAssumption, PInv, NEW r \in Requests, P!deleteChallenge(r) \/ P!fail(r)
    PROVE  PInv'
<1>1. CASE P!deleteChallenge(r)
  BY <1>1, Leaves DEF P!deleteChallenge, PInv, P!TypeOK
<1>2. CASE P!fail(r)
  BY <1>2, Leaves DEF P!fail, P!kv, PInv, P!TypeOK
<1> QED BY <1>1, <1>2

LEMMA PasskeysInductive ==
    ASSUME P!PasskeyAssumption PROVE P!Spec => []PInv
<1>1. P!Init => PInv
  BY PasskeysInit
<1>2. PInv /\ [P!Next]_P!vars => PInv'
  <2> SUFFICES ASSUME PInv, [P!Next]_P!vars PROVE PInv'
    OBVIOUS
  <2>1. CASE UNCHANGED P!vars
    BY <2>1 DEF P!vars, PInv, P!TypeOK, OwnersAreUsers, SignersHaveRows, SessionsKept
  <2>2. CASE P!Next
    BY <2>2, StoreStep, SignStep, FinishStep, InsertUserStep, InsertPasskeyStep,
       SelectStep, UpdateCountStep, InsertSessionStep, FinishEnds DEF P!Next
  <2> QED BY <2>1, <2>2
<1> QED BY <1>1, <1>2, PTL DEF P!Spec

\* The rows and the requests keep their types (auth_p0.sql, worker.ts).
LEMMA PasskeysTyped ==
    ASSUME P!PasskeyAssumption PROVE P!Spec => []P!TypeOK
<1>1. PInv => P!TypeOK
  BY DEF PInv
<1> QED BY <1>1, PasskeysInductive, PTL

\* For any number of concurrent finish requests, each of which may fail between
\* any two statements: a session belongs to the user whose passkey opened it
\* (handlePasskeyRegisterFinish and handlePasskeyLoginFinish of worker.ts).
LEMMA PasskeysOwned ==
    ASSUME P!PasskeyAssumption PROVE P!Spec => []P!SessionsAreOwned
<1>1. PInv => P!SessionsAreOwned
  BY DEF PInv, SessionsKept, P!SessionsAreOwned
<1> QED BY <1>1, PasskeysInductive, PTL
-----------------------------------------------------------------------------
(* A challenge is a ticket *)

LEMMA StandingIs ==
    ASSUME NEW f
    PROVE  /\ P!Standing(f).is = "holds" <=> f.pc \notin {"idle", "ok", "refused", "failed"}
           /\ f.pc \notin {"idle", "ok", "refused", "failed"} =>
                P!Standing(f) = P!Tickets!Stand(f.ch, "holds")
           /\ f.pc = "ok" => P!Standing(f) = P!Tickets!Stand(f.ch, "yes")
           /\ f.pc \in {"refused", "failed"} => P!Standing(f) = P!Tickets!Stand(f.ch, "no")
BY DEF P!Standing, P!Tickets!Stand

LEMMA StandChanges ==
    ASSUME NEW c, NEW is PROVE [P!Tickets!Stand(c, "holds") EXCEPT !.is = is] = P!Tickets!Stand(c, is)
BY DEF P!Tickets!Stand

\* What one request's move is to the abstract state.
LEMMA AnswerMoves ==
    ASSUME PInv, NEW r \in Requests, NEW g, finish' = [finish EXCEPT ![r] = g]
    PROVE  /\ P!answerBar' = [P!answerBar EXCEPT ![r] = P!Standing(g)]
           /\ P!answerBar[r] = P!Standing(finish[r])
BY DEF P!answerBar, PInv, P!TypeOK

\* A request that goes on to its next statement changes nothing.
LEMMA GoesOn ==
    ASSUME PInv, NEW r \in Requests, NEW g, finish' = [finish EXCEPT ![r] = g],
           ~P!Free(r), g.pc \notin {"idle", "ok", "refused", "failed"}, g.ch = finish[r].ch,
           UNCHANGED challenge
    PROVE  UNCHANGED P!Tickets!vars
<1>1. P!Standing(g) = P!Standing(finish[r])
  BY StandingIs DEF P!Free
<1>2. P!answerBar' = P!answerBar
  BY <1>1, AnswerMoves DEF P!answerBar
<1> QED BY <1>2 DEF P!Tickets!vars, P!spentBar

\* A request that fails is refused, its code as it was.
LEMMA IsRefused ==
    ASSUME PInv, NEW r \in Requests, ~P!Free(r), P!Goto(r, "failed"), UNCHANGED challenge
    PROVE  P!Tickets!Next
<1> DEFINE g == [finish[r] EXCEPT !.pc = "failed"]
<1>1. finish' = [finish EXCEPT ![r] = g] /\ g.pc = "failed" /\ g.ch = finish[r].ch
  BY DEF P!Goto, PInv, P!TypeOK
<1>2. P!answerBar[r] = P!Tickets!Stand(g.ch, "holds")
  <2>1. P!Standing(finish[r]) = P!Tickets!Stand(finish[r].ch, "holds")
    BY StandingIs DEF P!Free
  <2> QED BY <1>1, <2>1, AnswerMoves
<1>3. P!answerBar' = [P!answerBar EXCEPT ![r] = P!Tickets!Stand(g.ch, "no")]
  BY <1>1, StandingIs, AnswerMoves
<1>4. P!answerBar' = [P!answerBar EXCEPT ![r].is = "no"]
  <2>1. [P!answerBar[r] EXCEPT !.is = "no"] = P!Tickets!Stand(g.ch, "no")
    BY <1>2, StandChanges
  <2> HIDE DEF g
  <2> QED BY <1>3, <2>1
<1>5. P!Tickets!Holds(r) /\ P!spentBar' = P!spentBar
  BY <1>2 DEF P!Tickets!Holds, P!Tickets!Stand, P!spentBar
<1> QED BY <1>4, <1>5 DEF P!Tickets!Next, P!Tickets!Refuse

\* A finish that looks the challenge up asks.
LEMMA Asks ==
    ASSUME PInv, NEW r \in Requests, NEW c \in Challenges,
           P!registerFinish(r, c) \/ P!loginFinish(r, c)
    PROVE  P!Tickets!Next
<1>1. PICK g : /\ finish' = [finish EXCEPT ![r] = g] /\ g.ch = c
               /\ \/ g.pc \in {"user", "select"} /\ challenge[c] \in {"register", "login"}
                  \/ g.pc = "refused"
  <2>1. CASE P!registerFinish(r, c)
    <3> DEFINE g == IF Offered[c] = c /\ challenge[c] = "register"
                    THEN [P!Blank("user", c) EXCEPT !.cred = c] ELSE P!Blank("refused", c)
    <3>1. finish' = [finish EXCEPT ![r] = g]
      BY <2>1 DEF P!registerFinish, P!Go
    <3>2. g.ch = c /\ \/ g.pc \in {"user", "select"} /\ challenge[c] \in {"register", "login"}
                      \/ g.pc = "refused"
      BY DEF P!Blank
    <3> HIDE DEF g
    <3> QED BY <3>1, <3>2
  <2>2. CASE P!loginFinish(r, c)
    <3> DEFINE g == IF Offered[c] = c /\ challenge[c] = "login"
                    THEN [P!Blank("select", c) EXCEPT !.op = "login"]
                    ELSE [P!Blank("refused", c) EXCEPT !.op = "login"]
    <3>1. finish' = [finish EXCEPT ![r] = g]
      BY <2>2 DEF P!loginFinish, P!Go
    <3>2. g.ch = c /\ \/ g.pc \in {"user", "select"} /\ challenge[c] \in {"register", "login"}
                      \/ g.pc = "refused"
      BY DEF P!Blank
    <3> HIDE DEF g
    <3> QED BY <3>1, <3>2
  <2> QED BY <2>1, <2>2
<1>2. P!Free(r) /\ UNCHANGED challenge
  BY DEF P!registerFinish, P!loginFinish, P!kv
<1>3. ~P!Tickets!Holds(r) /\ P!spentBar' = P!spentBar
  BY <1>1, <1>2, StandingIs, AnswerMoves DEF P!Tickets!Holds, P!Free, P!spentBar
<1>4. CASE g.pc = "refused"
  <2>1. P!answerBar' = [P!answerBar EXCEPT ![r] = P!Tickets!Stand(c, "no")]
    BY <1>1, <1>4, StandingIs, AnswerMoves
  <2>2. P!Tickets!Ask(r, c)
    BY <1>3, <2>1 DEF P!Tickets!Ask
  <2> QED BY <2>2 DEF P!Tickets!Next
<1>5. CASE g.pc # "refused"
  <2>1. P!answerBar' = [P!answerBar EXCEPT ![r] = P!Tickets!Stand(c, "holds")]
    <3>1. P!Standing(g) = P!Tickets!Stand(c, "holds")
      BY <1>1, <1>5, StandingIs
    <3> QED BY <1>1, <3>1, AnswerMoves
  <2>2. c \notin P!spentBar
    BY <1>1, <1>5 DEF P!spentBar
  <2>3. P!Tickets!Ask(r, c)
    BY <1>3, <2>1, <2>2 DEF P!Tickets!Ask
  <2> QED BY <2>3 DEF P!Tickets!Next
<1> QED BY <1>4, <1>5

\* A finish that deletes its challenge and answers redeems.
LEMMA Redeems ==
    ASSUME PInv, NEW r \in Requests, P!deleteChallenge(r)
    PROVE  P!Tickets!Next
<1> DEFINE g == [finish[r] EXCEPT !.pc = "ok"]
<1>1. finish' = [finish EXCEPT ![r] = g] /\ g.pc = "ok" /\ g.ch = finish[r].ch
  BY DEF P!deleteChallenge, P!Goto, PInv, P!TypeOK
<1>2. finish[r].pc = "delete" /\ finish[r].ch \in Challenges
  BY DEF P!deleteChallenge, P!At, PInv, Vouched
<1>3. P!answerBar[r] = P!Tickets!Stand(g.ch, "holds")
  <2>1. P!Standing(finish[r]) = P!Tickets!Stand(finish[r].ch, "holds")
    BY <1>2, StandingIs
  <2> QED BY <1>1, <2>1, AnswerMoves
<1>4. P!answerBar' = [P!answerBar EXCEPT ![r] = P!Tickets!Stand(g.ch, "yes")]
  BY <1>1, StandingIs, AnswerMoves
<1>5. P!answerBar' = [P!answerBar EXCEPT ![r].is = "yes"]
  <2>1. [P!answerBar[r] EXCEPT !.is = "yes"] = P!Tickets!Stand(g.ch, "yes")
    BY <1>3, StandChanges
  <2> HIDE DEF g
  <2> QED BY <1>4, <2>1
<1>6. P!spentBar' = P!spentBar \cup {g.ch}
  BY <1>1, <1>2 DEF P!deleteChallenge, P!spentBar, PInv, P!TypeOK
<1>7. P!Tickets!Holds(r) /\ P!answerBar[r].code = g.ch
  BY <1>3 DEF P!Tickets!Holds, P!Tickets!Stand
<1> QED BY <1>5, <1>6, <1>7 DEF P!Tickets!Next, P!Tickets!Redeem

LEMMA Stores ==
    ASSUME PInv, NEW c \in Challenges,
           \/ P!handleRegisterStart(c) \/ P!handleLoginStart(c) \/ P!Expire(c)
           \/ \E cred \in Challenges : P!Sign(c, cred)
    PROVE  [P!Tickets!Next]_(P!Tickets!vars)
<1>1. P!answerBar' = P!answerBar
  BY DEF P!handleRegisterStart, P!handleLoginStart, P!Expire, P!Sign, P!answerBar
<1>2. CASE P!Expire(c)
  <2>1. P!spentBar' = P!spentBar \cup {c}
    BY <1>2 DEF P!Expire, P!spentBar, PInv, P!TypeOK
  <2> QED BY <1>1, <2>1 DEF P!Tickets!Next, P!Tickets!Expire
<1>3. CASE ~P!Expire(c)
  <2>1. P!spentBar' = P!spentBar
    BY <1>3 DEF P!handleRegisterStart, P!handleLoginStart, P!Sign, P!spentBar, PInv, P!TypeOK
  <2> QED BY <1>1, <2>1 DEF P!Tickets!vars
<1> QED BY <1>2, <1>3

LEMMA Statements ==
    ASSUME PInv, NEW r \in Requests,
           P!insertUser(r) \/ P!insertPasskey(r) \/ P!selectPasskey(r)
             \/ P!updateCount(r) \/ P!insertSession(r) \/ P!fail(r)
    PROVE  [P!Tickets!Next]_(P!Tickets!vars)
<1>1. ~P!Free(r) /\ UNCHANGED challenge
  BY DEF P!insertUser, P!insertPasskey, P!selectPasskey, P!updateCount, P!insertSession, P!fail,
         P!At, P!Free, P!kv
<1>2. CASE P!Goto(r, "failed")
  BY <1>1, <1>2, IsRefused
<1>3. CASE ~P!Goto(r, "failed")
  <2>1. PICK g : /\ finish' = [finish EXCEPT ![r] = g] /\ g.ch = finish[r].ch
                 /\ g.pc \notin {"idle", "ok", "refused", "failed"}
    <3>0. finish \in [Requests -> FinishType]
      BY DEF PInv, P!TypeOK, FinishType
    <3>1. CASE P!insertUser(r)
      <4> DEFINE u == P!New(UserIds \ users)
                 g == [finish[r] EXCEPT !.pc = "passkey", !.user = u]
      <4>1. finish' = [finish EXCEPT ![r] = g]
        BY <3>1 DEF P!insertUser, P!Go
      <4>2. g.pc \notin {"idle", "ok", "refused", "failed"} /\ g.ch = finish[r].ch
        BY <3>0 DEF FinishType
      <4> HIDE DEF g
      <4> QED BY <4>1, <4>2
    <3>2. CASE P!selectPasskey(r)
      <4> DEFINE a == signed[finish[r].ch]
                 row == passkey[a.cred]
                 h == [finish[r] EXCEPT !.pc = "count", !.cred = a.cred,
                                        !.user = row.user, !.n = a.n]
                 bad == [finish[r] EXCEPT !.pc = "failed"]
      <4>1. finish' = [finish EXCEPT ![r] = h] \/ finish' = [finish EXCEPT ![r] = bad]
        BY <3>2 DEF P!selectPasskey, P!Go
      <4>2. finish' # [finish EXCEPT ![r] = bad]
        BY <1>3, <3>0 DEF P!Goto
      <4>3. h.pc = "count" /\ h.ch = finish[r].ch
        BY <3>0 DEF FinishType
      <4> HIDE DEF h, bad
      <4> QED BY <4>1, <4>2, <4>3
    <3>3. ASSUME NEW pc \in {"session", "delete"}, P!Goto(r, pc)
          PROVE  \E g : /\ finish' = [finish EXCEPT ![r] = g] /\ g.ch = finish[r].ch
                        /\ g.pc \notin {"idle", "ok", "refused", "failed"}
      <4> DEFINE g == [finish[r] EXCEPT !.pc = pc]
      <4>1. finish' = [finish EXCEPT ![r] = g]
        BY <3>0, <3>3 DEF P!Goto
      <4>2. g.pc = pc /\ g.ch = finish[r].ch
        BY <3>0 DEF FinishType
      <4> HIDE DEF g
      <4> QED BY <3>3, <4>1, <4>2
    <3> QED BY <1>3, <3>1, <3>2, <3>3 DEF P!insertPasskey, P!updateCount, P!insertSession, P!fail
  <2> QED BY <1>1, <2>1, GoesOn
<1> QED BY <1>2, <1>3

\* Whatever fails and whoever else finishes at the same time, a challenge that was
\* answered with a session, or that KV forgot, opens none for a finish that looks
\* it up afterwards (deleteChallenge of worker.ts comes last).
LEMMA PasskeysTicket ==
    ASSUME P!PasskeyAssumption PROVE P!Spec => P!ChallengeIsTicket
<1>1. P!Init => P!Tickets!Init
  BY DEF P!Init, P!Tickets!Init, P!Tickets!Nobody, P!spentBar, P!answerBar, P!Standing, P!Blank
<1>2. PInv /\ [P!Next]_P!vars => [P!Tickets!Next]_(P!Tickets!vars)
  <2> SUFFICES ASSUME PInv, [P!Next]_P!vars PROVE [P!Tickets!Next]_(P!Tickets!vars)
    OBVIOUS
  <2>1. CASE UNCHANGED P!vars
    BY <2>1 DEF P!vars, P!Tickets!vars, P!spentBar, P!answerBar
  <2>2. CASE P!Next
    BY <2>2, Stores, Asks, Statements, Redeems DEF P!Next
  <2> QED BY <2>1, <2>2
<1> QED BY <1>1, <1>2, PasskeysInductive, PTL DEF P!Spec, P!Tickets!Spec, P!ChallengeIsTicket
-----------------------------------------------------------------------------
(* Passkeys, by the options: the challenge stored, or another one *)

\* What a refused request was told is still so: a challenge that was not of its kind never
\* becomes so.
ToldTrue == \A r \in Requests : finish[r].pc = "refused" =>
    /\ finish[r].ch \in Challenges
    /\ challenge[finish[r].ch] \notin {finish[r].op, "unused"}

LEMMA ToldMoves ==
    ASSUME PInv, ToldTrue, NEW r \in Requests, NEW g, finish' = [finish EXCEPT ![r] = g],
           g.pc # "refused",
           \A c \in Challenges : challenge'[c] \in {challenge[c], "gone"}
    PROVE  ToldTrue'
<1>1. \A q \in Requests : finish'[q] = IF q = r THEN g ELSE finish[q]
  BY DEF PInv, P!TypeOK
<1>2. \A q \in Requests : finish[q].op \in {"register", "login"}
  BY DEF PInv, P!TypeOK
<1>3. ASSUME NEW q \in Requests, q # r, finish[q].pc = "refused"
      PROVE  /\ finish[q].ch \in Challenges
             /\ challenge'[finish[q].ch] \notin {finish[q].op, "unused"}
  BY <1>2, <1>3 DEF ToldTrue
<1> QED BY <1>1, <1>3 DEF ToldTrue

LEMMA ToldGoto ==
    ASSUME PInv, ToldTrue, NEW r \in Requests, NEW pc, pc # "refused", P!Goto(r, pc),
           \A c \in Challenges : challenge'[c] \in {challenge[c], "gone"}
    PROVE  ToldTrue'
<1>1. finish[r] \in FinishType /\ finish \in [Requests -> FinishType]
  BY DEF PInv, P!TypeOK, FinishType
<1>2. PICK g : g = [finish[r] EXCEPT !.pc = pc]
  OBVIOUS
<1>3. g.pc = pc /\ finish' = [finish EXCEPT ![r] = g]
  BY <1>1, <1>2 DEF P!Goto, FinishType
<1> QED BY <1>3, ToldMoves

LEMMA ToldStatements ==
    ASSUME PInv, ToldTrue, NEW r \in Requests,
           P!insertUser(r) \/ P!insertPasskey(r) \/ P!selectPasskey(r)
             \/ P!updateCount(r) \/ P!insertSession(r) \/ P!deleteChallenge(r) \/ P!fail(r)
    PROVE  ToldTrue'
<1>0. \A c \in Challenges : challenge'[c] \in {challenge[c], "gone"}
  BY DEF P!insertUser, P!insertPasskey, P!selectPasskey, P!updateCount, P!insertSession,
         P!deleteChallenge, P!fail, P!kv, PInv, P!TypeOK
<1>1. finish[r] \in FinishType
  BY DEF PInv, P!TypeOK, FinishType
<1>2. CASE P!insertUser(r)
  <2>1. PICK g : /\ finish' = [finish EXCEPT ![r] = g] /\ g.pc = "passkey"
    <3> DEFINE u == P!New(UserIds \ users)
               g == [finish[r] EXCEPT !.pc = "passkey", !.user = u]
    <3>1. finish' = [finish EXCEPT ![r] = g]
      BY <1>2 DEF P!insertUser, P!Go
    <3>2. g.pc = "passkey"
      BY <1>1 DEF FinishType
    <3> HIDE DEF g
    <3> QED BY <3>1, <3>2
  <2> QED BY <1>0, <2>1, ToldMoves
<1>3. CASE P!selectPasskey(r)
  <2> DEFINE a == signed[finish[r].ch]
             row == passkey[a.cred]
             g == IF (a.n > 0 \/ row.n > 0) => a.n > row.n
                  THEN [finish[r] EXCEPT !.pc = "count", !.cred = a.cred,
                                         !.user = row.user, !.n = a.n]
                  ELSE [finish[r] EXCEPT !.pc = "failed"]
  <2>1. finish' = [finish EXCEPT ![r] = g]
    BY <1>3 DEF P!selectPasskey, P!Go
  <2>2. g.pc \in {"count", "failed"}
    BY <1>1 DEF FinishType
  <2> HIDE DEF g
  <2> QED BY <1>0, <2>1, <2>2, ToldMoves
<1>4. ASSUME NEW pc, pc \in {"session", "delete", "ok", "failed"}, P!Goto(r, pc)
      PROVE  ToldTrue'
  BY <1>0, <1>4, ToldGoto
<1> QED BY <1>2, <1>3, <1>4 DEF P!insertPasskey, P!updateCount, P!insertSession,
                                P!deleteChallenge, P!fail

\* Options that carry the stored challenge: a finish is refused for what the store says.
LEMMA ToldFinish ==
    ASSUME PInv, ToldTrue, NEW r \in Requests, NEW c \in Challenges, Offered[c] = c,
           P!registerFinish(r, c) \/ P!loginFinish(r, c)
    PROVE  ToldTrue'
<1>1. challenge' = challenge /\ challenge[c] # "unused"
  BY DEF P!registerFinish, P!loginFinish, P!kv
<1>2. PICK g : /\ finish' = [finish EXCEPT ![r] = g]
               /\ g.pc = "refused" => g.ch = c /\ challenge[c] # g.op
  <2>1. CASE P!registerFinish(r, c)
    <3> DEFINE g == IF Offered[c] = c /\ challenge[c] = "register"
                    THEN [P!Blank("user", c) EXCEPT !.cred = c] ELSE P!Blank("refused", c)
    <3>1. finish' = [finish EXCEPT ![r] = g]
      BY <2>1 DEF P!registerFinish, P!Go
    <3>2. g.pc = "refused" => g.ch = c /\ challenge[c] # g.op
      BY DEF P!Blank
    <3> HIDE DEF g
    <3> QED BY <3>1, <3>2
  <2>2. CASE P!loginFinish(r, c)
    <3> DEFINE g == IF Offered[c] = c /\ challenge[c] = "login"
                    THEN [P!Blank("select", c) EXCEPT !.op = "login"]
                    ELSE [P!Blank("refused", c) EXCEPT !.op = "login"]
    <3>1. finish' = [finish EXCEPT ![r] = g]
      BY <2>2 DEF P!loginFinish, P!Go
    <3>2. g.pc = "refused" => g.ch = c /\ challenge[c] # g.op
      BY DEF P!Blank
    <3> HIDE DEF g
    <3> QED BY <3>1, <3>2
  <2> QED BY <2>1, <2>2
<1>3. \A q \in Requests : finish'[q] = IF q = r THEN g ELSE finish[q]
  BY <1>2 DEF PInv, P!TypeOK
<1> QED BY <1>1, <1>2, <1>3 DEF ToldTrue

LEMMA ToldStore ==
    ASSUME PInv, ToldTrue, NEW c \in Challenges,
           \/ P!handleRegisterStart(c) \/ P!handleLoginStart(c) \/ P!Expire(c)
           \/ \E cred \in Challenges : P!Sign(c, cred)
    PROVE  ToldTrue'
<1>1. finish' = finish /\ \A q \in Requests : finish[q].op \in {"register", "login"}
  BY DEF PInv, P!TypeOK, P!handleRegisterStart, P!handleLoginStart, P!Expire, P!Sign
<1>2. \A d \in Challenges : challenge'[d] \in {challenge[d], "gone"} \/ challenge[d] = "unused"
  BY DEF PInv, P!TypeOK, P!handleRegisterStart, P!handleLoginStart, P!Expire, P!Sign
<1> QED BY <1>1, <1>2 DEF ToldTrue

LEMMA ToldInductive ==
    ASSUME P!PasskeyAssumption, \A c \in Challenges : Offered[c] = c
    PROVE  P!Spec => []ToldTrue
<1>1. P!Init => ToldTrue
  BY DEF P!Init, P!Blank, ToldTrue
<1>2. PInv /\ ToldTrue /\ [P!Next]_P!vars => ToldTrue'
  <2> SUFFICES ASSUME PInv, ToldTrue, [P!Next]_P!vars PROVE ToldTrue'
    OBVIOUS
  <2>1. CASE UNCHANGED P!vars
    BY <2>1 DEF P!vars, ToldTrue
  <2>2. CASE P!Next
    BY <2>2, ToldStore, ToldFinish, ToldStatements DEF P!Next
  <2> QED BY <2>1, <2>2
<1> QED BY <1>1, <1>2, PasskeysInductive, PTL DEF P!Spec

\* Options that carry another challenge: every finish is refused where it starts.
OpensNothing == /\ users = {}
                /\ \A s \in SessionIds : session[s].user = None

StuckAtStart == /\ finish \in [Requests -> FinishType] /\ OpensNothing
                /\ \A r \in Requests : finish[r].pc \in {"idle", "refused"}

LEMMA StuckStep ==
    ASSUME \A c \in Challenges : Offered[c] # c, StuckAtStart, [P!Next]_P!vars
    PROVE  PInv' => StuckAtStart'
<1> USE DEF StuckAtStart
<1>1. ASSUME NEW r \in Requests,
             P!insertUser(r) \/ P!insertPasskey(r) \/ P!selectPasskey(r)
               \/ P!updateCount(r) \/ P!insertSession(r) \/ P!deleteChallenge(r) \/ P!fail(r)
      PROVE  FALSE
  <2>1. finish[r].pc \in {"idle", "refused"}
    OBVIOUS
  <2> QED BY <1>1, <2>1 DEF P!insertUser, P!insertPasskey, P!selectPasskey, P!updateCount,
         P!insertSession, P!deleteChallenge, P!fail, P!At, P!Free
<1>2. ASSUME NEW c \in Challenges,
             \/ P!handleRegisterStart(c) \/ P!handleLoginStart(c) \/ P!Expire(c)
             \/ \E cred \in Challenges : P!Sign(c, cred)
      PROVE  StuckAtStart'
  BY <1>2 DEF P!handleRegisterStart, P!handleLoginStart, P!Expire, P!Sign, OpensNothing
<1>3. ASSUME NEW c \in Challenges, NEW r \in Requests,
             P!registerFinish(r, c) \/ P!loginFinish(r, c), PInv'
      PROVE  StuckAtStart'
  <2>1. UNCHANGED <<users, session>>
    BY <1>3 DEF P!registerFinish, P!loginFinish
  <2>2. PICK g : finish' = [finish EXCEPT ![r] = g] /\ g.pc = "refused"
    <3>1. CASE P!registerFinish(r, c)
      <4> DEFINE g == IF Offered[c] = c /\ challenge[c] = "register"
                      THEN [P!Blank("user", c) EXCEPT !.cred = c] ELSE P!Blank("refused", c)
      <4>1. finish' = [finish EXCEPT ![r] = g]
        BY <3>1 DEF P!registerFinish, P!Go
      <4>2. g.pc = "refused"
        BY DEF P!Blank
      <4> HIDE DEF g
      <4> QED BY <4>1, <4>2
    <3>2. CASE P!loginFinish(r, c)
      <4> DEFINE g == [P!Blank("refused", c) EXCEPT !.op = "login"]
      <4>1. finish' = [finish EXCEPT ![r] = g]
        BY <3>2 DEF P!loginFinish, P!Go
      <4>2. g.pc = "refused"
        BY DEF P!Blank
      <4> HIDE DEF g
      <4> QED BY <4>1, <4>2
    <3> QED BY <1>3, <3>1, <3>2
  <2>3. finish' \in [Requests -> FinishType]
    BY <1>3 DEF PInv, P!TypeOK, FinishType
  <2> QED BY <2>1, <2>2, <2>3 DEF OpensNothing
<1>4. CASE UNCHANGED P!vars
  BY <1>4 DEF P!vars, OpensNothing
<1> QED BY <1>1, <1>2, <1>3, <1>4 DEF P!Next

LEMMA StuckInductive ==
    ASSUME P!PasskeyAssumption, \A c \in Challenges : Offered[c] # c
    PROVE  P!Spec => []StuckAtStart
<1>1. PInv /\ P!Init => StuckAtStart
  BY DEF P!Init, P!Blank, P!Opened, PInv, P!TypeOK, FinishType, StuckAtStart, OpensNothing
<1>2. StuckAtStart /\ [P!Next]_P!vars /\ PInv' => StuckAtStart'
  BY StuckStep
<1> QED BY <1>1, <1>2, PasskeysInductive, PTL DEF P!Spec
-----------------------------------------------------------------------------
(* DeviceFlow: a code keeps its session *)

\* The foreign key: the session a code names is stored.
StoredSessions == \A c \in Codes :
    code[c].session # None => opened[code[c].session] # None

\* What an approval in flight carries.
Carried == \A a \in Approvals : approval[a].pc \notin D!Ended =>
    /\ approval[a].code \in Codes
    /\ approval[a].pc = "update" => approval[a].session \in DSessions

\* One approval at a time works on a code; it will write the session the code
\* has, if it has one; and a poll was told that session.
Unraced == \A c \in Codes \ raced :
    /\ \A a, b \in D!InFlight(c) : a = b
    /\ \A a \in D!InFlight(c) :
         /\ approval[a].pc = "insert" => code[c].session = None
         /\ approval[a].pc = "update" => code[c].session \in {None, approval[a].session}
    /\ told[c] # None => code[c].session = told[c]

DInv == D!TypeOK /\ StoredSessions /\ Carried /\ Unraced

LEMMA DeviceInit ==
    ASSUME D!DeviceAssumption, D!Init PROVE DInv
<1>1. D!TypeOK
  BY DEF D!Init, D!TypeOK, D!Device, D!Fresh, D!Ended
<1>2. StoredSessions /\ Carried /\ Unraced
  BY DEF D!Init, StoredSessions, Carried, Unraced, D!InFlight, D!Fresh, D!Ended
<1> QED BY <1>1, <1>2 DEF DInv

\* Steps of the code itself: started, expired, polled.
LEMMA CodeStep ==
    ASSUME D!DeviceAssumption, DInv, NEW c \in Codes,
           D!handleDeviceStart(c) \/ D!Expire(c) \/ D!handleDevicePoll(c)
    PROVE  DInv'
<1> USE DEF DInv
<1>1. /\ code' \in [Codes -> D!Device]
      /\ \A d \in Codes : code'[d].session = code[d].session
      /\ told' \in [Codes -> DSessions \cup {None}]
      /\ \A d \in Codes : told'[d] \in {told[d], code[d].session}
      /\ UNCHANGED <<opened, approval, raced>>
  <2>1. CASE D!handleDeviceStart(c) \/ D!Expire(c)
    <3>1. PICK stage \in {"live", "expired"} : code' = [code EXCEPT ![c].stage = stage]
      BY <2>1 DEF D!handleDeviceStart, D!Expire
    <3>2. UNCHANGED <<opened, approval, told, raced>>
      BY <2>1 DEF D!handleDeviceStart, D!Expire
    <3> QED BY <3>1, <3>2 DEF D!TypeOK, D!Device
  <2>2. CASE D!handleDevicePoll(c)
    BY <2>2 DEF D!TypeOK, D!Device, D!handleDevicePoll
  <2> QED BY <2>1, <2>2
<1>2. D!TypeOK'
  BY <1>1 DEF D!TypeOK
<1>3. StoredSessions' /\ Carried'
  BY <1>1 DEF StoredSessions, Carried
<1>4. Unraced'
  BY <1>1 DEF Unraced, D!InFlight
<1> QED BY <1>2, <1>3, <1>4

LEMMA ApproveStep ==
    ASSUME D!DeviceAssumption, DInv, NEW a \in Approvals, NEW c \in Codes,
           NEW u \in Subjects, D!handleDeviceApprove(a, c, u)
    PROVE  DInv'
<1> USE DEF DInv
<1> DEFINE q == [pc |-> IF code[c].session = None THEN "insert" ELSE "update",
                 code |-> c, subject |-> u, session |-> code[c].session]
<1>1. /\ approval[a].pc \in D!Ended
      /\ approval' = [approval EXCEPT ![a] = q]
      /\ UNCHANGED <<code, opened, told>>
      /\ raced \subseteq raced' /\ raced' \subseteq Codes
      /\ c \in raced' \/ D!InFlight(c) = {}
  BY DEF D!handleDeviceApprove, D!TypeOK
<1>2. D!TypeOK'
  BY <1>1 DEF D!TypeOK, D!Device, D!Ended
<1>3. StoredSessions' /\ Carried'
  BY <1>1 DEF StoredSessions, Carried, D!TypeOK, D!Device, D!Ended
<1>4. ASSUME NEW d \in Codes \ raced' PROVE
        /\ \A b \in D!InFlight(d)' : \/ b = a /\ d = c
                                     \/ b \in D!InFlight(d) /\ b # a
        /\ d = c => D!InFlight(d) = {}
  BY <1>1 DEF D!InFlight, D!TypeOK
<1>5. Unraced'
  <2> SUFFICES ASSUME NEW d \in Codes \ raced'
               PROVE  /\ \A b, e \in D!InFlight(d)' : b = e
                      /\ \A b \in D!InFlight(d)' :
                           /\ approval'[b].pc = "insert" => code'[d].session = None
                           /\ approval'[b].pc = "update" =>
                                code'[d].session \in {None, approval'[b].session}
                      /\ told'[d] # None => code'[d].session = told'[d]
    BY DEF Unraced
  <2>1. d \in Codes \ raced
    BY <1>1
  <2>2. CASE d = c
    <3>1. \A b \in D!InFlight(d)' : b = a
      BY <1>4, <2>2
    <3>2. approval'[a] = q
      BY <1>1 DEF D!TypeOK
    <3>3. /\ q.pc = "insert" => code[d].session = None
          /\ q.pc = "update" => code[d].session = q.session
      BY <2>2
    <3> QED BY <1>1, <2>1, <3>1, <3>2, <3>3 DEF Unraced
  <2>3. CASE d # c
    <3>1. \A b \in D!InFlight(d)' : b \in D!InFlight(d) /\ approval'[b] = approval[b]
      BY <1>1, <1>4, <2>3 DEF D!TypeOK, D!InFlight
    <3> QED BY <1>1, <2>1, <3>1 DEF Unraced
  <2> QED BY <2>2, <2>3
<1> QED BY <1>2, <1>3, <1>5

\* An approval that ends or was never made leaves the tables as they are.
LEMMA ApprovalEnds ==
    ASSUME DInv, NEW a \in Approvals, NEW q,
           q \in [pc : D!Ended, code : Codes \cup {None},
                  subject : Subjects \cup {None}, session : DSessions \cup {None}],
           approval' = [approval EXCEPT ![a] = q],
           UNCHANGED <<code, opened, told, raced>>
    PROVE  DInv'
<1> USE DEF DInv
<1>1. approval'[a].pc \in D!Ended /\ \A b \in Approvals \ {a} : approval'[b] = approval[b]
  BY DEF D!TypeOK
<1>2. D!TypeOK'
  BY DEF D!TypeOK
<1>3. StoredSessions' /\ Carried'
  BY <1>1 DEF StoredSessions, Carried
<1>4. \A c \in Codes : \A b \in D!InFlight(c)' : b \in D!InFlight(c) /\ approval'[b] = approval[b]
  BY <1>1 DEF D!InFlight
<1>5. Unraced'
  BY <1>4 DEF Unraced
<1> QED BY <1>2, <1>3, <1>5

LEMMA SessionStep ==
    ASSUME D!DeviceAssumption, DInv, NEW a \in Approvals, D!insertSession(a)
    PROVE  DInv'
<1> USE DEF DInv
<1> DEFINE s == CHOOSE s \in D!Unopened : TRUE
<1> DEFINE q == [approval[a] EXCEPT !.pc = "update", !.session = s]
<1>1. s \in DSessions /\ opened[s] = None
  BY DEF D!insertSession, D!Unopened
<1>2. /\ approval[a].pc = "insert" /\ approval[a].subject \in UserIds
      /\ opened' = [opened EXCEPT ![s] = approval[a].subject]
      /\ UNCHANGED <<code, told, raced>>
  BY DEF D!insertSession
<1>3. approval' = [approval EXCEPT ![a] = q]
  BY DEF D!insertSession, D!TypeOK
<1>4. /\ q \in [pc : D!Ended \cup {"insert", "update"}, code : Codes \cup {None},
                subject : Subjects \cup {None}, session : DSessions \cup {None}]
      /\ q.pc = "update" /\ q.code = approval[a].code /\ q.session = s
  BY <1>1 DEF D!TypeOK
<1> HIDE DEF s, q
<1>5. approval'[a] = q /\ \A b \in Approvals \ {a} : approval'[b] = approval[b]
  BY <1>3 DEF D!TypeOK
<1>6. D!TypeOK'
  BY <1>1, <1>2, <1>3, <1>4 DEF D!TypeOK
<1>7. StoredSessions' /\ Carried'
  BY <1>1, <1>2, <1>4, <1>5 DEF StoredSessions, Carried, D!TypeOK, D!Device, D!Ended,
     D!DeviceAssumption
<1>8. \A c \in Codes : D!InFlight(c)' = D!InFlight(c)
  BY <1>2, <1>4, <1>5 DEF D!InFlight, D!Ended
<1>9. Unraced'
  BY <1>2, <1>4, <1>5, <1>8 DEF Unraced, D!InFlight
<1> QED BY <1>6, <1>7, <1>9

LEMMA ApprovedStep ==
    ASSUME D!DeviceAssumption, DInv, NEW a \in Approvals, D!markApproved(a)
    PROVE  DInv'
<1> USE DEF DInv
<1> PICK c \in Codes : c = approval[a].code
  BY DEF D!markApproved, Carried, D!Ended
<1>1. /\ approval[a].pc = "update" /\ approval[a].session \in DSessions
      /\ approval[a].subject \in UserIds /\ opened[approval[a].session] # None
      /\ approval' = [approval EXCEPT ![a].pc = "ok"]
      /\ UNCHANGED <<opened, told, raced>>
  BY DEF D!markApproved, Carried, D!Ended
<1>2. /\ code' \in [Codes -> D!Device]
      /\ code'[c].session = approval[a].session
      /\ \A d \in Codes \ {c} : code'[d] = code[d]
  BY <1>1 DEF D!markApproved, D!TypeOK, D!Device, D!DeviceAssumption
<1>3. /\ approval'[a].pc = "ok" /\ \A b \in Approvals \ {a} : approval'[b] = approval[b]
      /\ D!TypeOK'
  BY <1>1, <1>2 DEF D!TypeOK, D!Ended
<1>4. StoredSessions' /\ Carried'
  BY <1>1, <1>2, <1>3 DEF StoredSessions, Carried, D!Ended
<1>5. \A d \in Codes : \A b \in D!InFlight(d)' : b \in D!InFlight(d) /\ approval'[b] = approval[b]
  BY <1>3 DEF D!InFlight, D!Ended
<1>6. c \notin raced => D!InFlight(c)' = {}
  <2>1. a \in D!InFlight(c) /\ a \notin D!InFlight(c)'
    BY <1>1, <1>3 DEF D!InFlight, D!Ended
  <2> QED BY <1>1, <1>5, <2>1 DEF Unraced
<1>7. c \notin raced /\ told[c] # None => approval[a].session = told[c]
  <2>1. a \in D!InFlight(c)
    BY <1>1 DEF D!InFlight, D!Ended
  <2> QED BY <1>1, <2>1 DEF Unraced
<1>8. Unraced'
  BY <1>1, <1>2, <1>5, <1>6, <1>7 DEF Unraced
<1> QED BY <1>3, <1>4, <1>8

LEMMA LogoutStep ==
    ASSUME D!DeviceAssumption, DInv, NEW s \in DSessions, D!handleLogout(s)
    PROVE  DInv'
<1> USE DEF DInv
<1>1. D!TypeOK'
  BY DEF D!handleLogout, D!TypeOK
<1>2. StoredSessions' /\ Carried'
  BY DEF D!handleLogout, D!TypeOK, D!Device, StoredSessions, Carried
<1>3. Unraced'
  BY DEF D!handleLogout, Unraced, D!InFlight
<1> QED BY <1>1, <1>2, <1>3

LEMMA DeviceInductive ==
    ASSUME D!DeviceAssumption PROVE D!Spec => []DInv
<1>1. D!Init => DInv
  BY DeviceInit
<1>2. DInv /\ [D!Next]_D!vars => DInv'
  <2> SUFFICES ASSUME DInv, [D!Next]_D!vars PROVE DInv'
    OBVIOUS
  <2>1. ASSUME NEW c \in Codes, NEW a \in Approvals, D!approveExpired(a, c) PROVE DInv'
    <3> DEFINE q == [D!Fresh EXCEPT !.pc = "failed", !.code = c]
    <3>1. q \in [pc : D!Ended, code : Codes \cup {None},
                 subject : Subjects \cup {None}, session : DSessions \cup {None}]
      BY DEF D!Fresh, D!Ended
    <3> QED BY <2>1, <3>1, ApprovalEnds DEF D!approveExpired
  <2>2. ASSUME NEW a \in Approvals, D!fail(a) PROVE DInv'
    <3> DEFINE q == [approval[a] EXCEPT !.pc = "failed"]
    <3>1. q \in [pc : D!Ended, code : Codes \cup {None},
                 subject : Subjects \cup {None}, session : DSessions \cup {None}]
      BY DEF DInv, D!TypeOK, D!Ended
    <3>2. approval' = [approval EXCEPT ![a] = q]
      BY <2>2 DEF D!fail, DInv, D!TypeOK
    <3> QED BY <2>2, <3>1, <3>2, ApprovalEnds DEF D!fail
  <2>3. CASE UNCHANGED D!vars
    BY <2>3 DEF D!vars, DInv, D!TypeOK, StoredSessions, Carried, Unraced, D!InFlight
  <2> QED BY <2>1, <2>2, <2>3, CodeStep, ApproveStep, SessionStep, ApprovedStep, LogoutStep
          DEF D!Next
<1> QED BY <1>1, <1>2, PTL DEF D!Spec
-----------------------------------------------------------------------------
(* IdKit: no tokens for a call made after others were given them *)

\* Once a code was redeemed alone its record is gone, and no call is left that
\* would put it back or redeem it; a late call is one for such a code.
Redeemed == \A c \in given :
    /\ record[c] = "gone"
    /\ \A k \in KitCalls : call[k].code = c => call[k].pc \notin {"start", "put", "sign", "delete"}
Late == \A k \in KitCalls : call[k].late => call[k].code \in given /\ call[k].pc # "tokens"

KInv == K!TypeOK /\ Redeemed /\ Late

LEMMA KitInit ==
    ASSUME Codes # {}, K!Init PROVE KInv
<1>1. K!TypeOK
  BY DEF K!Init, K!TypeOK, K!Pcs, K!Ended
<1>2. Redeemed /\ Late
  BY DEF K!Init, Redeemed, Late
<1> QED BY <1>1, <1>2 DEF KInv

\* A call k moves on to q, and the record of its code with it.
LEMMA KitMoves ==
    ASSUME KInv, NEW k \in KitCalls, NEW q, q \in [pc : K!Pcs, code : Codes, late : BOOLEAN],
           call' = [call EXCEPT ![k] = q],
           record' \in [Codes -> {"unused", "pending", "approved", "gone"}],
           \A c \in Codes : record'[c] = record[c] \/ c \notin given,
           lookup' \in [Codes -> {"unused", "live", "gone"}],
           given' = given,
           q.pc \in {"start", "put", "sign", "delete"} => q.code \notin given,
           q.late => q.code \in given /\ q.pc # "tokens"
    PROVE  KInv'
<1>1. call'[k] = q /\ \A j \in KitCalls \ {k} : call'[j] = call[j]
  BY DEF KInv, K!TypeOK
<1>2. K!TypeOK'
  BY DEF KInv, K!TypeOK
<1>3. Redeemed'
  BY <1>1 DEF KInv, K!TypeOK, Redeemed
<1>4. Late'
  BY <1>1 DEF KInv, Late
<1> QED BY <1>2, <1>3, <1>4 DEF KInv

\* A call that enters knows whether the code was redeemed before.
LEMMA KitEnters ==
    ASSUME KInv, NEW k \in KitCalls, NEW c \in Codes, NEW pc, pc \in K!Pcs, pc # "tokens",
           K!Enter(k, c, pc), UNCHANGED <<lookup, given>>,
           record' \in [Codes -> {"unused", "pending", "approved", "gone"}],
           \A d \in Codes : record'[d] = record[d] \/ d \notin given,
           pc \in {"start", "put", "sign", "delete"} => c \notin given
    PROVE  KInv'
<1> DEFINE q == [pc |-> pc, code |-> c, late |-> c \in given]
<1>1. q \in [pc : K!Pcs, code : Codes, late : BOOLEAN]
  OBVIOUS
<1>2. call' = [call EXCEPT ![k] = q]
  BY DEF K!Enter
<1>3. q.pc = pc /\ q.code = c /\ (q.late => c \in given)
  OBVIOUS
<1> HIDE DEF q
<1> QED BY <1>1, <1>2, <1>3, KitMoves DEF KInv, K!TypeOK

\* A call that goes on.
LEMMA KitGoes ==
    ASSUME KInv, NEW k \in KitCalls, NEW pc \in K!Pcs,
           K!Goto(k, pc), UNCHANGED given,
           lookup' \in [Codes -> {"unused", "live", "gone"}],
           record' \in [Codes -> {"unused", "pending", "approved", "gone"}],
           \A d \in Codes : record'[d] = record[d] \/ d \notin given,
           pc \in {"start", "put", "sign", "delete"} => call[k].code \notin given,
           pc # "tokens"
    PROVE  KInv'
<1> DEFINE q == [call[k] EXCEPT !.pc = pc]
<1>1. q \in [pc : K!Pcs, code : Codes, late : BOOLEAN]
  BY DEF KInv, K!TypeOK
<1>2. call' = [call EXCEPT ![k] = q]
  BY DEF K!Goto, KInv, K!TypeOK
<1>3. q.pc = pc /\ q.code = call[k].code /\ q.late = call[k].late
  BY DEF KInv, K!TypeOK
<1> HIDE DEF q
<1> QED BY <1>1, <1>2, <1>3, KitMoves DEF KInv, Late

LEMMA KitStep ==
    ASSUME KInv, K!Next PROVE KInv'
<1> USE DEF K!Pcs, K!Ended
<1>1. ASSUME NEW c \in Codes, K!Expire(c) PROVE KInv'
  BY <1>1 DEF K!Expire, KInv, K!TypeOK, Redeemed, Late
<1>2. ASSUME NEW c \in Codes, NEW k \in KitCalls, K!handleStart(k, c) PROVE KInv'
  <2>1. c \notin given
    BY <1>2 DEF K!handleStart, KInv, Redeemed
  <2> QED BY <1>2, <2>1, KitEnters DEF K!handleStart, KInv, K!TypeOK
<1>3. ASSUME NEW c \in Codes, NEW k \in KitCalls, K!handleApprove(k, c) PROVE KInv'
  BY <1>3, KitEnters DEF K!handleApprove, KInv, K!TypeOK
<1>4. ASSUME NEW c \in Codes, NEW k \in KitCalls, K!handlePoll(k, c) PROVE KInv'
  <2>1. record[c] \in {"gone", "pending", "approved"} /\ (c \in given => record[c] = "gone")
    BY <1>4 DEF K!handlePoll, KInv, K!TypeOK, Redeemed
  <2>2. PICK pc \in {"failed", "pending", "sign"} :
          K!Enter(k, c, pc) /\ (pc = "sign" => record[c] = "approved")
    BY <1>4, <2>1 DEF K!handlePoll
  <2> QED BY <1>4, <2>1, <2>2, KitEnters DEF K!handlePoll, KInv, K!TypeOK
<1>5. ASSUME NEW k \in KitCalls, K!startLookup(k) PROVE KInv'
  BY <1>5, KitGoes DEF K!startLookup, KInv, K!TypeOK
<1>6. ASSUME NEW k \in KitCalls, K!approveRead(k) PROVE KInv'
  BY <1>6, KitGoes DEF K!approveRead, KInv, K!TypeOK, Redeemed
<1>7. ASSUME NEW k \in KitCalls, K!approvePut(k) PROVE KInv'
  <2>1. call[k].code \notin given
    BY <1>7 DEF K!approvePut, K!At, KInv, Redeemed
  <2> QED BY <1>7, <2>1, KitGoes DEF K!approvePut, KInv, K!TypeOK
<1>8. ASSUME NEW k \in KitCalls, K!signJwtES256(k) PROVE KInv'
  <2>1. call[k].code \notin given
    BY <1>8 DEF K!signJwtES256, K!At, KInv, Redeemed
  <2> QED BY <1>8, <2>1, KitGoes DEF K!signJwtES256, KInv, K!TypeOK
<1>9. ASSUME NEW k \in KitCalls, K!fail(k) PROVE KInv'
  BY <1>9, KitGoes DEF K!fail, KInv, K!TypeOK
<1>10. ASSUME NEW k \in KitCalls, K!pollDelete(k) PROVE KInv'
  <2> DEFINE q == [call[k] EXCEPT !.pc = "tokens"]
  <2> PICK c \in Codes : c = call[k].code
    BY DEF KInv, K!TypeOK
  <2>1. /\ call[k].pc = "delete" /\ c \notin given /\ ~call[k].late
        /\ record' = [record EXCEPT ![c] = "gone"]
        /\ given' = given \/ (given' = given \cup {c} /\ K!Others(k) = {})
        /\ UNCHANGED lookup
    BY <1>10 DEF K!pollDelete, K!At, KInv, Redeemed, Late
  <2>2. q \in [pc : K!Pcs, code : Codes, late : BOOLEAN]
    BY DEF KInv, K!TypeOK
  <2>3. call' = [call EXCEPT ![k] = q]
    BY <1>10 DEF K!pollDelete, K!Goto
  <2>4. q.pc = "tokens" /\ q.code = c /\ q.late = call[k].late
    BY DEF KInv, K!TypeOK
  <2> HIDE DEF q
  <2>5. call'[k] = q /\ \A j \in KitCalls \ {k} : call'[j] = call[j]
    BY <2>3 DEF KInv, K!TypeOK
  <2>6. K!TypeOK'
    BY <2>1, <2>2, <2>3 DEF KInv, K!TypeOK
  <2>7. Redeemed'
    <3>1. record'[c] = "gone" /\ \A d \in given : record'[d] = "gone"
      BY <2>1 DEF KInv, K!TypeOK, Redeemed
    <3>2. K!Others(k) = {} =>
            \A j \in KitCalls : call'[j].code = c =>
               call'[j].pc \notin {"start", "put", "sign", "delete"}
      BY <2>4, <2>5 DEF K!Others
    <3>3. \A d \in given : \A j \in KitCalls : call'[j].code = d =>
               call'[j].pc \notin {"start", "put", "sign", "delete"}
      BY <2>4, <2>5 DEF KInv, Redeemed
    <3> QED BY <2>1, <3>1, <3>2, <3>3 DEF Redeemed
  <2>8. Late'
    BY <2>1, <2>4, <2>5 DEF KInv, Late
  <2> QED BY <2>6, <2>7, <2>8 DEF KInv
<1> QED BY <1>1, <1>2, <1>3, <1>4, <1>5, <1>6, <1>7, <1>8, <1>9, <1>10 DEF K!Next

LEMMA KitInductive ==
    ASSUME Codes # {} PROVE K!Spec => []KInv
<1>1. K!Init => KInv
  BY KitInit
<1>2. KInv /\ [K!Next]_K!vars => KInv'
  <2>1. CASE UNCHANGED K!vars
    BY <2>1 DEF K!vars, KInv, K!TypeOK, Redeemed, Late
  <2> QED BY <2>1, KitStep
<1> QED BY <1>1, <1>2, PTL DEF K!Spec
-----------------------------------------------------------------------------
(***************************************************************************)
(* JwksCache.  How old a key that is not served any more may be depends on *)
(* where it is: in the cache of fetch it goes with the entry, in a call it *)
(* ages with the call, and caches.default gives what a call brings a new   *)
(* life.  Aged bounds each of the places, and RotationReaches is their sum.*)
(***************************************************************************)
Stale(key, srv) == key # srv

\* An answer that is not served any more, at each of the places it can be.
AgedFetched == J!Live(fetched) /\ Stale(fetched.key, served) => steady + fetched.left <= TTL
AgedDefault == J!Live(default) /\ Stale(default.key, served) =>
                 steady + default.left <= TTL + Patience + MaxAge
AgedCall(q, srv, std) ==
    /\ q.pc = "put" /\ Stale(q.key, srv) => std <= TTL + q.waited
    /\ q.pc = "check" /\ Stale(q.key, srv) => std <= TTL + MaxAge + Patience + q.waited
    /\ q.pc \notin {"put", "check"} => q.waited = 0

JInv == /\ J!TypeOK /\ AgedFetched /\ AgedDefault
        /\ \A c \in Fetches : AgedCall(jcall[c], served, steady)
-----------------------------------------------------------------------------
\* A cached answer grows older by a second, or is dropped.
LEMMA OlderEntry ==
    ASSUME NEW ttl \in Nat, NEW e \in J!Entry(ttl)
    PROVE  /\ J!Older(e) \in J!Entry(ttl)
           /\ J!Live(J!Older(e)) => J!Older(e).key = e.key /\ J!Older(e).left = e.left - 1 /\ J!Live(e)
<1>1. J!Nothing \in J!Entry(ttl) /\ ~J!Live(J!Nothing)
  BY DEF J!Nothing, J!Entry, J!Answers, J!Live
<1>2. CASE e.left <= 1
  BY <1>1, <1>2 DEF J!Older
<1>3. CASE ~(e.left <= 1)
  <2>1. J!Older(e) = [key |-> e.key, left |-> e.left - 1]
    BY <1>3 DEF J!Older, J!Entry
  <2>2. e.left - 1 \in 0..ttl
    BY <1>3 DEF J!Entry
  <2> QED BY <1>3, <2>1, <2>2 DEF J!Entry, J!Live
<1> QED BY <1>2, <1>3

LEMMA JwksInit ==
    ASSUME J!JwksAssumption, J!Init PROVE JInv
<1>1. J!TypeOK
  BY DEF J!JwksAssumption, J!Init, J!TypeOK, J!Nothing, J!Entry, J!Answers, J!Call, J!Delay
<1>2. AgedFetched /\ AgedDefault
  BY DEF J!Init, AgedFetched, AgedDefault, J!Live, J!Nothing
<1>3. ASSUME NEW c \in Fetches PROVE AgedCall(jcall[c], served, steady)
  BY DEF J!Init, AgedCall
<1> QED BY <1>1, <1>2, <1>3 DEF JInv

LEMMA RotateStep ==
    ASSUME J!JwksAssumption, JInv, J!Rotate PROVE JInv'
<1>1. J!TypeOK'
  BY DEF J!JwksAssumption, JInv, J!Rotate, J!TypeOK, J!Delay
<1>2. AgedFetched' /\ AgedDefault'
  BY DEF J!JwksAssumption, JInv, J!Rotate, J!TypeOK, AgedFetched, AgedDefault, J!Entry
<1>3. ASSUME NEW c \in Fetches PROVE AgedCall(jcall[c], served, steady)'
  BY <1>3 DEF J!JwksAssumption, JInv, J!Rotate, J!TypeOK, AgedCall, J!Call
<1> QED BY <1>1, <1>2, <1>3 DEF JInv

LEMMA TickStep ==
    ASSUME J!JwksAssumption, JInv, J!Tick PROVE JInv'
<1>0. /\ TTL \in Nat /\ MaxAge \in Nat /\ Patience \in Nat
      /\ fetched \in J!Entry(TTL) /\ default \in J!Entry(MaxAge)
      /\ steady \in Nat /\ steady' \in Nat /\ steady' <= steady + 1
  BY DEF J!JwksAssumption, JInv, J!TypeOK, J!Tick, J!Delay
<1>1. J!TypeOK'
  <2>1. fetched' \in J!Entry(TTL) /\ default' \in J!Entry(MaxAge)
    BY <1>0, OlderEntry DEF J!Tick
  <2>2. jcall' \in [Fetches -> J!Call]
    BY <1>0 DEF J!Tick, J!Waits, JInv, J!TypeOK, J!Call
  <2>3. steady' \in 0..(J!Delay + 1) /\ served' \in J!Answers
    BY <1>0 DEF J!Tick, JInv, J!TypeOK, J!Delay
  <2> QED BY <2>1, <2>2, <2>3 DEF J!TypeOK
<1>2. AgedFetched'
  <2>1. fetched' = J!Older(fetched) /\ served' = served
    BY DEF J!Tick
  <2>2. J!Live(J!Older(fetched)) => J!Older(fetched).key = fetched.key
                                /\ J!Older(fetched).left = fetched.left - 1 /\ J!Live(fetched)
    BY <1>0, OlderEntry
  <2>3. fetched.left \in Nat
    BY <1>0 DEF J!Entry
  <2> QED BY <1>0, <2>1, <2>2, <2>3 DEF JInv, AgedFetched, Stale
<1>3. AgedDefault'
  <2>1. default' = J!Older(default) /\ served' = served
    BY DEF J!Tick
  <2>2. J!Live(J!Older(default)) => J!Older(default).key = default.key
                                /\ J!Older(default).left = default.left - 1 /\ J!Live(default)
    BY <1>0, OlderEntry
  <2>3. default.left \in Nat
    BY <1>0 DEF J!Entry
  <2> QED BY <1>0, <2>1, <2>2, <2>3 DEF JInv, AgedDefault, Stale
<1>4. ASSUME NEW c \in Fetches PROVE AgedCall(jcall[c], served, steady)'
  <2>1. jcall[c].waited \in Nat /\ AgedCall(jcall[c], served, steady)
    BY DEF JInv, J!TypeOK, J!Call
  <2>2. CASE J!Waits(c)
    <3>1. jcall'[c].pc = jcall[c].pc /\ jcall'[c].key = jcall[c].key
          /\ jcall'[c].waited = jcall[c].waited + 1 /\ served' = served
      BY <2>2 DEF J!Tick, JInv, J!TypeOK, J!Call
    <3> QED BY <1>0, <2>1, <2>2, <3>1 DEF AgedCall, J!Waits, Stale
  <2>3. CASE ~J!Waits(c)
    <3>1. jcall'[c] = jcall[c] /\ served' = served
      BY <2>3 DEF J!Tick
    <3> QED BY <2>1, <2>3, <3>1 DEF AgedCall, J!Waits
  <2> QED BY <2>2, <2>3
<1> QED BY <1>1, <1>2, <1>3, <1>4 DEF JInv

LEMMA EvictStep ==
    ASSUME J!JwksAssumption, JInv, J!Evict PROVE JInv'
<1>1. ASSUME NEW ttl \in Nat PROVE J!Nothing \in J!Entry(ttl) /\ ~J!Live(J!Nothing)
  BY <1>1 DEF J!Nothing, J!Entry, J!Answers, J!Live
<1>2. J!TypeOK'
  BY <1>1 DEF J!JwksAssumption, JInv, J!Evict, J!TypeOK
<1>3. AgedFetched' /\ AgedDefault'
  BY <1>1 DEF J!JwksAssumption, JInv, J!Evict, AgedFetched, AgedDefault
<1>4. ASSUME NEW c \in Fetches PROVE AgedCall(jcall[c], served, steady)'
  BY <1>4 DEF JInv, J!Evict
<1> QED BY <1>2, <1>3, <1>4 DEF JInv

\* A step of one call c that leaves the served key and the time.
LEMMA CallStep ==
    ASSUME J!JwksAssumption, JInv, NEW c \in Fetches, NEW q \in J!Call,
           jcall' = [jcall EXCEPT ![c] = q], UNCHANGED <<served, steady>>,
           AgedCall(q, served, steady),
           fetched' \in J!Entry(TTL), AgedFetched', default' \in J!Entry(MaxAge), AgedDefault'
    PROVE  JInv'
<1>1. J!TypeOK'
  BY DEF JInv, J!TypeOK
<1>2. ASSUME NEW d \in Fetches PROVE AgedCall(jcall[d], served, steady)'
  BY <1>2 DEF JInv, J!TypeOK
<1> QED BY <1>1, <1>2 DEF JInv

LEMMA CachesKept ==
    ASSUME JInv, UNCHANGED <<served, steady>>
    PROVE  /\ fetched' = fetched => fetched' \in J!Entry(TTL) /\ AgedFetched'
           /\ default' = default => default' \in J!Entry(MaxAge) /\ AgedDefault'
BY DEF JInv, J!TypeOK, AgedFetched, AgedDefault, J!Live

\* An ended or a new call has no key that matters.
LEMMA RequestStep ==
    ASSUME J!JwksAssumption, JInv, NEW c \in Fetches, J!request(c) PROVE JInv'
<1> DEFINE q == [jcall[c] EXCEPT !.pc = "match"]
<1>1. q \in J!Call /\ q.pc = "match" /\ q.waited = jcall[c].waited
  BY DEF JInv, J!TypeOK, J!Call
<1>2. AgedCall(q, served, steady)
  BY <1>1 DEF J!request, JInv, AgedCall
<1>3. jcall' = [jcall EXCEPT ![c] = q]
  BY DEF J!request, J!Goto, JInv, J!TypeOK
<1> QED BY <1>1, <1>2, <1>3, CallStep, CachesKept DEF J!request

LEMMA CallEnds ==
    ASSUME J!JwksAssumption, JInv, NEW c \in Fetches,
           NEW pc \in {"ok", "UNAUTHORIZED", "kids"}, J!End(c, pc),
           UNCHANGED <<served, steady>>,
           fetched' \in J!Entry(TTL), AgedFetched', default' \in J!Entry(MaxAge), AgedDefault'
    PROVE  JInv'
<1> DEFINE q == [pc |-> pc, key |-> None, waited |-> 0]
<1>1. q \in J!Call
  BY DEF J!JwksAssumption, J!Call, J!Answers
<1>2. AgedCall(q, served, steady)
  BY DEF AgedCall
<1> QED BY <1>1, <1>2, CallStep DEF J!End

LEMMA MatchStep ==
    ASSUME J!JwksAssumption, JInv, NEW c \in Fetches, J!match(c) PROVE JInv'
<1>0. /\ TTL \in Nat /\ MaxAge \in Nat /\ Patience \in Nat /\ steady \in Nat
      /\ default \in J!Entry(MaxAge) /\ jcall[c] \in J!Call
      /\ jcall[c].pc = "match" /\ jcall[c].waited = 0
  BY DEF J!JwksAssumption, JInv, J!TypeOK, J!match, AgedCall, J!Delay
<1>1. CASE J!Live(default)
  <2> DEFINE q == [jcall[c] EXCEPT !.pc = "check", !.key = default.key]
  <2>1. q.pc = "check" /\ q.key = default.key /\ q.waited = 0 /\ q \in J!Call
    BY <1>0 DEF J!Call, J!Entry
  <2>2. AgedCall(q, served, steady)
    <3>1. default.left \in Nat /\ AgedDefault
      BY <1>0 DEF J!Entry, JInv
    <3> QED BY <1>0, <1>1, <2>1, <3>1 DEF AgedDefault, AgedCall
  <2>3. jcall' = [jcall EXCEPT ![c] = q]
    BY <1>0, <1>1 DEF J!match, JInv, J!TypeOK, J!Call
  <2> QED BY <2>1, <2>2, <2>3, CallStep, CachesKept DEF J!match
<1>2. CASE ~J!Live(default)
  <2> DEFINE q == [jcall[c] EXCEPT !.pc = "fetch"]
  <2>1. q \in J!Call /\ q.pc = "fetch" /\ q.waited = 0
    BY <1>0 DEF J!Call
  <2>2. AgedCall(q, served, steady)
    BY <2>1 DEF AgedCall
  <2>3. jcall' = [jcall EXCEPT ![c] = q]
    BY <1>2 DEF J!match, J!Goto, JInv, J!TypeOK
  <2> QED BY <2>1, <2>2, <2>3, CallStep, CachesKept DEF J!match
<1> QED BY <1>1, <1>2

LEMMA FetchStep ==
    ASSUME J!JwksAssumption, JInv, NEW c \in Fetches, J!fetch(c) PROVE JInv'
<1> DEFINE key == IF J!Live(fetched) THEN fetched.key ELSE served
<1>0. /\ TTL \in Nat /\ MaxAge \in Nat /\ Patience \in Nat /\ steady \in Nat
      /\ served \in J!Answers /\ fetched \in J!Entry(TTL) /\ jcall[c] \in J!Call
      /\ jcall[c].pc = "fetch" /\ jcall[c].waited = 0
  BY DEF J!JwksAssumption, JInv, J!TypeOK, J!fetch, AgedCall, J!Delay
<1>1. key \in J!Answers /\ (Stale(key, served) => steady <= TTL)
  <2>1. fetched.left \in Nat /\ AgedFetched
    BY <1>0 DEF J!Entry, JInv
  <2> QED BY <1>0, <2>1 DEF AgedFetched, Stale, J!Live, J!Entry
<1>2. UNCHANGED <<served, steady, default>>
  BY DEF J!fetch
<1>3. fetched' \in J!Entry(TTL) /\ AgedFetched'
  <2>1. CASE J!Live(fetched)
    BY <2>1, <1>2, CachesKept DEF J!fetch
  <2>2. CASE ~J!Live(fetched)
    BY <2>2, <1>0, <1>2 DEF J!fetch, J!Entry, AgedFetched, Stale
  <2> QED BY <2>1, <2>2
<1>4. CASE key = None
  BY <1>2, <1>3, <1>4, CallEnds, CachesKept DEF J!fetch
<1>5. CASE key # None
  <2> DEFINE q == [jcall[c] EXCEPT !.pc = "put", !.key = key]
  <2>1. q.pc = "put" /\ q.key = key /\ q.waited = 0 /\ q \in J!Call
    BY <1>0, <1>1 DEF J!Call
  <2>2. AgedCall(q, served, steady)
    BY <1>0, <1>1, <2>1 DEF AgedCall
  <2>3. jcall' = [jcall EXCEPT ![c] = q]
    BY <1>0, <1>5 DEF J!fetch, JInv, J!TypeOK, J!Call
  <2> QED BY <1>2, <1>3, <2>1, <2>2, <2>3, CallStep, CachesKept
<1> QED BY <1>4, <1>5

LEMMA PutStep ==
    ASSUME J!JwksAssumption, JInv, NEW c \in Fetches, J!put(c) PROVE JInv'
<1>0. /\ TTL \in Nat /\ MaxAge \in Nat /\ Patience \in Nat /\ steady \in Nat
      /\ jcall[c] \in J!Call /\ jcall[c].waited \in 0..Patience
      /\ Stale(jcall[c].key, served) => steady <= TTL + jcall[c].waited
  BY DEF J!JwksAssumption, JInv, J!TypeOK, J!put, AgedCall, J!Delay, J!Call
<1>1. UNCHANGED <<served, steady, fetched>>
  BY DEF J!put
<1>2. default' \in J!Entry(MaxAge) /\ AgedDefault'
  BY <1>0, <1>1 DEF J!put, J!Entry, J!Call, AgedDefault, Stale
<1> DEFINE q == [jcall[c] EXCEPT !.pc = "check"]
<1>3. q \in J!Call /\ q.pc = "check" /\ q.key = jcall[c].key /\ q.waited = jcall[c].waited
  BY <1>0 DEF J!Call
<1>4. AgedCall(q, served, steady)
  BY <1>0, <1>3 DEF AgedCall
<1>5. jcall' = [jcall EXCEPT ![c] = q]
  BY DEF J!put, J!Goto, JInv, J!TypeOK
<1> QED BY <1>1, <1>2, <1>3, <1>4, <1>5, CallStep, CachesKept

LEMMA CheckStep ==
    ASSUME J!JwksAssumption, JInv, NEW c \in Fetches, NEW kid, NEW signer,
           J!check(c, kid, signer) \/ J!authCheckHandler(c)
    PROVE  JInv'
BY CallEnds, CachesKept DEF J!check, J!authCheckHandler

LEMMA JwksInductive ==
    ASSUME J!JwksAssumption PROVE J!Spec => []JInv
<1>1. J!Init => JInv
  BY JwksInit
<1>2. JInv /\ [J!Next]_J!vars => JInv'
  <2> SUFFICES ASSUME JInv, [J!Next]_J!vars PROVE JInv'
    OBVIOUS
  <2>1. CASE UNCHANGED J!vars
    BY <2>1 DEF J!vars, JInv, J!TypeOK, AgedFetched, AgedDefault, J!Live
  <2>2. CASE J!Next
    BY <2>2, RotateStep, TickStep, EvictStep, RequestStep, MatchStep, FetchStep,
       PutStep, CheckStep DEF J!Next, J!getJWKS
  <2> QED BY <2>1, <2>2
<1> QED BY <1>1, <1>2, PTL DEF J!Spec
-----------------------------------------------------------------------------
\* Cached answers live within their lifetimes and calls within their patience
\* (jwks.mjs).
LEMMA JwksTyped ==
    ASSUME J!JwksAssumption PROVE J!Spec => []J!TypeOK
<1>1. JInv => J!TypeOK
  BY DEF JInv
<1> QED BY <1>1, JwksInductive, PTL

\* Whatever the two lifetimes are, a key that was replaced verifies nothing once
\* both of them and the time of a late put and a late check have passed (getJWKS
\* of jwks.mjs).
LEMMA JwksRotation ==
    ASSUME J!JwksAssumption PROVE J!Spec => []J!RotationReaches
<1>1. JInv => J!RotationReaches
  <2> SUFFICES ASSUME JInv, steady > J!Delay, NEW c \in Fetches, J!Waits(c)
               PROVE  jcall[c].key = served
    BY DEF J!RotationReaches
  <2>1. /\ TTL \in Nat /\ MaxAge \in Nat /\ Patience \in Nat /\ steady \in Nat
        /\ jcall[c].waited \in 0..Patience /\ AgedCall(jcall[c], served, steady)
    BY DEF J!JwksAssumption, JInv, J!TypeOK, J!Call, J!Delay
  <2> QED BY <2>1 DEF AgedCall, J!Waits, Stale, J!Delay
<1> QED BY <1>1, JwksInductive, PTL
-----------------------------------------------------------------------------
(* The four together *)

\* A behaviour of all is one of each: a scene steps its own part only.
LEMMA Parts == Spec => P!Spec /\ D!Spec /\ K!Spec /\ J!Spec
<1>1. Init => P!Init /\ D!Init /\ K!Init /\ J!Init
  BY DEF Init
<1>2. [Next]_vars => [P!Next]_P!vars /\ [D!Next]_D!vars
  BY DEF Next, vars, pvars, dvars, kvars, jvars, P!vars, D!vars
<1>3. [Next]_vars => [K!Next]_K!vars /\ [J!Next]_J!vars
  BY DEF Next, vars, pvars, dvars, kvars, jvars, K!vars, J!vars
<1> QED BY <1>1, <1>2, <1>3, PTL DEF Spec, P!Spec, D!Spec, K!Spec, J!Spec

LEMMA SceneStays == Spec => [](scene \in {"passkeys", "device", "kit", "jwks"})
<1>1. Init => scene \in {"passkeys", "device", "kit", "jwks"}
  BY DEF Init
<1>2. /\ scene \in {"passkeys", "device", "kit", "jwks"}
      /\ [Next]_vars
      => (scene \in {"passkeys", "device", "kit", "jwks"})'
  BY DEF Next, vars
<1> QED BY <1>1, <1>2, PTL DEF Spec

\* The tables of the auth worker and of the ID kit and the caches of the edge
\* keep their types: no row names a user, a session or a credential that is not
\* there to be named, whatever failed in between (worker.ts, jwks.mjs).
THEOREM TypesOKHolds == Spec => []TypesOK
<1> USE IdentityAssumption DEF IdentityAssumption
<1>1. /\ scene \in {"passkeys", "device", "kit", "jwks"}
      /\ P!TypeOK /\ D!TypeOK /\ K!TypeOK /\ J!TypeOK
      => TypesOK
  BY DEF TypesOK
<1>2. P!Spec => []P!TypeOK
  BY PasskeysTyped
<1>3. J!Spec => []J!TypeOK
  BY JwksTyped
<1>4. (DInv => D!TypeOK) /\ (KInv => K!TypeOK)
  BY DEF DInv, KInv
<1> QED BY <1>1, <1>2, <1>3, <1>4, DeviceInductive, KitInductive, SceneStays, Parts, PTL

\* Every session that a passkey opened is its owner's, whatever failed, was
\* retried or ran at the same time between the statements of registerFinish and
\* loginFinish (worker.ts).
THEOREM SessionsAreOwnedHolds == Spec => []SessionsAreOwned
<1>1. P!Spec => []SessionsAreOwned
  BY PasskeysOwned, IdentityAssumption, PTL DEF IdentityAssumption, SessionsAreOwned
<1> QED BY <1>1, Parts, PTL

\* A challenge is a one-time code: Spec implements Ticket, with the challenges
\* gone for the codes spent (deleteChallenge of worker.ts comes last).
THEOREM ChallengeIsTicketHolds == Spec => ChallengeIsTicket
<1>1. P!Spec => ChallengeIsTicket
  BY PasskeysTicket, IdentityAssumption DEF IdentityAssumption, ChallengeIsTicket
<1> QED BY <1>1, Parts, PTL

\* However often a code is approved, by whomever, and whichever of the statements
\* fail, a device that polls again is given the session it was given, which is
\* still stored, unless approvals of the code overlapped (handleDeviceApprove of
\* worker.ts); and in the ID kit no call made after a redemption nothing
\* overlapped is given tokens (handlePoll deletes the record).
THEOREM DevicesPairOnceHolds == Spec => []DevicesPairOnce
<1> USE IdentityAssumption DEF IdentityAssumption
<1>1. DInv => D!DeviceKeepsSession
  BY DEF DInv, StoredSessions, Unraced, D!DeviceKeepsSession
<1>2. KInv => K!LatePollRefused
  BY DEF KInv, Late, K!LatePollRefused
<1>3. D!DeviceKeepsSession /\ K!LatePollRefused => DevicesPairOnce
  BY DEF DevicesPairOnce
<1> QED BY <1>1, <1>2, <1>3, DeviceInductive, KitInductive, Parts, PTL

\* Whatever the two lifetimes are, a key that was replaced verifies nothing once
\* both of them and the time of a late put and a late check have passed (getJWKS
\* of jwks.mjs).
THEOREM RotationReachesHolds == Spec => []RotationReaches
<1>1. J!Spec => []RotationReaches
  BY JwksRotation, IdentityAssumption, PTL DEF IdentityAssumption, RotationReaches
<1> QED BY <1>1, Parts, PTL

\* Where the options carry the challenge that is stored, a client that returns them is told
\* that the challenge is unknown only when it is, or is of the other kind (the lookups of
\* handlePasskeyRegisterFinish and handlePasskeyLoginFinish, worker.ts).
THEOREM HonestFinishHolds ==
    ASSUME \A c \in Challenges : Offered[c] = c
    PROVE  Spec => []HonestFinishFindsChallenge
<1> USE IdentityAssumption DEF IdentityAssumption
<1>1. ToldTrue => HonestFinishFindsChallenge
  BY DEF ToldTrue, HonestFinishFindsChallenge, P!HonestFinishFindsChallenge
<1> QED BY <1>1, ToldInductive, Parts, PTL

\* Where they never do, as deployed (worker.ts:69 and 85 generate one challenge and store
\* another), no registration inserts a user and no passkey opens a session, whatever is
\* sent, signed and retried.
THEOREM DeployedOptionsOpenNothing ==
    ASSUME \A c \in Challenges : Offered[c] # c
    PROVE  Spec => []OpensNothing
<1> USE IdentityAssumption DEF IdentityAssumption
<1>1. StuckAtStart => OpensNothing
  BY DEF StuckAtStart
<1> QED BY <1>1, StuckInductive, Parts, PTL
=============================================================================
