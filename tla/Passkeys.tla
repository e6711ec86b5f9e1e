------------------------------ MODULE Passkeys ------------------------------
(***************************************************************************)
(* Passkey registration and login of the auth worker                       *)
(* (workers/auth-worker/src/worker.ts): challenges in KV, and the tables   *)
(* users, passkeys and sessions of D1, where every statement is its own    *)
(* transaction.  Any request may fail at any await.                        *)
(*                                                                         *)
(* An attestation or assertion is made for one challenge and cannot be     *)
(* used with another; the credential made for a challenge bears its name.  *)
(***************************************************************************)
EXTENDS Naturals, FiniteSets

CONSTANTS Challenges,  \* challenges stored in KV
          Stranger,    \* a challenge that is not stored
          Offered,     \* the challenge in the options made with each of them
          Counting,    \* credentials whose authenticator counts signatures
          Requests,    \* slots for concurrent finish requests
          UserIds, SessionIds, None

PasskeyAssumption ==
    /\ Stranger \notin Challenges /\ None \notin Challenges \cup UserIds
    /\ Offered \in [Challenges -> Challenges \cup {Stranger}]

VARIABLES challenge,  \* KV: challenge -> what it is for
          signed,     \* login challenges: who signed, with which count
          device,     \* the signature counter of each authenticator
          users,      \* rows of users
          passkey,    \* rows of passkeys: credential -> owner and count
          session,    \* rows of sessions: id -> user and credential
          finish      \* requests in flight

vars == <<challenge, signed, device, users, passkey, session, finish>>
kv   == <<challenge, signed, device>>

Row(u, n)     == [user |-> u, n |-> n]
NoRow         == Row(None, 0)
Assertion(c, n) == [cred |-> c, n |-> n]
Unsigned      == Assertion(None, 0)
Opened(u, c)  == [user |-> u, cred |-> c]
Blank(pc, ch) == [pc |-> pc, op |-> "register", ch |-> ch, cred |-> None,
                  user |-> None, n |-> 0]

Pcs == {"idle", "user", "passkey", "select", "count", "session", "delete",
        "ok", "refused", "failed"}

Init == /\ challenge = [c \in Challenges |-> "unused"]
        /\ signed = [c \in Challenges |-> Unsigned]
        /\ device = [c \in Challenges |-> 0]
        /\ users = {}
        /\ passkey = [c \in Challenges |-> NoRow]
        /\ session = [s \in SessionIds |-> Opened(None, None)]
        /\ finish = [r \in Requests |-> Blank("idle", Stranger)]
-----------------------------------------------------------------------------
Free(r)   == finish[r].pc \in {"idle", "ok", "refused", "failed"}
At(r, pc) == finish[r].pc = pc
Go(r, f)  == finish' = [finish EXCEPT ![r] = f]
Goto(r, pc) == finish' = [finish EXCEPT ![r].pc = pc]

\* The options go to the client; only the challenge generated here is stored.
handleRegisterStart(c) ==
    /\ challenge[c] = "unused"
    /\ challenge' = [challenge EXCEPT ![c] = "register"]
    /\ UNCHANGED <<signed, device, users, passkey, session, finish>>

handleLoginStart(c) ==
    /\ challenge[c] = "unused"
    /\ challenge' = [challenge EXCEPT ![c] = "login"]
    /\ UNCHANGED <<signed, device, users, passkey, session, finish>>

\* An authenticator signs the challenge of a login.
Sign(c, cred) ==
    /\ challenge[c] = "login" /\ signed[c] = Unsigned
    /\ passkey[cred] # NoRow
    /\ LET n == IF cred \in Counting THEN device[cred] + 1 ELSE 0 IN
       /\ signed' = [signed EXCEPT ![c] = Assertion(cred, n)]
       /\ device' = [device EXCEPT ![cred] = n]
    /\ UNCHANGED <<challenge, users, passkey, session, finish>>

\* KV forgets a challenge after CHALLENGE_TTL_SECONDS.
Expire(c) ==
    /\ challenge[c] \in {"register", "login"}
    /\ challenge' = [challenge EXCEPT ![c] = "gone"]
    /\ UNCHANGED <<signed, device, users, passkey, session, finish>>

\* Lookup of the challenge; an attestation made for it verifies.
registerFinish(r, c) ==
    /\ Free(r) /\ challenge[c] # "unused"
    /\ Go(r, IF Offered[c] = c /\ challenge[c] = "register"
             THEN [Blank("user", c) EXCEPT !.cred = c]
             ELSE Blank("refused", c))
    /\ UNCHANGED <<kv, users, passkey, session>>

\* Users and sessions get fresh random names: which one does not matter.
New(S)   == CHOOSE x \in S : TRUE
Unopened == {s \in SessionIds : session[s].user = None}

insertUser(r) ==
    /\ At(r, "user") /\ users # UserIds
    /\ LET u == New(UserIds \ users) IN
         /\ users' = users \cup {u}
         /\ Go(r, [finish[r] EXCEPT !.pc = "passkey", !.user = u])
    /\ UNCHANGED <<kv, passkey, session>>

\* The credential is the primary key.
\* Mutant: INSERT OR REPLACE.
insertPasskey_Replace(r) ==
    /\ At(r, "passkey")
    /\ passkey' = [passkey EXCEPT ![finish[r].cred] = Row(finish[r].user, 0)]
    /\ Goto(r, "session")
    /\ UNCHANGED <<kv, users, session>>
insertPasskey(r) ==
    /\ At(r, "passkey")
    /\ IF passkey[finish[r].cred] = NoRow
       THEN /\ passkey' = [passkey EXCEPT ![finish[r].cred] = Row(finish[r].user, 0)]
            /\ Goto(r, "session")
       ELSE Goto(r, "failed") /\ UNCHANGED passkey
    /\ UNCHANGED <<kv, users, session>>

loginFinish(r, c) ==
    /\ Free(r) /\ challenge[c] # "unused" /\ signed[c] # Unsigned
    /\ Go(r, IF Offered[c] = c /\ challenge[c] = "login"
             THEN [Blank("select", c) EXCEPT !.op = "login"]
             ELSE [Blank("refused", c) EXCEPT !.op = "login"])
    /\ UNCHANGED <<kv, users, passkey, session>>

\* The row is read and the assertion verified against it: a counter must rise
\* unless both are zero.
selectPasskey(r) ==
    /\ At(r, "select")
    /\ LET a == signed[finish[r].ch]
           row == passkey[a.cred]
       IN Go(r, IF (a.n > 0 \/ row.n > 0) => a.n > row.n
                THEN [finish[r] EXCEPT !.pc = "count", !.cred = a.cred,
                                       !.user = row.user, !.n = a.n]
                ELSE [finish[r] EXCEPT !.pc = "failed"])
    /\ UNCHANGED <<kv, users, passkey, session>>

updateCount(r) ==
    /\ At(r, "count")
    /\ passkey' = [passkey EXCEPT ![finish[r].cred].n = finish[r].n]
    /\ Goto(r, "session")
    /\ UNCHANGED <<kv, users, session>>

insertSession(r) ==
    /\ At(r, "session") /\ Unopened # {}
    /\ LET s == New(Unopened) IN
         session' = [session EXCEPT ![s] = Opened(finish[r].user, finish[r].cred)]
    /\ Goto(r, "delete")
    /\ UNCHANGED <<kv, users, passkey>>

\* Mutant: the challenge is kept until it expires.
deleteChallenge_Kept(r) ==
    /\ At(r, "delete")
    /\ Goto(r, "ok")
    /\ UNCHANGED <<kv, users, passkey, session>>
deleteChallenge(r) ==
    /\ At(r, "delete")
    /\ challenge' = [challenge EXCEPT ![finish[r].ch] = "gone"]
    /\ Goto(r, "ok")
    /\ UNCHANGED <<signed, device, users, passkey, session>>

fail(r) == ~Free(r) /\ Goto(r, "failed") /\ UNCHANGED <<kv, users, passkey, session>>

Next == \/ \E c \in Challenges :
             \/ handleRegisterStart(c) \/ handleLoginStart(c) \/ Expire(c)
             \/ \E cred \in Challenges : Sign(c, cred)
             \/ \E r \in Requests : registerFinish(r, c) \/ loginFinish(r, c)
        \/ \E r \in Requests :
             \/ insertUser(r) \/ insertPasskey(r) \/ selectPasskey(r)
             \/ updateCount(r) \/ insertSession(r) \/ deleteChallenge(r) \/ fail(r)

Spec == Init /\ [][Next]_vars
-----------------------------------------------------------------------------
(* Properties                                                              *)

TypeOK == /\ challenge \in [Challenges -> {"unused", "register", "login", "gone"}]
          /\ signed \in [Challenges -> [cred : Challenges \cup {None}, n : Nat]]
          /\ device \in [Challenges -> Nat]
          /\ users \subseteq UserIds
          /\ passkey \in [Challenges -> [user : UserIds \cup {None}, n : Nat]]
          /\ session \in [SessionIds -> [user : UserIds \cup {None},
                                         cred : Challenges \cup {None}]]
          /\ finish \in [Requests -> [pc : Pcs, op : {"register", "login"},
               ch : Challenges \cup {Stranger}, cred : Challenges \cup {None},
               user : UserIds \cup {None}, n : Nat]]

\* Every session that a passkey opened is its owner's: the row of the credential
\* is there and names the session's user, whatever failed, was retried or ran
\* at the same time between the three INSERTs of a registration or between the
\* SELECT and the INSERT of a login.
SessionsAreOwned ==
    \A s \in SessionIds : session[s].user # None =>
        /\ session[s].user \in users
        /\ passkey[session[s].cred].user = session[s].user

\* A challenge is a one-time code: a finish that looks it up after another was
\* answered with a session, or after it expired, opens none.
spentBar  == {c \in Challenges : challenge[c] = "gone"}
Standing(f) == IF f.pc = "idle" THEN [is |-> "none"]
               ELSE [code |-> f.ch,
                     is |-> CASE f.pc = "ok" -> "yes"
                              [] f.pc \in {"refused", "failed"} -> "no"
                              [] OTHER -> "holds"]
answerBar == [r \in Requests |-> Standing(finish[r])]
Tickets   == INSTANCE Ticket WITH
    Codes <- Challenges, Askers <- Requests, spent <- spentBar, answer <- answerBar
ChallengeIsTicket == Tickets!Spec

\* A client that returns the options it was given is not told that the
\* challenge is unknown while the challenge is stored and of that kind.
HonestFinishFindsChallenge ==
    \A r \in Requests : finish[r].pc = "refused" =>
        challenge[finish[r].ch] # finish[r].op
=============================================================================
