----------------------------- MODULE JwksCache ------------------------------
(***************************************************************************)
(* The edge's copy of the key that verifies tokens                         *)
(* (workers/policy-worker/src/jwks.mjs, and the requests of worker.mjs that *)
(* carry a bearer token).  The key comes through two caches that know      *)
(* nothing of each other: the one of fetch, for JWKS_TTL seconds, and      *)
(* caches.default, for the max-age of the answer; between the answer and   *)
(* its put other requests run.                                             *)
(*                                                                         *)
(* The core API is external: it serves one key (auth/jwks.rs), a rotation  *)
(* replaces it, and while its file cannot be read it answers 500.          *)
(***************************************************************************)
EXTENDS Integers

CONSTANTS Keys, Calls,
          Failed,     \* an answer that is not ok
          TTL,        \* JWKS_TTL_SECONDS
          MaxAge,     \* Cache-Control of the answer
          Patience    \* bound: the seconds a request lasts from its answer on

VARIABLES served,
          steady,     \* history: the seconds served has been the same, up to Delay + 1
          fetched,    \* the cache of fetch, and the seconds its entry has left
          default,    \* caches.default
          call

vars == <<served, steady, fetched, default, call>>

Answers == Keys \cup {Failed}
Entry(ttl) == [key : Answers, left : 0..ttl]
Call    == [pc : {"idle", "match", "fetch", "put", "check", "ok", "UNAUTHORIZED", "kids"},
            key : Answers, waited : 0..Patience]

JwksAssumption == /\ Failed \notin Keys
                  /\ TTL \in Nat /\ MaxAge \in Nat /\ Patience \in Nat \ {0}

Nothing == [key |-> Failed, left |-> 0]
Delay   == TTL + MaxAge + 2 * Patience

Init == /\ served \in Keys /\ steady = 0
        /\ fetched = Nothing /\ default = Nothing
        /\ call = [c \in Calls |-> [pc |-> "idle", key |-> Failed, waited |-> 0]]
-----------------------------------------------------------------------------
Rotate == /\ served' \in Answers \ {served} /\ steady' = 0
          /\ UNCHANGED <<fetched, default, call>>
\* A second passes.  A request with an answer is done within Patience seconds.
Waits(c)  == call[c].pc \in {"put", "check"}
Older(e)  == IF e.left <= 1 THEN Nothing ELSE [e EXCEPT !.left = @ - 1]
Tick == /\ \A c \in Calls : Waits(c) => call[c].waited < Patience
        /\ steady' = IF steady > Delay THEN steady ELSE steady + 1
        /\ fetched' = Older(fetched) /\ default' = Older(default)
        /\ call' = [c \in Calls |-> IF Waits(c) THEN [call[c] EXCEPT !.waited = @ + 1]
                                    ELSE call[c]]
        /\ UNCHANGED served
\* A cache may drop what it has at any time.
Evict == /\ \/ fetched' = Nothing /\ UNCHANGED default
            \/ default' = Nothing /\ UNCHANGED fetched
         /\ UNCHANGED <<served, steady, call>>

Live(e)     == e.left > 0
Goto(c, pc) == call' = [call EXCEPT ![c].pc = pc]
End(c, pc)  == call' = [call EXCEPT ![c] = [pc |-> pc, key |-> Failed, waited |-> 0]]

\* A request with a bearer token, or one of GET /auth/check.
request(c) == /\ call[c].pc \in {"idle", "ok", "UNAUTHORIZED", "kids"}
              /\ Goto(c, "match")
              /\ UNCHANGED <<served, steady, fetched, default>>

\* Mutant: an entry that is used is kept for longer.
match_Sliding(c) ==
    /\ call[c].pc = "match"
    /\ IF Live(default)
       THEN /\ call' = [call EXCEPT ![c].pc = "check", ![c].key = default.key]
            /\ default' = [default EXCEPT !.left = MaxAge]
       ELSE Goto(c, "fetch") /\ UNCHANGED default
    /\ UNCHANGED <<served, steady, fetched>>
match(c) ==
    /\ call[c].pc = "match"
    /\ IF Live(default) THEN call' = [call EXCEPT ![c].pc = "check", ![c].key = default.key]
                        ELSE Goto(c, "fetch")
    /\ UNCHANGED <<served, steady, fetched, default>>

\* cacheTtl holds for any answer, for one that is not ok as well, which ends the
\* request.
fetch(c) ==
    /\ call[c].pc = "fetch"
    /\ LET key == IF Live(fetched) THEN fetched.key ELSE served IN
         IF key = Failed THEN End(c, "UNAUTHORIZED")
         ELSE call' = [call EXCEPT ![c].pc = "put", ![c].key = key]
    /\ fetched' = IF Live(fetched) THEN fetched ELSE [key |-> served, left |-> TTL]
    /\ UNCHANGED <<served, steady, default>>

\* For max-age from now, however old the answer is.
put(c) ==
    /\ call[c].pc = "put" /\ Goto(c, "check")
    /\ default' = [key |-> call[c].key, left |-> MaxAge]
    /\ UNCHANGED <<served, steady, fetched>>

getJWKS(c) == match(c) \/ fetch(c) \/ put(c)

\* A signature as JOSE has it, r || s, is given DER's form.
joseToDer(sig) == [sig EXCEPT !.form = "der"]
\* External: WebCrypto knows an ECDSA signature as r || s only.
verify(key, sig) == sig.form = "raw" /\ sig.by = key
verifyES256(kid, signer, key) ==
    kid = key /\ verify(key, joseToDer([form |-> "raw", by |-> signer]))

\* The token names a key, and is signed with that one or another.
check(c, kid, signer) ==
    /\ call[c].pc = "check"
    /\ End(c, IF verifyES256(kid, signer, call[c].key) THEN "ok" ELSE "UNAUTHORIZED")
    /\ UNCHANGED <<served, steady, fetched, default>>
\* The names of the keys.
authCheckHandler(c) == /\ call[c].pc = "check" /\ End(c, "kids")
                       /\ UNCHANGED <<served, steady, fetched, default>>

Next == \/ Rotate \/ Tick \/ Evict
        \/ \E c \in Calls : \/ request(c) \/ getJWKS(c) \/ authCheckHandler(c)
                            \/ \E kid, signer \in Keys : check(c, kid, signer)

Spec == Init /\ [][Next]_vars
-----------------------------------------------------------------------------
(* Properties                                                              *)

TypeOK == /\ served \in Answers /\ steady \in 0..(Delay + 1)
          /\ fetched \in Entry(TTL) /\ default \in Entry(MaxAge) /\ call \in [Calls -> Call]

\* A rotation reaches every request in the end: once a key has been served for
\* as long as the two caches keep an answer one after the other, and a late put
\* and a late check take, nothing verifies with the key before it; and once none
\* has been served for as long, nothing verifies at all.
RotationReaches == steady > Delay => \A c \in Calls : Waits(c) => call[c].key = served
=============================================================================
