---------------------------- MODULE PanicSwitch ----------------------------
(***************************************************************************)
(* The panic switch of one tenant at the edge                              *)
(* (workers/policy-worker/src/worker.mjs): POST /panic/on and /panic/off,  *)
(* which write and delete keys of KV one by one, and the requests that     *)
(* read two of the keys, one after the other, before they are decided.     *)
(*                                                                         *)
(* Time is kept as what is left of each deadline, so that it needs no      *)
(* bound: Tick takes a second off every one.  KV forgets a key when its    *)
(* expirationTtl has passed.  Any call of KV can fail, and ends its        *)
(* handler.  The key panic_{tenant}_reason is written and never read.      *)
(***************************************************************************)
EXTENDS Integers

CONSTANTS Calls,   \* slots for concurrent calls
          Ttls     \* values of ttl_sec

ASSUME PanicAssumption == Ttls \subseteq Nat \ {0}

VARIABLES
    active,   \* seconds the key panic_{tenant}_active still lives; 0: no key
    expires,  \* the key panic_{tenant}_expires_at: how long it still lives,
              \* and how long until the instant it holds
    call,     \* the calls
    held      \* history: what the last switch call, if it ran alone, promised

vars == <<active, expires, call, held>>

Promise == [says : {"nothing", "on", "off"}, left : Nat]
Nothing == [says |-> "nothing", left |-> 0]
Over    == [says |-> "off", left |-> 0]

Switches == {"on", "off"}
Pcs      == {"idle", "put_active", "put_expires", "put_reason", "del_active",
             "del_expires", "del_reason", "read_active", "read_expires", "done"}

Call == [op : Switches \cup {"request"}, pc : Pcs,
         ttl : Ttls \cup {0},
         left : Nat,            \* on: until expiresAt
         flag : BOOLEAN,        \* request: panicActive, once read
         alone : BOOLEAN,       \* history: no other switch call overlapped it
         promise : Promise,     \* history: what held when the request came
         out : {"none", "ok", "failed", "panic", "normal"}]

Blank(op) == [op |-> op, pc |-> "idle", ttl |-> 0, left |-> 0, flag |-> FALSE,
              alone |-> TRUE, promise |-> Nothing, out |-> "none"]

Init == /\ active = 0
        /\ expires = [key |-> 0, left |-> 0]
        /\ call = [c \in Calls |-> Blank("request")]
        /\ held = Over
-----------------------------------------------------------------------------
Free(c)      == call[c].pc \in {"idle", "done"}
At(c, pc)    == call[c].pc = pc
Switching(c) == ~Free(c) /\ call[c].op \in Switches
Move(c, pc)  == call' = [call EXCEPT ![c].pc = pc]
Finish(c, out) == call' = [call EXCEPT ![c] =
    [Blank(call[c].op) EXCEPT !.pc = "done", !.promise = call[c].promise,
                              !.out = out]]

Less(n) == IF n = 0 THEN 0 ELSE n - 1

Tick == /\ active' = Less(active)
        /\ expires' = [key |-> Less(expires.key), left |-> Less(expires.left)]
        /\ call' = [c \in Calls |->
                      IF Free(c) THEN call[c]
                      ELSE [call[c] EXCEPT !.left = Less(@),
                                           !.promise.left = Less(@)]]
        /\ held' = [held EXCEPT !.left = Less(@)]

\* A switch call begins: it overlaps those in flight, and what was promised
\* to the requests in flight no longer holds.
Begin(c, q) ==
    /\ Free(c)
    /\ LET alone == \A d \in Calls : ~Switching(d) IN
       call' = [d \in Calls |->
                 IF d = c THEN [q EXCEPT !.alone = alone]
                 ELSE IF Free(d) THEN call[d]
                 ELSE [call[d] EXCEPT !.alone = FALSE, !.promise = Nothing]]
    /\ held' = Nothing
    /\ UNCHANGED <<active, expires>>

panicOn(c, ttl) == Begin(c, [Blank("on") EXCEPT !.pc = "put_active",
                                                !.ttl = ttl, !.left = ttl])

putActive(c) == /\ At(c, "put_active")
                /\ active' = call[c].ttl
                /\ Move(c, "put_expires")
                /\ UNCHANGED <<expires, held>>

\* Mutant: the deadline is a second early.
putExpires_Early(c) ==
    /\ At(c, "put_expires")
    /\ expires' = [key |-> call[c].ttl, left |-> call[c].left - 1]
    /\ Move(c, "put_reason")
    /\ UNCHANGED <<active, held>>
putExpires(c) == /\ At(c, "put_expires")
                 /\ expires' = [key |-> call[c].ttl, left |-> call[c].left]
                 /\ Move(c, "put_reason")
                 /\ UNCHANGED <<active, held>>

\* The last put, and the answer.
putReason(c) ==
    /\ At(c, "put_reason")
    /\ Finish(c, "ok")
    /\ held' = IF call[c].alone THEN [says |-> "on", left |-> call[c].left] ELSE held
    /\ UNCHANGED <<active, expires>>

\* Mutant: the deadline is deleted and the flag is not.
panicOff_Deadline(c) == Begin(c, [Blank("off") EXCEPT !.pc = "del_expires"])
panicOff(c) == Begin(c, [Blank("off") EXCEPT !.pc = "del_active"])

delActive(c) == /\ At(c, "del_active")
                /\ active' = 0
                /\ Move(c, "del_expires")
                /\ UNCHANGED <<expires, held>>

delExpires(c) == /\ At(c, "del_expires")
                 /\ expires' = [key |-> 0, left |-> 0]
                 /\ Move(c, "del_reason")
                 /\ UNCHANGED <<active, held>>

delReason(c) ==
    /\ At(c, "del_reason")
    /\ Finish(c, "ok")
    /\ held' = IF call[c].alone THEN Over ELSE held
    /\ UNCHANGED <<active, expires>>

\* A request reaches line 467.
arrive(c) ==
    /\ Free(c)
    /\ call' = [call EXCEPT ![c] = [Blank("request") EXCEPT
                   !.pc = "read_active", !.promise = held]]
    /\ UNCHANGED <<active, expires, held>>

readActive(c) ==
    /\ At(c, "read_active")
    /\ call' = [call EXCEPT ![c].pc = "read_expires", ![c].flag = active > 0]
    /\ UNCHANGED <<active, expires, held>>

\* Mutant: a missing deadline means panic whatever the flag says.
Panics_Either(flag) == flag \/ expires.key = 0
\* Lines 468-470: without the second key the flag alone decides.
Panics(flag) == flag /\ (expires.key = 0 \/ expires.left > 0)

decide(c) ==
    /\ At(c, "read_expires")
    /\ Finish(c, IF Panics(call[c].flag) THEN "panic" ELSE "normal")
    /\ UNCHANGED <<active, expires, held>>

fail(c) ==
    /\ ~Free(c)
    /\ Finish(c, "failed")
    /\ UNCHANGED <<active, expires, held>>

Step(c) == \/ putActive(c) \/ putExpires(c) \/ putReason(c)
           \/ delActive(c) \/ delExpires(c) \/ delReason(c)
           \/ readActive(c) \/ decide(c)

Next == \/ Tick
        \/ \E c \in Calls :
             \/ \E ttl \in Ttls : panicOn(c, ttl)
             \/ panicOff(c) \/ arrive(c) \/ Step(c) \/ fail(c)

Spec == Init /\ [][Next]_vars

\* Time passes, and a handler that can go on does.
FairSpec == Spec /\ WF_vars(Tick) /\ \A c \in Calls : WF_vars(Step(c))
-----------------------------------------------------------------------------
(* Properties                                                              *)

TypeOK == /\ active \in Nat
          /\ expires \in [key : Nat, left : Nat]
          /\ call \in [Calls -> Call]
          /\ held \in Promise

\* A request that came after /panic/on answered ok, with no other switch call
\* overlapping that one or begun since, is decided under panic until the
\* deadline it answered: neither the order of the puts and the reads nor the
\* expiry of the two keys leaves a gap.
PanicObeyed ==
    \A c \in Calls : call[c].out = "normal" =>
        ~(call[c].promise.says = "on" /\ call[c].promise.left > 0)

\* A request that came after /panic/off answered ok, with no other switch call
\* overlapping that one or begun since, is not decided under panic, whatever
\* earlier calls left in the two keys.  (Of the deadline of /panic/on this does
\* not hold: a request between the expiry of the two keys still reads a flag
\* without a deadline.)
PanicLifted ==
    \A c \in Calls : call[c].out = "panic" => call[c].promise.says # "off"

\* Panic ends by itself once nobody switches it on, even when the last
\* /panic/on failed between its puts and nobody switches it off.
PanicEnds ==
    <>[](\A c \in Calls : ~(Switching(c) /\ call[c].op = "on"))
      => <>[]~Panics(active > 0)
=============================================================================
