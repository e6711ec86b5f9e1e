-------------------------------- MODULE IdKit --------------------------------
(***************************************************************************)
(* The device flow of the UBL ID kit                                       *)
(* (apps/office/ubl-id-cloudflare-kit/workers/ubl-id-worker/src/worker.ts):*)
(* a record in KV that start puts, approve reads and puts back, and poll   *)
(* reads, redeems for two signed tokens, and deletes.                      *)
(***************************************************************************)
EXTENDS Naturals, FiniteSets

CONSTANTS Codes, Calls

VARIABLES record,  \* KV: device:{code}
          lookup,  \* KV: user:{code}
          call,    \* approvals and polls in flight
          given    \* history: codes redeemed with no other call at work

vars == <<record, lookup, call, given>>

Ended == {"idle", "pending", "approved", "tokens", "failed"}
Pcs   == Ended \cup {"start", "read", "put", "sign", "delete"}

Init == /\ record = [c \in Codes |-> "unused"]
        /\ lookup = [c \in Codes |-> "unused"]
        /\ call = [k \in Calls |-> [pc |-> "idle", code |-> CHOOSE c \in Codes : TRUE,
                                    late |-> FALSE]]
        /\ given = {}
-----------------------------------------------------------------------------
At(k, pc)      == call[k].pc = pc
Goto(k, pc)    == call' = [call EXCEPT ![k].pc = pc]
Enter(k, c, pc) == /\ call[k].pc \in Ended
                   /\ call' = [call EXCEPT ![k] = [pc |-> pc, code |-> c,
                                                   late |-> c \in given]]
Others(k) == {j \in Calls \ {k} : call[j].code = call[k].code /\ call[j].pc \notin Ended}

handleStart(k, c) == /\ record[c] = "unused"
                     /\ record' = [record EXCEPT ![c] = "pending"]
                     /\ Enter(k, c, "start")
                     /\ UNCHANGED <<lookup, given>>

startLookup(k) == /\ At(k, "start")
                  /\ lookup' = [lookup EXCEPT ![call[k].code] = "live"]
                  /\ Goto(k, "idle")
                  /\ UNCHANGED <<record, given>>

\* The two keys have a time to live of their own.
Expire(c) == /\ \/ /\ record[c] \in {"pending", "approved"}
                   /\ record' = [record EXCEPT ![c] = "gone"] /\ UNCHANGED lookup
                \/ /\ lookup[c] = "live"
                   /\ lookup' = [lookup EXCEPT ![c] = "gone"] /\ UNCHANGED record
             /\ UNCHANGED <<call, given>>

handleApprove(k, c) == /\ Enter(k, c, IF lookup[c] = "live" THEN "read" ELSE "failed")
                       /\ UNCHANGED <<record, lookup, given>>

approveRead(k) ==
    /\ At(k, "read")
    /\ Goto(k, IF record[call[k].code] = "gone" THEN "failed" ELSE "put")
    /\ UNCHANGED <<record, lookup, given>>

\* The put brings back a record deleted since the read.
approvePut(k) == /\ At(k, "put")
                 /\ record' = [record EXCEPT ![call[k].code] = "approved"]
                 /\ Goto(k, "approved")
                 /\ UNCHANGED <<lookup, given>>

handlePoll(k, c) ==
    /\ record[c] # "unused"
    /\ Enter(k, c, CASE record[c] = "gone"     -> "failed"
                     [] record[c] = "pending"  -> "pending"
                     [] record[c] = "approved" -> "sign")
    /\ UNCHANGED <<record, lookup, given>>

\* Both signatures; a signature that does not parse as DER throws.
signJwtES256(k) == /\ At(k, "sign")
                   /\ \E pc \in {"delete", "failed"} : Goto(k, pc)
                   /\ UNCHANGED <<record, lookup, given>>

\* Mutant: the lookup is deleted and the record is not.
pollDelete_Lookup(k) ==
    /\ At(k, "delete")
    /\ lookup' = [lookup EXCEPT ![call[k].code] = "gone"]
    /\ Goto(k, "tokens")
    /\ given' = IF Others(k) = {} THEN given \cup {call[k].code} ELSE given
    /\ UNCHANGED record
pollDelete(k) ==
    /\ At(k, "delete")
    /\ record' = [record EXCEPT ![call[k].code] = "gone"]
    /\ Goto(k, "tokens")
    /\ given' = IF Others(k) = {} THEN given \cup {call[k].code} ELSE given
    /\ UNCHANGED lookup

fail(k) == call[k].pc \notin Ended /\ Goto(k, "failed") /\ UNCHANGED <<record, lookup, given>>

Next == \/ \E c \in Codes :
             \/ Expire(c)
             \/ \E k \in Calls : handleStart(k, c) \/ handleApprove(k, c) \/ handlePoll(k, c)
        \/ \E k \in Calls : \/ startLookup(k) \/ approveRead(k) \/ approvePut(k)
                            \/ signJwtES256(k) \/ pollDelete(k) \/ fail(k)

Spec == Init /\ [][Next]_vars
-----------------------------------------------------------------------------
(* Properties                                                              *)

TypeOK == /\ record \in [Codes -> {"unused", "pending", "approved", "gone"}]
          /\ lookup \in [Codes -> {"unused", "live", "gone"}]
          /\ call \in [Calls -> [pc : Pcs, code : Codes, late : BOOLEAN]]
          /\ given \subseteq Codes

\* Once a poll was given tokens with no other call for that code in flight, no
\* later poll is given any: a later approval finds the record gone and cannot
\* bring it back.  An approval that read the record before can, and two polls
\* that overlap are both served.
LatePollRefused == \A k \in Calls : call[k].late => call[k].pc # "tokens"
=============================================================================
