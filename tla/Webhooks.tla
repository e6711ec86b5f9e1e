------------------------------ MODULE Webhooks ------------------------------
(***************************************************************************)
(* The webhooks worker (apps/webhooks-worker/src/worker.ts): a delivery is *)
(* looked up among the events processed, marked, and then processed; the   *)
(* lookup and the mark are two calls of KV.  Processing is a stub in the   *)
(* code: it is the step between the mark and the answer, and can fail.     *)
(* A delivery without an id gets one made of the millisecond: it is taken  *)
(* for another only of the same partner and millisecond.                   *)
(***************************************************************************)
EXTENDS Naturals, FiniteSets

CONSTANTS Events,   \* partner and event id
          Calls

VARIABLES marked,   \* KV: webhook:dedupe:{partner}:{id}, of the ids senders gave
          dlq,      \* R2: events put in the dead letter bucket
          call,     \* deliveries in flight
          handled   \* history: events a delivery of which was answered while
                    \* their mark lives

vars == <<marked, dlq, call, handled>>

WebhooksAssumption == Events # {}

Ended == {"idle", "missing_signature", "partner_not_configured", "invalid_signature",
          "cached", "ok", "processing_failed", "failed"}
Faults == {"none", "missing_signature", "partner_not_configured", "invalid_signature"}

Init == /\ marked = {}
        /\ dlq = {}
        /\ call = [k \in Calls |-> [pc |-> "idle", event |-> CHOOSE e \in Events : TRUE,
                                    named |-> TRUE, late |-> FALSE]]
        /\ handled = {}
-----------------------------------------------------------------------------
At(k, pc)   == call[k].pc = pc
Goto(k, pc) == call' = [call EXCEPT ![k].pc = pc]

\* Up to the HMAC: without a signature, for a partner without a secret, or with
\* another digest, the delivery ends here; the last goes to the bucket.
\* (named: the header with the id is there.)
deliver(k, e, named, fault) ==
    /\ call[k].pc \in Ended
    /\ call' = [call EXCEPT ![k] =
         [pc |-> IF fault = "none" THEN "lookup" ELSE fault, event |-> e,
          named |-> named, late |-> named /\ e \in handled]]
    /\ \/ fault = "invalid_signature" /\ dlq' = dlq \cup {e}
       \/ UNCHANGED dlq      \* waitUntil: the put may be lost
    /\ UNCHANGED <<marked, handled>>

\* Mutant: the lookup misses.
lookup_Miss(k) ==
    /\ At(k, "lookup")
    /\ Goto(k, "mark")
    /\ UNCHANGED <<marked, dlq, handled>>
lookup(k) ==
    /\ At(k, "lookup")
    /\ \/ call[k].named /\ Goto(k, IF call[k].event \in marked THEN "cached" ELSE "mark")
       \/ ~call[k].named /\ \E pc \in {"cached", "mark"} : Goto(k, pc)
    /\ UNCHANGED <<marked, dlq, handled>>

mark(k) ==
    /\ At(k, "mark")
    /\ marked' = marked \cup {e \in {call[k].event} : call[k].named}
    /\ Goto(k, "process")
    /\ UNCHANGED <<dlq, handled>>

\* A delivery whose processing failed is answered 500, and its mark stays.
process(k) ==
    /\ At(k, "process")
    /\ \/ Goto(k, "ok") /\ UNCHANGED dlq
       \/ Goto(k, "processing_failed") /\ dlq' \in {dlq, dlq \cup {call[k].event}}
    /\ handled' = handled \cup {e \in {call[k].event} \cap marked : call[k].named}
    /\ UNCHANGED marked

\* KV forgets the mark after a day.
Expire(e) == /\ e \in marked
             /\ marked' = marked \ {e}
             /\ handled' = handled \ {e}
             /\ call' = [k \in Calls |-> IF call[k].event = e
                                         THEN [call[k] EXCEPT !.late = FALSE] ELSE call[k]]
             /\ UNCHANGED dlq

fail(k) == /\ call[k].pc \notin Ended
           /\ Goto(k, "failed")
           /\ UNCHANGED <<marked, dlq, handled>>

Next == \/ \E k \in Calls : \/ \E e \in Events, n \in BOOLEAN, f \in Faults : deliver(k, e, n, f)
                            \/ lookup(k) \/ mark(k) \/ process(k) \/ fail(k)
        \/ \E e \in Events : Expire(e)

Spec == Init /\ [][Next]_vars
-----------------------------------------------------------------------------
(* Properties                                                              *)

TypeOK == /\ marked \subseteq Events /\ dlq \subseteq Events /\ handled \subseteq Events
          /\ call \in [Calls -> [pc : Ended \cup {"lookup", "mark", "process"},
                                 event : Events, named : BOOLEAN, late : BOOLEAN]]

\* A delivery with an id that begins after another of its event was answered is
\* not processed again while the mark lives, whatever deliveries overlapped before
\* and whether the first one was processed or failed.  (Two that overlap are
\* both processed; a partner's retry after a 500 is answered ok and never is.)
NotProcessedAgain ==
    \A k \in Calls : call[k].late => ~At(k, "process")
=============================================================================
