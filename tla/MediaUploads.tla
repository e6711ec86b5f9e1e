---------------------------- MODULE MediaUploads ----------------------------
(***************************************************************************)
(* The uploads of the media API (apps/media-api-worker/src/worker.ts):     *)
(* presign puts the metadata of a new medium in KV, the client puts the    *)
(* object in R2 by itself, commit looks at its size and then writes KV, D1 *)
(* and the queue, one after the other, and link answers a URL.  Any call   *)
(* of a store can fail and ends its handler.  The hash a commit sends is   *)
(* stored and announced, never compared with the object's.                 *)
(***************************************************************************)
EXTENDS Naturals, Sequences

CONSTANTS Media, Calls, Shas, Sizes, NoSha

VARIABLES meta,    \* KV: media:{id}
          object,  \* R2: the size of the object; 0: there is none
          row,     \* D1: the hash of the row in table media; NoSha: no row
          queue,   \* QUEUE_MEDIA_EVENTS: what was announced of each medium
          call     \* calls in flight

vars == <<meta, object, row, queue, call>>

UploadsAssumption == Media # {} /\ NoSha \notin Shas /\ Sizes \subseteq Nat \ {0}

Hashes == Shas \cup {NoSha}
Meta   == [status : {"unused", "pending", "committed", "gone"}, sha : Hashes]
Event  == [kind : {"presigned", "committed"}, sha : Hashes]
Ended  == {"idle", "ok", "url", "media_not_found", "size_mismatch", "failed"}
Call   == [pc : Ended \cup {"announce", "head", "put", "insert", "send"},
           medium : Media, bytes : Sizes \cup {0}, sha : Hashes]

Init == /\ meta = [m \in Media |-> [status |-> "unused", sha |-> NoSha]]
        /\ object = [m \in Media |-> 0]
        /\ row = [m \in Media |-> NoSha]
        /\ queue = [m \in Media |-> << >>]
        /\ call = [k \in Calls |-> [pc |-> "idle", medium |-> CHOOSE m \in Media : TRUE,
                                    bytes |-> 0, sha |-> NoSha]]
-----------------------------------------------------------------------------
At(k, pc)    == call[k].pc = pc
Goto(k, pc)  == call' = [call EXCEPT ![k].pc = pc]
Enter(k, m, bytes, sha, pc) ==
    /\ call[k].pc \in Ended
    /\ call' = [call EXCEPT ![k] = [pc |-> pc, medium |-> m, bytes |-> bytes, sha |-> sha]]
Announce(m, kind, sha) ==
    queue' = [queue EXCEPT ![m] = Append(@, [kind |-> kind, sha |-> sha])]
Known(m) == meta[m].status \in {"pending", "committed"}

\* The id is fresh.
handlePresign(k, m) ==
    /\ meta[m].status = "unused"
    /\ Enter(k, m, 0, NoSha, "announce")
    /\ meta' = [meta EXCEPT ![m].status = "pending"]
    /\ UNCHANGED <<object, row, queue>>

\* The event of a presign may be lost; the answer is the same.
presignSend(k) ==
    /\ At(k, "announce")
    /\ \/ Announce(call[k].medium, "presigned", NoSha)
       \/ UNCHANGED queue
    /\ Goto(k, "ok")
    /\ UNCHANGED <<meta, object, row>>

\* The client's PUT, of any size and as often as it likes.
Upload(m, bytes) ==
    /\ meta[m].status # "unused"
    /\ object' = [object EXCEPT ![m] = bytes]
    /\ UNCHANGED <<meta, row, queue, call>>

\* An hour after its presign a medium that is still pending is forgotten.
Expire(m) == /\ meta[m].status = "pending"
             /\ meta' = [meta EXCEPT ![m].status = "gone"]
             /\ UNCHANGED <<object, row, queue, call>>

handleCommit(k, m, bytes, sha) ==
    /\ Enter(k, m, bytes, sha, IF Known(m) THEN "head" ELSE "media_not_found")
    /\ UNCHANGED <<meta, object, row, queue>>

commitHead(k) ==
    /\ At(k, "head")
    /\ Goto(k, IF object[call[k].medium] = call[k].bytes THEN "put" ELSE "size_mismatch")
    /\ UNCHANGED <<meta, object, row, queue>>

\* The put names no time to live, so the medium is kept from here on.
commitPut(k) ==
    /\ At(k, "put")
    /\ meta' = [meta EXCEPT ![call[k].medium] = [status |-> "committed", sha |-> call[k].sha]]
    /\ Goto(k, "insert")
    /\ UNCHANGED <<object, row, queue>>

\* The id is the primary key: a second row is refused.  Mutant: INSERT OR IGNORE.
commitInsert_Ignore(k) ==
    LET m == call[k].medium IN
    /\ At(k, "insert")
    /\ row' = [row EXCEPT ![m] = IF @ = NoSha THEN call[k].sha ELSE @]
    /\ Goto(k, "send")
    /\ UNCHANGED <<meta, object, queue>>
commitInsert(k) ==
    LET m == call[k].medium IN
    /\ At(k, "insert")
    /\ IF row[m] = NoSha
       THEN row' = [row EXCEPT ![m] = call[k].sha] /\ Goto(k, "send")
       ELSE UNCHANGED row /\ Goto(k, "failed")
    /\ UNCHANGED <<meta, object, queue>>

commitSend(k) ==
    /\ At(k, "send")
    /\ Announce(call[k].medium, "committed", call[k].sha)
    /\ Goto(k, "ok")
    /\ UNCHANGED <<meta, object, row>>

\* A pending medium is answered a URL like a committed one.
handleGetLink(k, m) ==
    /\ Enter(k, m, 0, NoSha, IF Known(m) THEN "url" ELSE "media_not_found")
    /\ UNCHANGED <<meta, object, row, queue>>

fail(k) == /\ call[k].pc \in {"head", "put", "insert", "send"}
           /\ Goto(k, "failed")
           /\ UNCHANGED <<meta, object, row, queue>>

Next == \/ \E m \in Media :
             \/ Expire(m)
             \/ \E b \in Sizes : Upload(m, b)
             \/ \E k \in Calls :
                  \/ handlePresign(k, m) \/ handleGetLink(k, m)
                  \/ \E b \in Sizes, s \in Shas : handleCommit(k, m, b, s)
        \/ \E k \in Calls : \/ presignSend(k) \/ commitHead(k) \/ commitPut(k)
                            \/ commitInsert(k) \/ commitSend(k) \/ fail(k)

Spec == Init /\ [][Next]_vars
-----------------------------------------------------------------------------
(* Properties                                                              *)

TypeOK == /\ meta \in [Media -> Meta]
          /\ object \in [Media -> Sizes \cup {0}]
          /\ row \in [Media -> Hashes]
          /\ queue \in [Media -> Seq(Event)]
          /\ call \in [Calls -> Call]

\* However commits of one medium overlap, fail and are sent again with another
\* hash, it is announced as committed at most once, with the hash its row
\* holds, and KV keeps it from then on.  (The hash in KV can be another one,
\* and a medium whose announcement failed is never announced: the next commit
\* is refused by its row.)
Committed(e) == e.kind = "committed"
AnnouncedOnce ==
    \A m \in Media : \A i \in DOMAIN queue[m] : Committed(queue[m][i]) =>
        /\ \A j \in DOMAIN queue[m] : Committed(queue[m][j]) => j = i
        /\ queue[m][i].sha = row[m]
        /\ meta[m].status = "committed"
=============================================================================
