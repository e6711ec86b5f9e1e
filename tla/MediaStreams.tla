---------------------------- MODULE MediaStreams ----------------------------
(***************************************************************************)
(* Stream sessions, live inputs and RTC rooms of the media API             *)
(* (apps/media-api-worker/src/worker.ts): values of KV that a handler      *)
(* reads, changes and puts back whole.  go_live and end look at no state:  *)
(* a session goes live again after its end, and two handlers that overlap  *)
(* undo each other.  With the Stream API configured (StreamApi) a live     *)
(* input is kept nowhere, so that no token is ever given for it.           *)
(***************************************************************************)
EXTENDS Naturals, FiniteSets

CONSTANTS Keys,       \* ids of sessions, inputs and rooms
          Calls,
          StreamApi   \* STREAM_API_TOKEN and STREAM_ACCOUNT_ID are set

VARIABLES session,  \* KV: session:{id}
          input,    \* KV: stream_input:{id}
          room,     \* KV: rtc_room:{id}
          call,     \* calls in flight
          asked     \* history: the recording the last go_live asked for

vars == <<session, input, room, call, asked>>

StreamsAssumption == Keys # {}

States  == {"unused", "prepared", "live", "archived", "gone"}
Session == [state : States, recording : BOOLEAN]
Ended   == {"idle", "ok", "ended", "replay", "not_found", "failed"}
Call    == [pc : Ended \cup {"live", "end", "send", "create"}, key : Keys,
            read : Session, record : BOOLEAN,
            alone : BOOLEAN,                      \* history: nothing overlapped it
            asked : {"yes", "no", "unsure"}]      \* history: asked, at its start

Blank(pc, s) == [pc |-> pc, key |-> s, read |-> [state |-> "unused", recording |-> FALSE],
                 record |-> FALSE, alone |-> TRUE, asked |-> "no"]

Init == /\ session = [s \in Keys |-> [state |-> "unused", recording |-> FALSE]]
        /\ input = [s \in Keys |-> "unused"]
        /\ room = [s \in Keys |-> "unused"]
        /\ call = [k \in Calls |-> Blank("idle", CHOOSE s \in Keys : TRUE)]
        /\ asked = [s \in Keys |-> "no"]
-----------------------------------------------------------------------------
At(k, pc)   == call[k].pc = pc
Goto(k, pc) == call' = [call EXCEPT ![k] = [Blank(pc, @.key) EXCEPT !.asked = call[k].asked]]
Free(k)     == call[k].pc \in Ended
Answer(k, s, pc) == Free(k) /\ call' = [call EXCEPT ![k] = Blank(pc, s)]

handlePrepare(k, s) ==
    /\ session[s].state = "unused"
    /\ session' = [session EXCEPT ![s].state = "prepared"]
    /\ Answer(k, s, "ok")
    /\ UNCHANGED <<input, room, asked>>

\* The day, or after the end the week, of a session is over; likewise for inputs
\* and rooms.
Expire(s) ==
    \/ /\ session[s].state \in {"prepared", "live", "archived"}
       /\ session' = [session EXCEPT ![s].state = "gone"]
       /\ UNCHANGED <<input, room, call, asked>>
    \/ /\ input[s] = "kept" /\ input' = [input EXCEPT ![s] = "gone"]
       /\ UNCHANGED <<session, room, call, asked>>
    \/ /\ room[s] = "active" /\ room' = [room EXCEPT ![s] = "unused"]
       /\ UNCHANGED <<session, input, call, asked>>

\* The get of go_live and of end.  It overlaps what is in flight for the session.
Read(k, s, pc, record) ==
    LET rivals == {j \in Calls : call[j].pc \in {"live", "end"} /\ call[j].key = s} IN
    /\ Free(k)
    /\ IF session[s].state \in {"unused", "gone"}
       THEN Answer(k, s, "not_found")
       ELSE call' = [j \in Calls |->
              IF j = k THEN [pc |-> pc, key |-> s, read |-> session[s], record |-> record,
                             alone |-> rivals = {}, asked |-> asked[s]]
              ELSE IF j \in rivals THEN [call[j] EXCEPT !.alone = FALSE] ELSE call[j]]
    /\ UNCHANGED <<session, input, room, asked>>

handleGoLive(k, s, record) == Read(k, s, "live", record)
handleEnd(k, s)            == Read(k, s, "end", FALSE)

\* Mutant: a recording, once asked for, is not taken back.
goLivePut_Sticky(k) ==
    LET c == call[k] IN
    /\ At(k, "live")
    /\ session' = [session EXCEPT ![c.key] =
         [state |-> "live", recording |-> c.record \/ c.read.recording]]
    /\ asked' = [asked EXCEPT ![c.key] =
         IF ~c.alone THEN "unsure" ELSE IF c.record THEN "yes" ELSE "no"]
    /\ Goto(k, "ok")
    /\ UNCHANGED <<input, room>>
goLivePut(k) ==
    LET c == call[k] IN
    /\ At(k, "live")
    /\ session' = [session EXCEPT ![c.key] = [state |-> "live", recording |-> c.record]]
    /\ asked' = [asked EXCEPT ![c.key] =
         IF ~c.alone THEN "unsure" ELSE IF c.record THEN "yes" ELSE "no"]
    /\ Goto(k, "ok")
    /\ UNCHANGED <<input, room>>

\* The put of end brings back the recording it read.
endPut(k) ==
    LET c == call[k] IN
    /\ At(k, "end")
    /\ session' = [session EXCEPT ![c.key] =
         [state |-> "archived", recording |-> c.read.recording]]
    /\ asked' = [asked EXCEPT ![c.key] = IF c.alone THEN @ ELSE "unsure"]
    /\ Goto(k, IF c.read.recording THEN "send" ELSE "ended")
    /\ UNCHANGED <<input, room>>

\* replay.ready is queued, and the id of the replay answered.
endSend(k) == /\ At(k, "send")
              /\ Goto(k, "replay")
              /\ UNCHANGED <<session, input, room, asked>>

handleStreamLiveInput(k, i) ==
    /\ input[i] = "unused"
    /\ input' = [input EXCEPT ![i] = IF StreamApi THEN "elsewhere" ELSE "kept"]
    /\ Answer(k, i, "ok")
    /\ UNCHANGED <<session, room, asked>>

handleStreamToken(k, i) ==
    /\ Answer(k, i, IF input[i] = "kept" THEN "ok" ELSE "not_found")
    /\ UNCHANGED <<session, input, room, asked>>

\* A room that exists is answered as it is.
handleRTCRoom(k, r) ==
    /\ Answer(k, r, IF room[r] = "active" THEN "ok" ELSE "create")
    /\ UNCHANGED <<session, input, room, asked>>

roomPut(k) == /\ At(k, "create")
              /\ room' = [room EXCEPT ![call[k].key] = "active"]
              /\ Goto(k, "ok")
              /\ UNCHANGED <<session, input, asked>>

fail(k) == /\ ~Free(k)
           /\ call' = [call EXCEPT ![k] = Blank("failed", @.key)]
           /\ UNCHANGED <<session, input, room, asked>>

Next == \/ \E s \in Keys : Expire(s)
        \/ \E k \in Calls :
          \/ \E s \in Keys :
               \/ handlePrepare(k, s) \/ handleEnd(k, s)
               \/ \E r \in BOOLEAN : handleGoLive(k, s, r)
               \/ handleStreamLiveInput(k, s) \/ handleStreamToken(k, s)
               \/ handleRTCRoom(k, s)
          \/ goLivePut(k) \/ endPut(k) \/ endSend(k) \/ roomPut(k) \/ fail(k)

Spec == Init /\ [][Next]_vars
-----------------------------------------------------------------------------
(* Properties                                                              *)

TypeOK == /\ session \in [Keys -> Session]
          /\ input \in [Keys -> {"unused", "kept", "elsewhere", "gone"}]
          /\ room \in [Keys -> {"unused", "active"}]
          /\ call \in [Calls -> Call]
          /\ asked \in [Keys -> {"yes", "no", "unsure"}]

\* An end announces a replay exactly when the last go_live it came after asked
\* for a recording, unless that go_live, or an end since, overlapped another:
\* ends sent twice, earlier recordings and a second go_live change nothing of
\* that.  (When go_live and end overlap, the later put undoes the other: a
\* session ended can be live again.)
ReplayFollowsRecording ==
    \A k \in Calls : /\ At(k, "replay") => call[k].asked # "no"
                     /\ At(k, "ended")  => call[k].asked # "yes"
=============================================================================
