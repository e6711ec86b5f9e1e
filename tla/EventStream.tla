---------------------------- MODULE EventStream ----------------------------
(***************************************************************************)
(* The event stream of the messenger (services/sse.ts, hooks/useSSE.ts):   *)
(* an EventSource that is closed and made again, after a growing delay,    *)
(* when it errs, at most MaxAttempts times in a row.  The cursor it comes  *)
(* back with is the one of the last hello, so that what the connection     *)
(* delivered after its hello is delivered again.  disconnect closes the    *)
(* source and leaves a timer of reconnect pending.                         *)
(*                                                                         *)
(* External: the gateway numbers its events; a stream without a cursor     *)
(* begins with the next event, one with a cursor right after it, and hello *)
(* tells where the stream begins.                                          *)
(***************************************************************************)
EXTENDS Naturals

CONSTANTS MaxEvents,   \* bound: events the gateway publishes
          MaxAttempts  \* maxReconnectAttempts

VARIABLES published,  \* gateway: number of events so far
          source,     \* eventSource: none, connecting, open or closed
          begin,      \* where the present source begins; Now: at the next event
          delivered,  \* the last event the present source delivered
          cursor,     \* currentCursor
          attempts,   \* reconnectAttempts
          timer,      \* the timer of reconnect is set
          mounted,    \* the component that uses the hook: new, mounted, gone
          first,      \* history: where the first stream that said hello began
          handled     \* history: the events the handlers were given

vars == <<published, source, begin, delivered, cursor, attempts, timer, mounted,
          first, handled>>

Now     == MaxEvents + 1
Nowhere == MaxEvents + 2     \* first, before any hello

EventStreamAssumption == MaxEvents \in Nat /\ MaxAttempts \in Nat

Init == /\ published \in 0..MaxEvents
        /\ source = "none" /\ begin = Now /\ delivered = 0
        /\ cursor = 0 /\ attempts = 0 /\ timer = FALSE /\ mounted = "new"
        /\ first = Nowhere /\ handled = {}
-----------------------------------------------------------------------------
Publish == /\ published < MaxEvents
           /\ published' = published + 1
           /\ UNCHANGED <<source, begin, delivered, cursor, attempts, timer, mounted,
                          first, handled>>

\* Any source there was is closed first.
connect(c) == source' = "connecting" /\ begin' = c

\* useSSE: the effect, which makes a client of its own, and its cleanup.
mount == /\ mounted = "new"
         /\ mounted' = "mounted"
         /\ connect(Now)
         /\ UNCHANGED <<published, delivered, cursor, attempts, timer, first, handled>>
disconnect == /\ mounted = "mounted"
              /\ mounted' = "gone"
              /\ source' = "none"
              /\ UNCHANGED <<published, begin, delivered, cursor, attempts, timer,
                             first, handled>>

onopen == /\ source = "connecting"
          /\ source' = "hello"
          /\ attempts' = 0
          /\ begin' = IF begin = Now THEN published ELSE begin
          /\ UNCHANGED <<published, delivered, cursor, timer, mounted, first, handled>>

hello == /\ source = "hello"
         /\ source' = "open"
         /\ cursor' = begin /\ delivered' = begin
         /\ first' = IF first = Nowhere THEN begin ELSE first
         /\ UNCHANGED <<published, begin, attempts, timer, mounted, handled>>

\* timeline.append, job.update, presence.update and conversation.update.
handleEvent == /\ source = "open" /\ delivered < published
               /\ delivered' = delivered + 1
               /\ handled' = handled \cup {delivered + 1}
               /\ UNCHANGED <<published, source, begin, cursor, attempts, timer,
                              mounted, first>>

\* Mutant: one attempt more.
exhausted_Late == attempts > MaxAttempts
exhausted      == attempts >= MaxAttempts

\* The listener of "error" throws on the event of the browser, and onerror runs
\* all the same: it closes the source and asks for another.
onerror == /\ source \in {"connecting", "hello", "open"}
           /\ source' = "closed"
           /\ IF exhausted
              THEN UNCHANGED <<attempts, timer>>
              ELSE attempts' = attempts + 1 /\ timer' = TRUE
           /\ UNCHANGED <<published, begin, delivered, cursor, mounted, first, handled>>

\* Mutant: a new source without the cursor.
reconnect_Now == /\ timer
                 /\ timer' = FALSE
                 /\ connect(Now)
                 /\ UNCHANGED <<published, delivered, cursor, attempts, mounted, first, handled>>
\* The timer connects, also when the component is gone.
reconnect == /\ timer
             /\ timer' = FALSE
             /\ connect(cursor)
             /\ UNCHANGED <<published, delivered, cursor, attempts, mounted, first, handled>>

Next == \/ Publish \/ mount \/ disconnect \/ onopen \/ hello \/ handleEvent
        \/ onerror \/ reconnect

Spec == Init /\ [][Next]_vars
-----------------------------------------------------------------------------
(* Properties                                                              *)

TypeOK == /\ {published, delivered, cursor} \subseteq 0..MaxEvents
          /\ begin \in 0..Now /\ first \in 0..Nowhere /\ handled \subseteq 1..MaxEvents
          /\ source \in {"none", "connecting", "hello", "open", "closed"}
          /\ attempts \in 0..MaxAttempts /\ timer \in BOOLEAN
          /\ mounted \in {"new", "mounted", "gone"}

\* When an open stream has delivered all there is, the handlers were given every
\* event since the first hello at least once: whatever was published while the
\* stream was broken is not lost, however often it broke and wherever.
NothingMissed ==
    source = "open" /\ delivered = published => (first + 1)..published \subseteq handled
=============================================================================
