----------------------------- MODULE JobSockets -----------------------------
(***************************************************************************)
(* The connection behind job updates (services/jobsApi.ts): one module     *)
(* variable ws, the handlers of every hook on the page and one variable    *)
(* for the reconnect timer.  A socket that was replaced is not closed and  *)
(* goes on calling the handlers; a second timer is set over the first,     *)
(* which still fires.                                                      *)
(***************************************************************************)
EXTENDS FiniteSets

CONSTANTS Subs,      \* hooks that subscribe
          Sockets,   \* bound: sockets that are not yet gone
          Timers,    \* bound: reconnect timers that run
          None

VARIABLES handlers,  \* the subscribed hooks
          sock,      \* the state of each socket; "none" before and after
          ws,        \* the socket the module knows
          timers,    \* timers that run
          reconnectTimeout  \* the timer the module knows; it may have fired

vars == <<handlers, sock, ws, timers, reconnectTimeout>>

JobSocketsAssumption == None \notin Sockets \cup Timers

Init == /\ handlers = {}
        /\ sock = [k \in Sockets |-> "none"] /\ ws = None
        /\ timers = {} /\ reconnectTimeout = None
-----------------------------------------------------------------------------
Connected == ws # None /\ sock[ws] = "open"

\* A new socket, unless the one known is open; one that is connecting is let go.
connectJobUpdates ==
    \/ Connected /\ UNCHANGED <<sock, ws>>
    \/ /\ ~Connected
       /\ \E k \in Sockets : /\ sock[k] = "none"
                             /\ sock' = [sock EXCEPT ![k] = "connecting"]
                             /\ ws' = k

subscribeToJobUpdates(s) ==
    /\ s \notin handlers /\ handlers' = handlers \cup {s}
    /\ connectJobUpdates
    /\ UNCHANGED <<timers, reconnectTimeout>>

disconnectJobUpdates ==
    /\ timers' = timers \ {reconnectTimeout} /\ reconnectTimeout' = None
    /\ sock' = IF ws = None THEN sock ELSE [sock EXCEPT ![ws] = "closing"]
    /\ ws' = None

\* The last to leave closes the socket known.
unsubscribe(s) ==
    /\ s \in handlers /\ handlers' = handlers \ {s}
    /\ IF handlers' = {} THEN disconnectJobUpdates
       ELSE UNCHANGED <<sock, ws, timers, reconnectTimeout>>

onopen(k) == /\ sock[k] = "connecting"
             /\ sock' = [sock EXCEPT ![k] = "open"]
             /\ timers' = timers \ {reconnectTimeout} /\ reconnectTimeout' = None
             /\ UNCHANGED <<handlers, ws>>

\* Closed by either end, or never opened.
closed(k) == /\ sock[k] # "none" /\ sock' = [sock EXCEPT ![k] = "none"]
             /\ ws' = None /\ UNCHANGED handlers
\* Mutant: no second timer while one is known.
onclose_Known(k) ==
    /\ closed(k)
    /\ IF handlers = {} \/ reconnectTimeout # None THEN UNCHANGED <<timers, reconnectTimeout>>
       ELSE \E t \in Timers \ timers : timers' = timers \cup {t} /\ reconnectTimeout' = t
\* Whichever socket it was, the module knows none now, and tries again in 3 s if
\* anyone listens.
onclose(k) ==
    /\ closed(k)
    /\ IF handlers = {} THEN UNCHANGED <<timers, reconnectTimeout>>
       ELSE \E t \in Timers \ timers : timers' = timers \cup {t} /\ reconnectTimeout' = t

\* A timer fires, known or not, with anyone listening or not.
reconnect(t) == /\ t \in timers /\ timers' = timers \ {t}
                /\ connectJobUpdates
                /\ UNCHANGED <<handlers, reconnectTimeout>>

Next == \/ \E s \in Subs : subscribeToJobUpdates(s) \/ unsubscribe(s)
        \/ \E k \in Sockets : onopen(k) \/ onclose(k)
        \/ \E t \in Timers : reconnect(t)

Spec == Init /\ [][Next]_vars
-----------------------------------------------------------------------------
(* Properties                                                              *)

TypeOK == /\ handlers \subseteq Subs
          /\ sock \in [Sockets -> {"none", "connecting", "open", "closing"}]
          /\ ws \in Sockets \cup {None}
          /\ timers \subseteq Timers /\ reconnectTimeout \in Timers \cup {None}

\* While a hook listens there is a socket, or a timer that will make one:
\* sockets let go, closes of old ones, timers that were set over each other and
\* hooks that come and go never leave the page deaf for good.
Listening == handlers # {} => timers # {} \/ \E k \in Sockets : sock[k] # "none"
=============================================================================
