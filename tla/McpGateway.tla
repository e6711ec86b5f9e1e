----------------------------- MODULE McpGateway -----------------------------
(***************************************************************************)
(* The gateway's MCP server (apps/gateway/src/mcp): one session per web    *)
(* socket, its requests answered one after the other; the result of a      *)
(* tool's call is kept in the session under client and operation id.       *)
(***************************************************************************)
EXTENDS Naturals, FiniteSets

CONSTANTS Socks,      \* web sockets over time
          Metas,      \* records [client, op, tenant]: meta of the requests
          Key(_, _),  \* Session::key of client and op: "{client}:{op}"
          Tools,
          NoTenant,   \* the empty tenant
          None,
          TTL,        \* 600 s, in ticks of the clock
          Capacity,   \* entries of one cache (50 000 in the code)
          MaxTicks    \* bound of the clock

McpAssumption == /\ Metas \subseteq [client : {m.client : m \in Metas},
                                     op : {m.op : m \in Metas},
                                     tenant : {m.tenant : m \in Metas}]
                 /\ IsFiniteSet(Metas) /\ None \notin 0..MaxTicks
                 /\ TTL \in Nat \ {0} /\ Capacity \in Nat \ {0} /\ MaxTicks \in Nat

VARIABLES clock,
          session,    \* per socket: None, or the tenant of its brief and its idempo
          reply,      \* the last answer
          lastRun     \* history: when a key was last run, on each socket

vars == <<clock, session, reply, lastRun>>

Keys    == {Key(m.client, m.op) : m \in Metas}
Tenants == {m.tenant : m \in Metas}
Entries == [key : Keys, at : 0..MaxTicks, result : Tools]

NoReply  == [is |-> "none", result |-> None]
Error(e) == [is |-> e, result |-> None]

Init == /\ clock = 0
        /\ session = [s \in Socks |-> None]
        /\ reply = NoReply
        /\ lastRun = [s \in Socks |-> [k \in Keys |-> None]]
-----------------------------------------------------------------------------
Live(s) == session[s] # None
abac_ok(m)   == m.tenant # NoTenant

\* A new socket has a new session: an empty brief and an empty cache.
ws_upgrade(s) ==
    /\ ~Live(s) /\ \A k \in Keys : lastRun[s][k] = None
    /\ session' = [session EXCEPT ![s] = [tenant |-> None, idempo |-> {}]]
    /\ UNCHANGED <<clock, reply, lastRun>>

Close(s) == /\ Live(s)
            /\ session' = [session EXCEPT ![s] = None]
            /\ UNCHANGED <<clock, reply, lastRun>>

\* A frame that is not a request, and a method or params the router refuses.
invalid(s) == /\ Live(s)
              /\ reply' = Error("INVALID_PARAMS")
              /\ UNCHANGED <<clock, session, lastRun>>

tools_list(s, m) ==
    /\ Live(s)
    /\ reply' = IF abac_ok(m) THEN [is |-> "ok", result |-> Tools]
                             ELSE Error("FORBIDDEN")
    /\ UNCHANGED <<clock, session, lastRun>>

\* The brief is given to whoever asks on this socket: no meta is read.
brief_get(s) ==
    /\ Live(s)
    /\ reply' = [is |-> "ok", result |-> session[s].tenant]
    /\ UNCHANGED <<clock, session, lastRun>>

\* A brief may name no tenant (t = None), or the one of its meta only.
brief_set(s, m, t) ==
    /\ Live(s)
    /\ \/ /\ t \in {None, m.tenant}
          /\ session' = [session EXCEPT ![s].tenant = t]
          /\ reply' = [is |-> "ok", result |-> None]
       \/ /\ t \notin {None, m.tenant}
          /\ reply' = Error("FORBIDDEN")
          /\ UNCHANGED session
    /\ UNCHANGED <<clock, lastRun>>

\* The cache: an entry lives TTL, and of more than Capacity any may go.
cached(s, k) == {e \in session[s].idempo : e.key = k /\ clock - e.at < TTL}

\* Mutant: the cache has no capacity.
insert_Over(c, e) == {{o \in c : o.key # e.key} \cup {e}}
insert(c, e) ==
    LET all == {o \in c : o.key # e.key} \cup {e}
    IN  IF Cardinality(all) <= Capacity THEN {all} ELSE {all \ {o} : o \in all}

\* The operation id is looked up, the tool is run (a stub, or an echo), and its
\* result is kept.  A key that holds another tool's result answers with that:
\* nothing sends CONFLICT.
tool_call(s, m, tool) ==
    LET k == Key(m.client, m.op)
    IN /\ Live(s)
       /\ \/ /\ ~abac_ok(m)
             /\ reply' = Error("FORBIDDEN")
             /\ UNCHANGED <<session, lastRun>>
          \/ \E e \in cached(s, k) :
             /\ abac_ok(m)
             /\ reply' = [is |-> "cached", result |-> e.result]
             /\ UNCHANGED <<session, lastRun>>
          \/ /\ abac_ok(m) /\ cached(s, k) = {}
             /\ \E c \in insert(session[s].idempo, [key |-> k, at |-> clock, result |-> tool]) :
                  session' = [session EXCEPT ![s].idempo = c]
             /\ reply' = [is |-> "run", result |-> tool]
             /\ lastRun' = [lastRun EXCEPT ![s][k] = clock]
       /\ UNCHANGED clock

Tick == /\ clock < MaxTicks
        /\ clock' = clock + 1
        /\ UNCHANGED <<session, reply, lastRun>>

Next == \/ \E s \in Socks :
             \/ ws_upgrade(s) \/ Close(s) \/ invalid(s) \/ brief_get(s)
             \/ \E m \in Metas : \/ tools_list(s, m)
                                 \/ \E t \in Tenants \cup {None} : brief_set(s, m, t)
                                 \/ \E tool \in Tools : tool_call(s, m, tool)
        \/ Tick

Spec == Init /\ [][Next]_vars
-----------------------------------------------------------------------------
(* Properties                                                              *)

TypeOK ==
    /\ clock \in 0..MaxTicks
    /\ \A s \in Socks :
         Live(s) => /\ session[s].tenant \in Tenants \cup {None}
                    /\ session[s].idempo \subseteq Entries
                    /\ Cardinality(session[s].idempo) <= Capacity
    /\ lastRun \in [Socks -> [Keys -> 0..MaxTicks \cup {None}]]

\* On one connection an operation is not run again within the TTL, unless the
\* cache was full meanwhile (as many keys as it holds were run).
RunOncePerSocket ==
    [][\A s \in Socks, k \in Keys :
         lastRun'[s][k] # lastRun[s][k] /\ lastRun[s][k] # None
           => \/ clock - lastRun[s][k] >= TTL
              \/ Cardinality({j \in Keys : lastRun[s][j] # None}) > Capacity]_vars
=============================================================================
