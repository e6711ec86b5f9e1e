----------------------------- MODULE Messenger ------------------------------
(***************************************************************************)
(* The messenger's client: its event stream, the chat page, the sign-in,   *)
(* the job updates, the lists kept from them and the drawer of a job, the  *)
(* optimistic updates and the signature it computes.                       *)
(* They share no state here, so each behaviour exercises one of them, its  *)
(* scene; the others rest in one initial state.                            *)
(***************************************************************************)
EXTENDS Integers, FiniteSets

CONSTANTS None,
          MaxEvents, MaxAttempts,                          \* of EventStream
          Sends, Convs, People, Demo, MaxMs, MaxShown,     \* of ChatPage
          Users, Tenants,                                  \* of SignIn
          Subs, Sockets, Timers,                           \* of JobSockets
          Jobs, Conv, Channels, Limit, Calls, MaxVersion,  \* of JobBoard
          Items, Ops,                                      \* of Optimistic
          Opened, MaxOpens,                                \* of JobDrawer
          Prime, L, N, M, Bx, By, Clamped, Hashes          \* of Ed25519

VARIABLES scene,
          published, source, begin, delivered, cursor, attempts, timer, mounted, first,
          handled,
          cnow, cloading, route, cfirst, messages, send, log, direct, making,
          token, tenant, key, user, canSign, loading, page, op, asks, member, left,
          handlers, sock, ws, timers, reconnectTimeout,
          server, open, pushed, call, conv, jobs, quiet,
          confirmed, pendingUpdates, opt, stored, overlap,
          jobId, job, jloading, error, asked, pending, overtaken,
          seed, rHash, kHash, step, point

evars == <<published, source, begin, delivered, cursor, attempts, timer, mounted, first,
           handled>>
cvars == <<cnow, cloading, route, cfirst, messages, send, log, direct, making>>
avars == <<token, tenant, key, user, canSign, loading, page, op, asks, member, left>>
svars == <<handlers, sock, ws, timers, reconnectTimeout>>
bvars == <<server, open, pushed, call, conv, jobs, quiet>>
ovars == <<confirmed, pendingUpdates, opt, stored, overlap>>
jvars == <<jobId, job, jloading, error, asked, pending, overtaken>>
kvars == <<seed, rHash, kHash, step, point>>

E == INSTANCE EventStream
C == INSTANCE ChatPage WITH now <- cnow, loading <- cloading, first <- cfirst
A == INSTANCE SignIn
S == INSTANCE JobSockets
B == INSTANCE JobBoard
O == INSTANCE Optimistic WITH op <- opt
J == INSTANCE JobDrawer WITH Jobs <- Opened, loading <- jloading
K == INSTANCE Ed25519 WITH P <- Prime

\* For TLC: every job is of one conversation.
OneConv == [j \in Jobs |-> CHOOSE c \in Convs : TRUE]

ASSUME MessengerAssumption ==
    /\ E!EventStreamAssumption /\ A!SignInAssumption /\ S!JobSocketsAssumption
    /\ B!BoardAssumption /\ C!ChatAssumption /\ K!CurveAssumption

Scenes == {"stream", "chat", "signin", "sockets", "board", "optimistic", "drawer", "sign"}

Init ==
  /\ scene \in Scenes
  /\ A!Init /\ S!Init /\ J!Init
  /\ E!Init /\ (scene # "stream" => published = 0)
  /\ C!Init /\ (scene # "chat"   => route = CHOOSE c \in Convs : TRUE)
  /\ B!Init /\ (scene # "board"  => conv = (CHOOSE c \in Convs : TRUE)
                                   /\ server = [j \in Jobs |-> 0])
  /\ O!Init /\ (scene # "optimistic" =>
                   confirmed = {} /\ \A o \in Ops : opt[o].item = CHOOSE i \in Items : TRUE)
  /\ K!Init /\ (scene # "sign"   => seed = (CHOOSE n \in Clamped : TRUE)
                                   /\ rHash = (CHOOSE h \in Hashes : TRUE) /\ kHash = rHash)

Next ==
  /\ UNCHANGED scene
  /\ \/ /\ scene = "stream" /\ E!Next
        /\ UNCHANGED <<cvars, avars, svars, bvars, ovars, jvars, kvars>>
     \/ /\ scene = "chat" /\ C!Next
        /\ UNCHANGED <<evars, avars, svars, bvars, ovars, jvars, kvars>>
     \/ /\ scene = "signin" /\ A!Next
        /\ UNCHANGED <<evars, cvars, svars, bvars, ovars, jvars, kvars>>
     \/ /\ scene = "sockets" /\ S!Next
        /\ UNCHANGED <<evars, cvars, avars, bvars, ovars, jvars, kvars>>
     \/ /\ scene = "board" /\ B!Next
        /\ UNCHANGED <<evars, cvars, avars, svars, ovars, jvars, kvars>>
     \/ /\ scene = "optimistic" /\ O!Next
        /\ UNCHANGED <<evars, cvars, avars, svars, bvars, jvars, kvars>>
     \/ /\ scene = "drawer" /\ J!Next
        /\ UNCHANGED <<evars, cvars, avars, svars, bvars, ovars, kvars>>
     \/ /\ scene = "sign" /\ K!Next
        /\ UNCHANGED <<evars, cvars, avars, svars, bvars, ovars, jvars>>

vars == <<scene, evars, cvars, avars, svars, bvars, ovars, jvars, kvars>>

Spec == Init /\ [][Next]_vars

\* Every part keeps its types.
TypesOK == CASE scene = "stream" -> E!TypeOK [] scene = "chat" -> C!TypeOK
             [] scene = "signin" -> A!TypeOK [] scene = "sockets" -> S!TypeOK
             [] scene = "board"  -> B!TypeOK [] scene = "optimistic" -> O!TypeOK
             [] scene = "drawer" -> J!TypeOK [] scene = "sign" -> K!TypeOK

\* The properties of the parts, under their names there.
NothingMissed     == E!NothingMissed
OneIdentity       == A!OneIdentity
SignatureVerifies == K!SignatureVerifies

\* What the user asked for is what he is shown: each send has the outcome of its
\* own call, a list the updates not yet answered, a drawer the job opened; and who
\* listens for updates of jobs is not left without a socket for good.
ShownAsAsked == C!OwnOutcome /\ O!ShowsWhatIsAsked /\ J!ShowsTheOpened /\ S!Listening

\* A list of jobs asked for alone is as the server has it, up to Limit, whatever
\* updates were lost, came twice or came late before.
RefreshMends == B!RefreshMends
=============================================================================
