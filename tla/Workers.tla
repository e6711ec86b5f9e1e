------------------------------ MODULE Workers -------------------------------
(***************************************************************************)
(* The services behind the edge, side by side: the media API, the room,    *)
(* the webhooks, the lab's policy proxy, the gateway, the skeleton of the  *)
(* quota object, the registry of MCP servers and the office's workers.     *)
(* They share no row, so each behaviour exercises one of them, its scene;  *)
(* the others rest in one initial state.                                   *)
(***************************************************************************)
EXTENDS Integers, FiniteSets

CONSTANTS None,
          Media, UCalls, Shas, Sizes, NoSha,                \* of MediaUploads
          StreamKeys, SCalls, StreamApi,                    \* of MediaStreams
          Sockets, MaxInbox,                                \* of RoomDO
          Events, WCalls,                                   \* of Webhooks
          Chips, Requests, MaxEval,                         \* of PolicyProxy
          Entities, Commits, Handed, Finished, MaxMs,       \* of Handovers
          Files, Families, Family, Edges, Flagged,          \* of OfficeDesk
          Workspaces, Lenses, Total, Amounts,
          Indexed, Texts, MaxLines, Runs, IndexEnd,         \* of OfficeIndex
          Socks, Metas, Key(_, _), Tools, NoTenant,         \* of McpGateway
          TTL, Capacity, MaxTicks,
          Meters, QCalls, OpKeys, Quantities, Plans,        \* of QuotaSkeleton
          Overrides, Window, Day, Epoch, MaxTime, MaxCredit,
          Models,                                           \* of LlmRouter
          Posts, Upstream                                   \* of Registry

VARIABLES scene,
          meta, object, row, queue, ucall,
          session, input, room, scall, asked,
          link, sockets, inbox, shown,
          marked, dlq, dcall, wdone,
          yaml, pack, chip, panic, allow_total, deny_total, eval_count,
          eval_ms_max, req,
          hnow, handover, told,
          canonical, lens, used, number, advice, view,
          inow, blob, updated_at, indexed_at, anchor, vector, run, covered, bound,
          embedded, found,
          qplan, overrides, qnow, qmeter, qcall, winTotal,
          clock, mcp, reply, lastRun,
          env, prompt,
          curated, post, crossed, listed

uvars == <<meta, object, row, queue, ucall>>
svars == <<session, input, room, scall, asked>>
rvars == <<link, sockets, inbox, shown>>
wvars == <<marked, dlq, dcall, wdone>>
pvars == <<yaml, pack, chip, panic, allow_total, deny_total, eval_count,
           eval_ms_max, req>>
hvars == <<hnow, handover, told>>
dvars == <<canonical, lens, used, number, advice, view>>
ivars == <<inow, blob, updated_at, indexed_at, anchor, vector, run, covered, bound,
           embedded, found>>
qvars == <<qplan, overrides, qnow, qmeter, qcall, winTotal>>
mvars == <<clock, mcp, reply, lastRun>>
lvars == <<env, prompt>>
gvars == <<curated, post, crossed, listed>>

U == INSTANCE MediaUploads WITH Calls <- UCalls, call <- ucall
S == INSTANCE MediaStreams WITH Keys <- StreamKeys, Calls <- SCalls, call <- scall
R == INSTANCE RoomDO
W == INSTANCE Webhooks WITH Calls <- WCalls, call <- dcall, handled <- wdone
P == INSTANCE PolicyProxy
H == INSTANCE Handovers WITH Files <- Handed, Flagged <- Finished, now <- hnow
D == INSTANCE OfficeDesk WITH shown <- view
I == INSTANCE OfficeIndex WITH Files <- Indexed, MaxTime <- IndexEnd, now <- inow
M == INSTANCE McpGateway WITH session <- mcp
Q == INSTANCE QuotaSkeleton WITH Calls <- QCalls, NoKey <- None,
       plan <- qplan, now <- qnow, call <- qcall, meter <- qmeter
L == INSTANCE LlmRouter
G == INSTANCE Registry

ASSUME WorkersAssumption ==
    /\ U!UploadsAssumption /\ R!RoomAssumption /\ P!ProxyAssumption
    /\ H!HandoversAssumption /\ D!DeskAssumption /\ I!IndexAssumption /\ M!McpAssumption /\ Q!SkeletonAssumption
    /\ L!LlmAssumption /\ W!WebhooksAssumption /\ S!StreamsAssumption

Scenes == {"uploads", "streams", "room", "webhooks", "proxy", "handovers", "desk",
           "index", "quota", "mcp", "llm", "registry"}

Init == /\ scene \in Scenes
        /\ U!Init /\ S!Init /\ R!Init /\ W!Init /\ H!Init /\ M!Init /\ G!Init
        /\ P!Init /\ (scene # "proxy" => chip = CHOOSE c \in Chips : TRUE)
        /\ D!Init /\ (scene # "desk"  => advice.file = CHOOSE f \in Files : TRUE)
        /\ I!Init /\ (scene # "index" => blob = [f \in Indexed |-> << >>] /\ ~bound)
        /\ Q!Init /\ (scene # "quota" => overrides = << >>)
        /\ L!Init /\ (scene # "llm"   => env.premium /\ env.openai /\ env.anthropic)

Next ==
  /\ UNCHANGED scene
  /\ \/ /\ scene = "uploads" /\ U!Next
        /\ UNCHANGED <<svars, rvars, wvars, pvars, hvars, dvars, qvars, ivars, mvars, lvars, gvars>>
     \/ /\ scene = "streams" /\ S!Next
        /\ UNCHANGED <<uvars, rvars, wvars, pvars, hvars, dvars, qvars, ivars, mvars, lvars, gvars>>
     \/ /\ scene = "room" /\ R!Next
        /\ UNCHANGED <<uvars, svars, wvars, pvars, hvars, dvars, qvars, ivars, mvars, lvars, gvars>>
     \/ /\ scene = "webhooks" /\ W!Next
        /\ UNCHANGED <<uvars, svars, rvars, pvars, hvars, dvars, qvars, ivars, mvars, lvars, gvars>>
     \/ /\ scene = "proxy" /\ P!Next
        /\ UNCHANGED <<uvars, svars, rvars, wvars, hvars, dvars, qvars, ivars, mvars, lvars, gvars>>
     \/ /\ scene = "handovers" /\ H!Next
        /\ UNCHANGED <<uvars, svars, rvars, wvars, pvars, dvars, qvars, ivars, mvars, lvars, gvars>>
     \/ /\ scene = "desk" /\ D!Next
        /\ UNCHANGED <<uvars, svars, rvars, wvars, pvars, hvars, qvars, ivars, mvars, lvars, gvars>>
     \/ /\ scene = "index" /\ I!Next
        /\ UNCHANGED <<uvars, svars, rvars, wvars, pvars, hvars, dvars, qvars, mvars, lvars, gvars>>
     \/ /\ scene = "quota" /\ Q!Next
        /\ UNCHANGED <<uvars, svars, rvars, wvars, pvars, hvars, dvars, ivars, mvars, lvars, gvars>>
     \/ /\ scene = "mcp" /\ M!Next
        /\ UNCHANGED <<uvars, svars, rvars, wvars, pvars, hvars, dvars, qvars, ivars, lvars, gvars>>
     \/ /\ scene = "llm" /\ L!Next
        /\ UNCHANGED <<uvars, svars, rvars, wvars, pvars, hvars, dvars, qvars, ivars, mvars, gvars>>
     \/ /\ scene = "registry" /\ G!Next
        /\ UNCHANGED <<uvars, svars, rvars, wvars, pvars, hvars, dvars, qvars, ivars, mvars, lvars>>

vars == <<scene, uvars, svars, rvars, wvars, pvars, hvars, dvars, qvars, ivars,
          mvars, lvars, gvars>>

Spec == Init /\ [][Next]_vars

\* Every part keeps its types.
TypesOK == CASE scene = "uploads"   -> U!TypeOK [] scene = "streams" -> S!TypeOK
             [] scene = "room"      -> R!TypeOK [] scene = "webhooks" -> W!TypeOK
             [] scene = "proxy"     -> P!TypeOK [] scene = "handovers" -> H!TypeOK
             [] scene = "desk"      -> D!TypeOK [] scene = "index" -> I!TypeOK
             [] scene = "quota"     -> Q!TypeOK [] scene = "mcp" -> M!TypeOK
             [] scene = "llm"       -> L!TypeOK [] scene = "registry" -> G!TypeOK

\* The properties of the parts, under their names there.
ReplayFollowsRecording == S!ReplayFollowsRecording
CountsAgree            == R!CountsAgree
MetricsAddUp           == P!MetricsAddUp
HandoverKnown          == H!HandoverKnown

\* Whatever fails, overlaps and is tried again: a medium is announced once, and
\* an event of a webhook is not processed again while its mark lives.
HandledOnce == U!AnnouncedOnce /\ W!NotProcessedAgain

\* What was done is not done again: neither an operation of the gateway whose
\* result a socket's cache holds, nor one a tenant has paid for.
NotDoneAgain == M!RunOncePerSocket /\ Q!PaidOnce /\ Q!KeepsTheBudget

\* The books are kept: anchors and vectors cover the text indexed, a session stays
\* in its budget, every prompt finds a provider that may be used, and of servers
\* whose posts were acknowledged only those another post overwrote are not listed.
BooksKept == I!AnchorsCover /\ D!BudgetKept /\ L!EveryPromptRouted /\ G!AcknowledgedStays
=============================================================================
