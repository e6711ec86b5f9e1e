----------------------------- MODULE OfficeDesk -----------------------------
(***************************************************************************)
(* The office API a language model works through                           *)
(* (workers/office-api-worker): canonical files, lenses, the simulation of *)
(* an action, and the token budget of a session, a Durable Object that     *)
(* handles one request at a time.                                          *)
(*                                                                         *)
(* file.canonical, the families of the files and the version edges are     *)
(* read and never written by this code: they are constants.                *)
(***************************************************************************)
EXTENDS Integers, FiniteSets

CONSTANTS Files, Families,
          Family,          \* [Files -> Families \cup {None}]
          Edges,           \* version_edge: <<src, dst>>
          Flagged,         \* file.canonical = 1
          Workspaces, Lenses, None,
          Total,           \* tokenBudget.total
          Amounts          \* the token counts clients send

VARIABLES canonical, \* file_family.canonical_file_id
          lens,      \* the rows of the lenses
          used,      \* tokenBudget.used
          number,    \* used is a number
          advice,    \* the last simulation, and its recommendation
          shown      \* what the last list, graph or frame shows

vars  == <<canonical, lens, used, number, advice, shown>>
books == <<used, number>>

Actions  == {"file_delete", "file_move", "file_publish", "canonical_mark", "other"}
Advice   == [action : Actions, file : Files, scored : BOOLEAN,
             outcomes : SUBSET {"dependents", "canonical"},
             recommendation : {"proceed", "modify", "abandon"}]

DeskAssumption == /\ Family \in [Files -> Families \cup {None}]
                  /\ Edges \subseteq Files \X Files /\ Flagged \subseteq Files
                  /\ None \notin Files \cup Families \cup Workspaces
                  /\ Total \in Nat /\ Amounts \subseteq Int

Init == /\ canonical = [m \in Families |-> None]
        /\ lens = [l \in Lenses |-> [workspace |-> None, canonicalOnly |-> FALSE]]
        /\ used = 0 /\ number = TRUE
        /\ \E f \in Files :
             advice = [action |-> "other", file |-> f, scored |-> FALSE, outcomes |-> {},
                       recommendation |-> "proceed"]
        /\ shown = {}
-----------------------------------------------------------------------------
\* The columns of a file; files of the workspace, all or those (not) canonical.
filesGet(f) == shown' = {f} /\ UNCHANGED <<canonical, lens, books, advice>>
filesList(which) ==
    /\ shown' = CASE which = "true" -> Flagged [] which = "false" -> Files \ Flagged
                  [] OTHER -> Files
    /\ UNCHANGED <<canonical, lens, books, advice>>

\* Kept with the family.  A file without one is refused.
markCanonical(f) == [canonical EXCEPT ![Family[f]] = f]
versionsMarkCanonical(f) ==
    /\ Family[f] # None
    /\ canonical' = markCanonical(f)
    /\ UNCHANGED <<lens, books, advice, shown>>
\* The versions a file has edges to, and the canonical file of its family.
getGraph(f) == {e[2] : e \in {x \in Edges : x[1] = f}}
                 \cup ({canonical[m] : m \in {Family[f]} \ {None}} \ {None})
versionsGraph(f) == shown' = getGraph(f) /\ UNCHANGED <<canonical, lens, books, advice>>
\* The families without a canonical file, or without files.
getConflicts == {m \in Families : canonical[m] = None \/ \A f \in Files : Family[f] # m}
versionsConflicts == shown' = getConflicts /\ UNCHANGED <<canonical, lens, books, advice>>

lensesList(w) == /\ shown' = {l \in Lenses : lens[l].workspace = w}
                 /\ UNCHANGED <<canonical, lens, books, advice>>
\* INSERT ... ON CONFLICT(id): of a lens there is, the filters are overwritten,
\* whatever workspace it is of; it stays where it was.
lensesPut(l, w, only) ==
    /\ lens' = [lens EXCEPT ![l] = [workspace |-> IF @.workspace = None THEN w ELSE @.workspace,
                                    canonicalOnly |-> only]]
    /\ UNCHANGED <<canonical, books, advice, shown>>
\* The filters of a lens; one that is not of the workspace is a default without.
getLens(w, l)   == lens[l].workspace = w /\ lens[l].canonicalOnly
lensesGet(w, l) == /\ shown' = IF lens[l].workspace = w THEN {l} ELSE {}
                   /\ UNCHANGED <<canonical, lens, books, advice>>
\* The files (of the workspace) whose anchors a frame shows: the column of the
\* file decides, not the mark of its family.
getFrame(w, l)    == IF getLens(w, l) THEN Flagged ELSE Files
lensesFrame(w, l) == shown' = getFrame(w, l) /\ UNCHANGED <<canonical, lens, books, advice>>

\* What a session starts from: the files of the workspace; the canonical files
\* are those of another table, which nothing writes.
buildFileContextFrame == Files
frameBuild == shown' = buildFileContextFrame /\ UNCHANGED <<canonical, lens, books, advice>>

\* Scores in tenths; 0 is none given.
calculateRiskScore(a) == CASE a = "file_delete" -> 9 [] a = "file_publish" -> 8
                           [] a = "canonical_mark" -> 6 [] a = "file_move" -> 4
                           [] OTHER -> 5
checkDependencies(f) == {e[1] : e \in {x \in Edges : x[2] = f}}
checkCanonical(f)    == f \in Flagged
\* The outcomes that are looked for, and the recommendation: it looks for a word
\* in their consequences, and those of a file with dependents do not have it.
simulateHighRiskAction(a, f) ==
    (IF a = "file_delete" /\ checkDependencies(f) # {} THEN {"dependents"} ELSE {})
      \cup (IF a \in {"file_delete", "file_move"} /\ checkCanonical(f) THEN {"canonical"} ELSE {})
recommendation(outcomes) == IF "canonical" \in outcomes THEN "abandon" ELSE "proceed"
simulateAction(a, f, riskScore) ==
    LET score == IF riskScore = 0 THEN calculateRiskScore(a) ELSE riskScore
    IN IF score > 7 THEN simulateHighRiskAction(a, f) ELSE {}
simulationRun(a, f, riskScore) ==
    /\ LET o == simulateAction(a, f, riskScore) IN
         advice' = [action |-> a, file |-> f, scored |-> riskScore # 0, outcomes |-> o,
                    recommendation |-> recommendation(o)]
    /\ UNCHANGED <<canonical, lens, books, shown>>

\* More than what remains is refused; a negative count is not, and once used is
\* no number nothing is.  (Bound: used falls no lower than -Total.)
consumeTokens(n) ==
    /\ number => Total - used >= n
    /\ used + n >= -Total
    /\ used' = IF number THEN used + n ELSE used
    /\ UNCHANGED <<canonical, lens, number, advice, shown>>
\* No count: undefined is compared, and added to used.
consumeNothing == /\ number' = FALSE /\ used' = 0
                  /\ UNCHANGED <<canonical, lens, advice, shown>>

FileRoutes == \/ \E f \in Files : filesGet(f)
              \/ \E which \in {"true", "false", ""} : filesList(which)
VersionRoutes == \/ \E f \in Files : versionsMarkCanonical(f) \/ versionsGraph(f)
                 \/ versionsConflicts
LensRoutes == \E w \in Workspaces :
                 \/ lensesList(w)
                 \/ \E l \in Lenses : \/ lensesGet(w, l) \/ lensesFrame(w, l)
                                      \/ \E only \in BOOLEAN : lensesPut(l, w, only)
\* The affordances of a session name the actions; those not mapped are "other".
Next == \/ FileRoutes \/ VersionRoutes \/ LensRoutes \/ frameBuild
        \/ \E a \in Actions, f \in Files, s \in {0, 1, 9} : simulationRun(a, f, s)
        \/ \E n \in Amounts : consumeTokens(n)
        \/ consumeNothing

Spec == Init /\ [][Next]_vars
-----------------------------------------------------------------------------
(* Properties                                                              *)

TypeOK == /\ canonical \in [Families -> Files \cup {None}]
          /\ lens \in [Lenses -> [workspace : Workspaces \cup {None}, canonicalOnly : BOOLEAN]]
          /\ used \in Int /\ number \in BOOLEAN /\ advice \in Advice
          /\ shown \subseteq Files \cup Families \cup Lenses

\* What a session has used, less what negative counts gave back, is no more than
\* its total, refused and accepted consumes in any order.  (After a consume that
\* named no count, used is no number and nothing is refused any more.)
BudgetKept == number => used <= Total
=============================================================================
