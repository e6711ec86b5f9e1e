----------------------------- MODULE Handovers ------------------------------
(***************************************************************************)
(* What one instance of an office entity leaves to the next: handovers,    *)
(* and the narrative made of the latest (workers/office-api-worker:        *)
(* domain/handover.ts, narrative.ts, sanity_check.ts and their routes).    *)
(* Each statement is one access to D1; file.canonical is read and never    *)
(* written by this code, so the files that have it are a constant.         *)
(***************************************************************************)
EXTENDS Naturals, FiniteSets

CONSTANTS Entities, Commits, Files,
          Flagged,   \* the files with file.canonical = 1
          None,
          MaxMs      \* bound: milliseconds that pass

VARIABLES now,       \* Date.now()
          handover,  \* the commits, and the rows they store
          told       \* the last narrative of each entity

vars == <<now, handover, told>>

Row    == [pc : {"none", "stamped", "stored", "answered"}, entity : Entities,
           at : 0..MaxMs, map : SUBSET Files, earlier : SUBSET Commits]
Nobody == [by |-> None, notes |-> {}]

HandoversAssumption == Flagged \subseteq Files /\ None \notin Commits /\ MaxMs \in Nat

Init == /\ now = 0 /\ told = [e \in Entities |-> Nobody]
        /\ \E e \in Entities : handover = [c \in Commits |->
             [pc |-> "none", entity |-> e, at |-> 0, map |-> {}, earlier |-> {}]]
-----------------------------------------------------------------------------
Tick == now < MaxMs /\ now' = now + 1 /\ UNCHANGED <<handover, told>>

\* A summary of less than 50 characters, or none, is refused before.  The row
\* has the time at which its INSERT is sent.  (earlier: the commits answered in
\* an earlier millisecond.)
handoverCommit(c, e, map) ==
    /\ handover[c].pc = "none"
    /\ handover' = [handover EXCEPT ![c] =
         [pc |-> "stamped", entity |-> e, at |-> now, map |-> map,
          earlier |-> {d \in Commits : handover[d].pc = "answered" /\ handover[d].at < now}]]
    /\ UNCHANGED <<now, told>>
insert(c) == /\ handover[c].pc = "stamped"
             /\ handover' = [handover EXCEPT ![c].pc = "stored"] /\ UNCHANGED <<now, told>>
answer(c) == /\ handover[c].pc = "stored"
             /\ handover' = [handover EXCEPT ![c].pc = "answered"] /\ UNCHANGED <<now, told>>

Rows(e) == {c \in Commits : handover[c].pc \in {"stored", "answered"} /\ handover[c].entity = e}
\* Mutant: the oldest row comes first.
getLatestHandover_Asc(e) ==
    {c \in Rows(e) : \A d \in Rows(e) : handover[d].at >= handover[c].at}
\* ORDER BY created_at DESC LIMIT 1: any of the rows of the last millisecond.
getLatestHandover(e) ==
    {c \in Rows(e) : \A d \in Rows(e) : handover[d].at <= handover[c].at}

\* A discrepancy for each file the handover calls canonical, in its map or in
\* words, and file.canonical does not.  Nothing is ever found resolved.
sanityCheck(c) == handover[c].map \ Flagged
prepareNarrative(e) ==
    /\ \/ Rows(e) = {} /\ told' = [told EXCEPT ![e] = Nobody]
       \/ \E c \in getLatestHandover(e) :
            told' = [told EXCEPT ![e] = [by |-> c, notes |-> sanityCheck(c)]]
    /\ UNCHANGED <<now, handover>>

Next == \/ Tick
        \/ \E c \in Commits : \/ insert(c) \/ answer(c)
                              \/ \E e \in Entities, m \in SUBSET Files : handoverCommit(c, e, m)
        \/ \E e \in Entities : prepareNarrative(e)

Spec == Init /\ [][Next]_vars
-----------------------------------------------------------------------------
(* Properties                                                              *)

TypeOK == /\ now \in 0..MaxMs /\ handover \in [Commits -> Row]
          /\ told \in [Entities -> [by : Commits \cup {None}, notes : SUBSET Files]]

\* What an entity handed over last is what its next instance is told: a handover
\* answered in an earlier millisecond than another was begun is never told in
\* its place once that one is stored, however their inserts overlap others; and
\* what is told goes with the discrepancies of that handover.
HandoverKnown ==
    [][\A e \in Entities : told'[e] # told[e] /\ told'[e].by # None =>
         /\ \A d \in Rows(e) : told'[e].by \notin handover[d].earlier
         /\ told'[e].notes = handover[told'[e].by].map \ Flagged]_vars
=============================================================================
