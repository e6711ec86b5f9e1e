----------------------------- MODULE JobDrawer -----------------------------
(***************************************************************************)
(* The drawer that shows one job (components/JobDrawer.tsx; the chat page  *)
(* imports it and does not render it yet).  Each opening asks for the job; *)
(* nothing cancels what was asked for an earlier one, and the answers come *)
(* in any order: a late one is shown in the drawer of another job.         *)
(***************************************************************************)
EXTENDS Naturals, Sequences, FiniteSets

CONSTANTS Jobs, None,
          MaxOpens   \* bound: openings of the drawer

VARIABLES jobId,     \* the job the drawer is open for
          job,       \* the job it holds; kept when it is closed
          loading,   \* isLoading
          error,     \* error is set
          asked,     \* the jobs asked for, in order
          pending,   \* the indices of those not answered
          overtaken  \* history: an answer came before that of an earlier one

vars == <<jobId, job, loading, error, asked, pending, overtaken>>

Init == /\ jobId = None /\ job = None /\ loading = FALSE /\ error = FALSE
        /\ asked = << >> /\ pending = {} /\ overtaken = FALSE
-----------------------------------------------------------------------------
\* The effect runs when the job changes.
loadJob(j) ==
    /\ j # jobId /\ Len(asked) < MaxOpens
    /\ jobId' = j /\ loading' = TRUE /\ error' = FALSE
    /\ asked' = Append(asked, j) /\ pending' = pending \cup {Len(asked) + 1}
    /\ UNCHANGED <<job, overtaken>>

\* Nothing is asked for without a job, and the drawer renders nothing.
onClose == /\ jobId # None /\ jobId' = None
           /\ UNCHANGED <<job, loading, error, asked, pending, overtaken>>

settle(i) == /\ loading' = FALSE
             /\ pending' = pending \ {i}
             /\ overtaken' = (overtaken \/ \E k \in pending : k < i)
             /\ UNCHANGED <<jobId, asked>>

getJob(i)   == asked[i]
\* Mutant: what is held is not replaced.
setJob_Kept(i) == /\ job' = IF job = None THEN getJob(i) ELSE job
                  /\ settle(i) /\ UNCHANGED error
setJob(i)   == job' = getJob(i) /\ settle(i) /\ UNCHANGED error
setError(i) == error' = TRUE /\ settle(i) /\ UNCHANGED job

\* What is rendered: nothing without a job it is open for; else the job held,
\* with the spinner or the error above it.
Shown == IF jobId = None THEN {} ELSE {job} \ {None}

Next == \/ \E j \in Jobs : loadJob(j)
        \/ onClose
        \/ \E i \in pending : setJob(i) \/ setError(i)

Spec == Init /\ [][Next]_vars
-----------------------------------------------------------------------------
(* Properties                                                              *)

TypeOK == /\ {jobId, job} \subseteq Jobs \cup {None} /\ {loading, error, overtaken} \subseteq BOOLEAN
          /\ asked \in Seq(Jobs) /\ pending \subseteq DOMAIN asked

\* Once every answer has come, none before that of an earlier opening, an open
\* drawer shows its job or an error, and no longer turns.
ShowsTheOpened ==
    jobId # None /\ pending = {} /\ ~overtaken => ~loading /\ (error \/ Shown = {jobId})
=============================================================================
