------------------------------ MODULE JobBoard ------------------------------
(***************************************************************************)
(* The jobs kept by a page that uses the hook useJobs (hooks/useJobs.ts    *)
(* over jobsApi.ts; no page does yet): lists asked for, answers of its own *)
(* calls and updates pushed over the sockets of JobSockets, of which there *)
(* may be two; what is pushed while none is open is lost.  A list is one   *)
(* page of at most Limit jobs.  It is asked for when the hook is mounted   *)
(* and when the conversation changes, and not when a socket comes back.    *)
(*                                                                         *)
(* The version of a job counts its changes at the gateway (external).      *)
(***************************************************************************)
EXTENDS Naturals, Sequences, FiniteSets, SequencesExt

CONSTANTS Jobs, Convs,
          Conv,       \* [Jobs -> Convs]: the conversation of each job
          Channels,   \* sockets that may be open at once
          Limit,      \* 100: of a list that is asked for
          Calls,      \* bound: calls under way
          MaxVersion  \* bound: changes of a job

VARIABLES server,     \* gateway: the version of each job, 0 before it is made
          open,       \* channels that are open
          pushed,     \* updates under way on each channel
          call,       \* the calls
          conv,       \* the conversation on the page
          jobs,       \* the jobs shown
          quiet       \* the call that was asked when nothing else was going on

vars == <<server, open, pushed, call, conv, jobs, quiet>>

Job  == [id : Jobs, version : 1..MaxVersion]
Call == [pc : {"free", "asked", "done"}, kind : {"list", "create", "act"},
         conv : Convs, answer : Seq(Job)]
Free(c)  == [pc |-> "free", kind |-> "list", conv |-> c, answer |-> << >>]
NoCall   == {}

BoardAssumption == /\ Conv \in [Jobs -> Convs] /\ IsFiniteSet(Jobs)
                   /\ MaxVersion \in Nat \ {0} /\ Limit \in Nat \ {0}

Init == /\ server \in [Jobs -> 0..1]
        /\ open = {} /\ pushed = [ch \in Channels |-> << >>]
        /\ conv \in Convs
        /\ call = [c \in Calls |-> Free(conv)]
        /\ jobs = << >> /\ quiet = NoCall
-----------------------------------------------------------------------------
Calm   == (\A c \in Calls : call[c].pc = "free") /\ \A ch \in Channels : pushed[ch] = << >>
Ask(c, kind, b, answer, pc) ==
    /\ call[c].pc = "free"
    /\ call' = [call EXCEPT ![c] = [pc |-> pc, kind |-> kind, conv |-> b, answer |-> answer]]

Loading(c, b) == /\ Ask(c, "list", b, << >>, "asked")
                 /\ quiet' = IF Calm THEN {c} ELSE NoCall
\* Asked with the conversation of the moment.
refresh(c) == /\ Loading(c, conv)
              /\ UNCHANGED <<server, open, pushed, conv, jobs>>
setConversation(b, c) ==
    /\ b # conv /\ conv' = b
    /\ Loading(c, b)
    /\ UNCHANGED <<server, open, pushed, jobs>>

\* The gateway lists the jobs of a conversation: all, or as many as were asked for;
\* no second page is.
Made(b)   == {[id |-> j, version |-> server[j]] : j \in
                {i \in Jobs : Conv[i] = b /\ server[i] > 0}}
listed(b) == {SetToSeq(s) : s \in {t \in SUBSET Made(b) :
                IF Cardinality(Made(b)) <= Limit THEN t = Made(b) ELSE Cardinality(t) = Limit}}
list(c) == /\ call[c].pc = "asked" /\ call[c].kind = "list"
           /\ \E l \in listed(call[c].conv) :
                call' = [call EXCEPT ![c].pc = "done", ![c].answer = l]
           /\ UNCHANGED <<server, open, pushed, conv, jobs, quiet>>

\* Mutant: a list is merged into what is shown.
refreshed_Merged(c) ==
    /\ call[c].pc = "done" /\ call[c].kind = "list"
    /\ jobs' = call[c].answer \o SelectSeq(jobs, LAMBDA j :
                 \A i \in DOMAIN call[c].answer : call[c].answer[i].id # j.id)
    /\ call' = [call EXCEPT ![c] = Free(conv)]
    /\ UNCHANGED <<server, open, pushed, conv, quiet>>
\* The answer replaces what is shown, whatever was pushed or asked meanwhile.
refreshed(c) ==
    /\ call[c].pc = "done" /\ call[c].kind = "list"
    /\ jobs' = call[c].answer
    /\ call' = [call EXCEPT ![c] = Free(conv)]
    /\ UNCHANGED <<server, open, pushed, conv, quiet>>

Push(j) == [ch \in Channels |-> IF ch \in open
              THEN Append(pushed[ch], [id |-> j, version |-> server'[j]]) ELSE pushed[ch]]
Step(j) == /\ server[j] < MaxVersion /\ server' = [server EXCEPT ![j] = @ + 1]
           /\ quiet' = NoCall

\* A job goes on by itself, and tells every socket.
JobStep(j) == /\ server[j] > 0 /\ Step(j) /\ pushed' = Push(j)
              /\ UNCHANGED <<open, call, conv, jobs>>

\* createJob: nothing is pushed for a job that is new.
createJob(j, c) ==
    /\ server[j] = 0 /\ Step(j)
    /\ Ask(c, "create", conv, <<[id |-> j, version |-> 1]>>, "done")
    /\ UNCHANGED <<open, pushed, conv, jobs>>
\* approveJob, rejectJob, cancelJob
act(j, c) ==
    /\ server[j] > 0 /\ Step(j) /\ pushed' = Push(j)
    /\ Ask(c, "act", conv, <<[id |-> j, version |-> server'[j]]>>, "done")
    /\ UNCHANGED <<open, conv, jobs>>

Update(m) == [i \in DOMAIN jobs |-> IF jobs[i].id = m.id THEN m ELSE jobs[i]]
answered(c) ==
    /\ call[c].pc = "done" /\ call[c].kind # "list"
    /\ jobs' = IF call[c].kind = "create" THEN call[c].answer \o jobs
               ELSE Update(Head(call[c].answer))
    /\ call' = [call EXCEPT ![c] = Free(conv)]
    /\ UNCHANGED <<server, open, pushed, conv, quiet>>
\* The call fails, or its answer is lost: an error is shown and the list stays.
failed(c) == /\ call[c].pc # "free"
             /\ call' = [call EXCEPT ![c] = Free(conv)]
             /\ UNCHANGED <<server, open, pushed, conv, jobs, quiet>>

First(id) == CHOOSE i \in DOMAIN jobs :
               jobs[i].id = id /\ \A k \in 1..(i - 1) : jobs[k].id # id
\* An update of a job that is not shown is dropped; of one shown twice it
\* reaches the first.
handleJobUpdate(ch) ==
    /\ pushed[ch] # << >>
    /\ LET m == Head(pushed[ch]) IN
       jobs' = IF \E i \in DOMAIN jobs : jobs[i].id = m.id
               THEN [jobs EXCEPT ![First(m.id)] = m] ELSE jobs
    /\ pushed' = [pushed EXCEPT ![ch] = Tail(@)]
    /\ UNCHANGED <<server, open, call, conv, quiet>>

opens(ch)  == /\ ch \notin open /\ open' = open \cup {ch}
              /\ UNCHANGED <<server, pushed, call, conv, jobs, quiet>>
closes(ch) == /\ ch \in open /\ open' = open \ {ch}
              /\ pushed' = [pushed EXCEPT ![ch] = << >>]
              /\ UNCHANGED <<server, call, conv, jobs, quiet>>

Next == \/ \E c \in Calls : \/ refresh(c) \/ list(c) \/ refreshed(c) \/ answered(c) \/ failed(c)
                            \/ \E b \in Convs : setConversation(b, c)
                            \/ \E j \in Jobs : createJob(j, c) \/ act(j, c)
        \/ \E j \in Jobs : JobStep(j)
        \/ \E ch \in Channels : handleJobUpdate(ch) \/ opens(ch) \/ closes(ch)

Spec == Init /\ [][Next]_vars
-----------------------------------------------------------------------------
(* Properties                                                              *)

TypeOK == /\ server \in [Jobs -> 0..MaxVersion] /\ open \subseteq Channels
          /\ pushed \in [Channels -> Seq(Job)] /\ call \in [Calls -> Call]
          /\ conv \in Convs /\ jobs \in Seq(Job) /\ quiet \subseteq Calls

\* Updates may be lost, come twice, out of order or before the list they belong
\* to, and a job may be shown twice; a list asked for when nothing else is going
\* on, and answered before anything else happens, mends all of it: each job is
\* there once, as the gateway has it, and all are unless they are more than Limit.
\* What is asked for while anything else goes on may end stale.
RefreshMends ==
    [][\A c \in Calls : quiet = {c} /\ refreshed(c) /\ call[c].conv = conv
          => /\ \A i \in DOMAIN jobs' : jobs'[i] \in Made(conv)
             /\ \A i, k \in DOMAIN jobs' : jobs'[i].id = jobs'[k].id => i = k
             /\ Cardinality(Made(conv)) <= Limit =>
                  \A m \in Made(conv) : \E i \in DOMAIN jobs' : jobs'[i] = m]_vars
=============================================================================
