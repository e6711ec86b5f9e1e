----------------------------- MODULE DeviceFlow -----------------------------
(***************************************************************************)
(* The device flow of the auth worker                                      *)
(* (workers/auth-worker/src/worker.ts): a device shows a code, a user      *)
(* approves it, and the device polls for the session.  Rows of             *)
(* device_codes and sessions of D1; a session that a code refers to cannot *)
(* be deleted.                                                             *)
(***************************************************************************)
EXTENDS Naturals, FiniteSets

CONSTANTS Codes,       \* device codes, each with its user code
          Users,       \* rows of users
          Subjects,    \* what an approval may name; those not in Users fail
          DSessions,   \* ids of sessions
          Approvals,   \* slots for concurrent approvals
          None

DeviceAssumption == Users \subseteq Subjects /\ None \notin Subjects \cup DSessions

VARIABLES code,      \* rows of device_codes
          opened,    \* rows of sessions: id -> user
          approval,  \* approvals in flight
          told,      \* history: the session a poll was first answered with
          raced      \* history: codes whose approvals overlapped

vars == <<code, opened, approval, told, raced>>

Device == [stage : {"unused", "live", "expired"}, user : Subjects \cup {None},
           session : DSessions \cup {None}]
Ended  == {"idle", "ok", "failed"}
Fresh  == [pc |-> "idle", code |-> None, subject |-> None, session |-> None]

Init == /\ code = [c \in Codes |-> [stage |-> "unused", user |-> None, session |-> None]]
        /\ opened = [s \in DSessions |-> None]
        /\ approval = [a \in Approvals |-> Fresh]
        /\ told = [c \in Codes |-> None]
        /\ raced = {}
-----------------------------------------------------------------------------
InFlight(c) == {a \in Approvals : approval[a].code = c /\ approval[a].pc \notin Ended}

Unopened == {s \in DSessions : opened[s] = None}

handleDeviceStart(c) ==
    /\ code[c].stage = "unused"
    /\ code' = [code EXCEPT ![c].stage = "live"]
    /\ UNCHANGED <<opened, approval, told, raced>>

\* Every query asks for expires_at > unixepoch().
Expire(c) == /\ code[c].stage = "live"
             /\ code' = [code EXCEPT ![c].stage = "expired"]
             /\ UNCHANGED <<opened, approval, told, raced>>

\* The SELECT: a code that already has a session keeps it.
handleDeviceApprove_New(a, c, subject) ==
    /\ approval[a].pc \in Ended
    /\ code[c].stage = "live"
    /\ approval' = [approval EXCEPT ![a] =
         [pc |-> "insert", code |-> c, subject |-> subject, session |-> None]]
    /\ raced' = IF InFlight(c) = {} THEN raced ELSE raced \cup {c}
    /\ UNCHANGED <<code, opened, told>>
handleDeviceApprove(a, c, subject) ==
    /\ approval[a].pc \in Ended
    /\ code[c].stage = "live"
    /\ approval' = [approval EXCEPT ![a] =
         [pc |-> IF code[c].session = None THEN "insert" ELSE "update",
          code |-> c, subject |-> subject, session |-> code[c].session]]
    /\ raced' = IF InFlight(c) = {} THEN raced ELSE raced \cup {c}
    /\ UNCHANGED <<code, opened, told>>

approveExpired(a, c) ==
    /\ approval[a].pc \in Ended
    /\ code[c].stage # "live"
    /\ approval' = [approval EXCEPT ![a] = [Fresh EXCEPT !.pc = "failed", !.code = c]]
    /\ UNCHANGED <<code, opened, told, raced>>

\* sessions.user_id references users.
\* Mutant: the foreign key is dropped.
insertSession_NoKey(a) ==
    /\ approval[a].pc = "insert"
    /\ Unopened # {}
    /\ LET s == CHOOSE s \in Unopened : TRUE IN   \* a random name
         /\ opened' = [opened EXCEPT ![s] = approval[a].subject]
         /\ approval' = [approval EXCEPT ![a].pc = "update", ![a].session = s]
    /\ UNCHANGED <<code, told, raced>>
insertSession(a) ==
    /\ approval[a].pc = "insert" /\ approval[a].subject \in Users
    /\ Unopened # {}
    /\ LET s == CHOOSE s \in Unopened : TRUE IN   \* a random name
         /\ opened' = [opened EXCEPT ![s] = approval[a].subject]
         /\ approval' = [approval EXCEPT ![a].pc = "update", ![a].session = s]
    /\ UNCHANGED <<code, told, raced>>

\* The UPDATE names the code by its key, expired or not; both columns are
\* foreign keys.
markApproved(a) ==
    LET p == approval[a] IN
    /\ p.pc = "update"
    /\ p.subject \in Users /\ opened[p.session] # None
    /\ code' = [code EXCEPT ![p.code].user = p.subject, ![p.code].session = p.session]
    /\ approval' = [approval EXCEPT ![a].pc = "ok"]
    /\ UNCHANGED <<opened, told, raced>>

\* A foreign key refuses the statement, or it fails.
fail(a) == /\ approval[a].pc \notin Ended
           /\ approval' = [approval EXCEPT ![a].pc = "failed"]
           /\ UNCHANGED <<code, opened, told, raced>>

\* One SELECT; expired and pending codes are answered without a session.
handleDevicePoll(c) ==
    /\ code[c].stage = "live" /\ code[c].session # None
    /\ told' = [told EXCEPT ![c] = IF @ = None THEN code[c].session ELSE @]
    /\ UNCHANGED <<code, opened, approval, raced>>

\* Logout with the cookie of a session the device was told.
handleLogout(s) ==
    /\ \E c \in Codes : told[c] = s
    /\ opened[s] # None /\ \A c \in Codes : code[c].session # s
    /\ opened' = [opened EXCEPT ![s] = None]
    /\ UNCHANGED <<code, approval, told, raced>>

Next == \/ \E c \in Codes :
             \/ handleDeviceStart(c) \/ Expire(c) \/ handleDevicePoll(c)
             \/ \E a \in Approvals :
                  \/ approveExpired(a, c)
                  \/ \E u \in Subjects : handleDeviceApprove(a, c, u)
        \/ \E a \in Approvals : insertSession(a) \/ markApproved(a) \/ fail(a)
        \/ \E s \in DSessions : handleLogout(s)

Spec == Init /\ [][Next]_vars
-----------------------------------------------------------------------------
(* Properties                                                              *)

TypeOK == /\ code \in [Codes -> Device]
          /\ opened \in [DSessions -> Users \cup {None}]
          /\ approval \in [Approvals -> [
                pc : Ended \cup {"insert", "update"}, code : Codes \cup {None},
                subject : Subjects \cup {None}, session : DSessions \cup {None}]]
          /\ told \in [Codes -> DSessions \cup {None}]
          /\ raced \subseteq Codes

\* A device that polls again is given the session it was given before, and that
\* session is still stored, however often its code is approved, by whomever, and
\* whichever of those approvals fail, unless two of them overlapped.
DeviceKeepsSession ==
    \A c \in Codes : told[c] # None /\ c \notin raced =>
        /\ code[c].session = told[c]
        /\ opened[told[c]] # None
=============================================================================
