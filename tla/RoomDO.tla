------------------------------- MODULE RoomDO -------------------------------
(***************************************************************************)
(* The signalling room (workers/rtc-worker/src/worker.ts): a Durable       *)
(* Object that keeps the sockets that said hello in memory and fans out    *)
(* what they send.  Each event of a socket is handled to its end before    *)
(* the next one.  A send to a socket that is gone is swallowed.            *)
(***************************************************************************)
EXTENDS Integers, FiniteSets, Sequences

CONSTANTS Sockets, MaxInbox   \* bound: messages a client has not read yet

VARIABLES link,     \* the server's end of each socket
          sockets,  \* this.sockets
          inbox,    \* what the server sent to each client, unread
          shown     \* the number of people online each client shows, or Claimed

vars == <<link, sockets, inbox, shown>>

RoomAssumption == IsFiniteSet(Sockets) /\ MaxInbox \in Nat

\* The number a client put into its own presence.update.
Claimed == -1
Message == [type : {"presence"}, online : 0..Cardinality(Sockets) \cup {Claimed}]
           \cup [type : {"other"}]     \* an ack, a signal or a ping

Init == /\ link = [s \in Sockets |-> "none"]
        /\ sockets = {}
        /\ inbox = [s \in Sockets |-> << >>]
        /\ shown = [s \in Sockets |-> 0]
-----------------------------------------------------------------------------
Presence(n) == [type |-> "presence", online |-> n]
Put(s, m)   == IF link[s] = "open" THEN Append(inbox[s], m) ELSE inbox[s]
Room(s)     == \A t \in Sockets : Len(inbox[t]) < MaxInbox - (IF t = s THEN 1 ELSE 0)

\* The upgrade; the socket is accepted and belongs to no room yet.
fetch(s) == /\ link[s] = "none"
            /\ link' = [link EXCEPT ![s] = "open"]
            /\ UNCHANGED <<sockets, inbox, shown>>

heartbeat(s) == /\ link[s] = "open" /\ Room(s)
                /\ inbox' = [inbox EXCEPT ![s] = Put(s, [type |-> "other"])]
                /\ UNCHANGED <<link, sockets, shown>>

\* Mutant: the count goes to those who were there before.
hello_Others(s) ==
    LET news == IF s \in sockets THEN {} ELSE sockets
        n    == Cardinality(sockets \cup {s}) IN
    /\ link[s] = "open" /\ Room(s)
    /\ sockets' = sockets \cup {s}
    /\ inbox' = [t \in Sockets |->
         LET q == IF t \in news THEN Put(t, Presence(n)) ELSE inbox[t] IN
         IF t = s THEN Append(q, [type |-> "other"]) ELSE q]
    /\ UNCHANGED <<link, shown>>
\* The first hello attaches the socket and tells everyone, itself too; every
\* hello is acknowledged.
hello(s) ==
    LET news == IF s \in sockets THEN {} ELSE sockets \cup {s}
        n    == Cardinality(sockets \cup {s}) IN
    /\ link[s] = "open" /\ Room(s)
    /\ sockets' = sockets \cup {s}
    /\ inbox' = [t \in Sockets |->
         LET q == IF t \in news THEN Put(t, Presence(n)) ELSE inbox[t] IN
         IF t = s THEN Append(q, [type |-> "other"]) ELSE q]
    /\ UNCHANGED <<link, shown>>

\* An SDP or ICE payload, or a presence payload of a client, reaches everyone but
\* its sender, whomever it names, and from a socket that never said hello too.
\* The count of a presence payload, if it has one, is the client's own.
signal(s) ==
    /\ link[s] = "open" /\ Room(s)
    /\ inbox' = [t \in Sockets |-> IF t \in sockets \ {s}
                                   THEN Put(t, [type |-> "other"]) ELSE inbox[t]]
    /\ UNCHANGED <<link, sockets, shown>>
presenceUpdate(s) ==
    /\ link[s] = "open" /\ Room(s)
    /\ inbox' = [t \in Sockets |-> IF t \in sockets \ {s}
                                   THEN Put(t, Presence(Claimed)) ELSE inbox[t]]
    /\ UNCHANGED <<link, sockets, shown>>

\* The close or the error event, of a socket attached or not.  The client is
\* gone, with what it had not read.
close(s) ==
    /\ link[s] = "open" /\ Room(s)
    /\ link' = [link EXCEPT ![s] = "closed"]
    /\ sockets' = sockets \ {s}
    /\ inbox' = [t \in Sockets |->
         IF t = s THEN << >>
         ELSE IF t \in sockets
              THEN Put(t, Presence(Cardinality(sockets \ {s}))) ELSE inbox[t]]
    /\ UNCHANGED shown

\* External: the client reads its next message.
ClientReads(s) ==
    /\ inbox[s] # << >>
    /\ inbox' = [inbox EXCEPT ![s] = Tail(@)]
    /\ shown' = [shown EXCEPT ![s] =
         IF Head(inbox[s]).type = "presence" THEN Head(inbox[s]).online ELSE @]
    /\ UNCHANGED <<link, sockets>>

Next == \E s \in Sockets : \/ fetch(s) \/ heartbeat(s) \/ hello(s) \/ signal(s) \/ presenceUpdate(s)
                           \/ close(s) \/ ClientReads(s)

Spec == Init /\ [][Next]_vars
-----------------------------------------------------------------------------
(* Properties                                                              *)

TypeOK == /\ link \in [Sockets -> {"none", "open", "closed"}]
          /\ sockets \subseteq Sockets
          /\ inbox \in [Sockets -> Seq(Message)]
          /\ shown \in [Sockets -> 0..Cardinality(Sockets) \cup {Claimed}]

\* A member of the room that has read all it was sent shows the number of
\* members there are, or one that another client sent after that: whatever
\* joined and left, and in whatever order, nobody is left with a count the room
\* had earlier.
CountsAgree ==
    \A s \in sockets : inbox[s] = << >> => shown[s] \in {Cardinality(sockets), Claimed}
=============================================================================
