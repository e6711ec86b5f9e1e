------------------------------ MODULE ChatPage ------------------------------
(***************************************************************************)
(* The chat page of the messenger (pages/ChatPage.tsx over ublApi.ts): the *)
(* messages it holds, the optimistic one of each send, the events of the   *)
(* stream that add messages, and the conversations it makes.               *)
(*                                                                         *)
(* The handlers given to useSSE are those of the first render: they go on  *)
(* comparing with the conversation of that render (first).  An optimistic  *)
(* message is named by the millisecond of its send.  The stream delivers   *)
(* an event at least once while the page is there (EventStream).           *)
(***************************************************************************)
EXTENDS Naturals, Sequences, FiniteSets, SequencesExt

CONSTANTS Sends,     \* what the user sends
          Convs,     \* conversations of the bootstrap
          People,    \* whose profile the user opens
          Demo,      \* isDemoMode
          MaxMs,     \* bound: milliseconds that pass
          MaxShown   \* bound: messages shown

VARIABLES now,       \* Date.now()
          loading,   \* isLoading, and the snapshot of the bootstrap answer
          route,     \* conversationId
          first,     \* conversationId of the first render
          messages,  \* the messages held
          send,      \* the sends
          log,       \* gateway: the messages stored
          direct,    \* conversations with one other person, oldest first
          making     \* createConversation calls in flight, by person

vars == <<now, loading, route, first, messages, send, log, direct, making>>

\* A message has the id of its send, or the millisecond.
Ids     == 0..MaxMs \cup Sends
Statuses == {"pending", "sent", "failed"}
Message == [id : Ids, of : Sends, status : Statuses, appended : BOOLEAN]
Send    == [pc : {"unsent", "calling", "ok", "failed"}, at : 0..MaxMs, conv : Convs]

ChatAssumption == MaxMs \in Nat /\ Sends \cap 0..MaxMs = {}

Init == /\ now = 0
        /\ loading = ~Demo
        /\ route \in Convs /\ first = route
        /\ messages = << >>
        /\ send = [s \in Sends |-> [pc |-> "unsent", at |-> 0, conv |-> route]]
        /\ log = {}
        /\ direct = << >>
        /\ making = [p \in People |-> 0]
-----------------------------------------------------------------------------
Tick == /\ now < MaxMs /\ now' = now + 1
        /\ UNCHANGED <<loading, route, first, messages, send, log, direct, making>>

Shown(m) == /\ Len(messages) < MaxShown
            /\ messages' = Append(messages, m)

\* The bootstrap replaces what is held, what the stream added meanwhile too; or
\* the gateway is away and the page stays as it is.  Nothing is sent before.
loadData ==
    /\ loading
    /\ loading' = FALSE
    /\ messages' \in {messages, << >>}
    /\ UNCHANGED <<now, route, first, send, log, direct, making>>

handleSelectConversation(c) ==
    /\ ~loading /\ route' = c
    /\ UNCHANGED <<now, loading, first, messages, send, log, direct, making>>

handleSendMessage(s) ==
    /\ ~loading /\ send[s].pc = "unsent"
    /\ Shown([id |-> now, of |-> s, status |-> "pending", appended |-> FALSE])
    /\ send' = [send EXCEPT ![s] = [pc |-> "calling", at |-> now, conv |-> route]]
    /\ UNCHANGED <<now, loading, route, first, log, direct, making>>

\* The gateway stores it; the answer may still be lost.
store(s) == /\ send[s].pc = "calling" /\ ~Demo /\ s \notin log
            /\ log' = log \cup {s}
            /\ UNCHANGED <<now, loading, route, first, messages, send, direct, making>>

\* Every message with the id of the optimistic one.
Replace(id, F(_)) == [i \in DOMAIN messages |->
                        IF messages[i].id = id THEN F(messages[i]) ELSE messages[i]]

\* Mutant: the message answered is the last one.
answered_Last(s) ==
    /\ send[s].pc = "calling" /\ (Demo \/ s \in log)
    /\ send' = [send EXCEPT ![s].pc = "ok"]
    /\ messages' = [messages EXCEPT ![Len(messages)].id = s, ![Len(messages)].status = "sent"]
    /\ UNCHANGED <<now, loading, route, first, log, direct, making>>
answered(s) ==
    /\ send[s].pc = "calling" /\ (Demo \/ s \in log)
    /\ send' = [send EXCEPT ![s].pc = "ok"]
    /\ messages' = Replace(send[s].at, LAMBDA m :
         [m EXCEPT !.id = IF Demo THEN @ ELSE s, !.status = "sent"])
    /\ UNCHANGED <<now, loading, route, first, log, direct, making>>

\* A refusal, or the answer lost: the message may be stored all the same.
refused(s) ==
    /\ send[s].pc = "calling" /\ ~Demo
    /\ send' = [send EXCEPT ![s].pc = "failed"]
    /\ messages' = Replace(send[s].at, LAMBDA m : [m EXCEPT !.status = "failed"])
    /\ UNCHANGED <<now, loading, route, first, log, direct, making>>

\* timeline.append of a message of the conversation of the first render; the
\* user's own comes back too, and is not looked for among those held.
timelineAppend(s) ==
    /\ s \in log /\ send[s].conv = first
    /\ Shown([id |-> s, of |-> s, status |-> "sent", appended |-> TRUE])
    /\ UNCHANGED <<now, loading, route, first, send, log, direct, making>>

\* From a profile: the conversation there is, or a new one.
handleStartChatFromProfile(p) ==
    /\ ~loading /\ ~Contains(direct, p)
    /\ making[p] < 2 /\ making' = [making EXCEPT ![p] = @ + 1]
    /\ UNCHANGED <<now, loading, route, first, messages, send, log, direct>>
handleCreateWorkstream(p, ok) ==
    /\ making[p] > 0 /\ making' = [making EXCEPT ![p] = @ - 1]
    /\ direct' = IF ok THEN <<p>> \o direct ELSE direct
    /\ UNCHANGED <<now, loading, route, first, messages, send, log>>

Next == \/ Tick \/ loadData
        \/ \E c \in Convs : handleSelectConversation(c)
        \/ \E s \in Sends : \/ handleSendMessage(s) \/ store(s) \/ answered(s)
                            \/ refused(s) \/ timelineAppend(s)
        \/ \E p \in People : \/ handleStartChatFromProfile(p)
                             \/ \E ok \in BOOLEAN : handleCreateWorkstream(p, ok)

Spec == Init /\ [][Next]_vars
-----------------------------------------------------------------------------
(* Properties                                                              *)

TypeOK == /\ now \in 0..MaxMs /\ loading \in BOOLEAN /\ {route, first} \subseteq Convs
          /\ messages \in Seq(Message) /\ send \in [Sends -> Send] /\ log \subseteq Sends
          /\ direct \in Seq(People) /\ making \in [People -> 0..2]

\* The message of a send shows what became of that send, whatever other sends
\* were answered or refused meanwhile, as long as no other was sent in the same
\* millisecond; it is neither lost nor shown twice by itself.  (Two of one
\* millisecond are both given the answer of the first.)
Own(s) == {i \in DOMAIN messages : messages[i].of = s /\ ~messages[i].appended}
Status(pc) == CASE pc = "calling" -> "pending" [] pc = "ok" -> "sent" [] OTHER -> "failed"
OwnOutcome ==
    \A s \in Sends :
        /\ send[s].pc # "unsent"
        /\ \A t \in Sends \ {s} : send[t].pc # "unsent" => send[t].at # send[s].at
        => \E i \in Own(s) : Own(s) = {i} /\ messages[i].status = Status(send[s].pc)
=============================================================================
