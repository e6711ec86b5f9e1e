---------------------------- MODULE WorkersProofs ----------------------------
(***************************************************************************)
(* Of every part of Workers, the inductive invariant its property needs,   *)
(* and the theorems of the composition: Spec implies the specification of  *)
(* each part, since a step is one of a single part.  Lemmas are about the  *)
(* instances of Workers, under the assumptions it makes on its constants.  *)
(***************************************************************************)
EXTENDS Workers, Sequences, FiniteSetTheorems, TLAPS
-----------------------------------------------------------------------------
(***************************************************************************)
(* RoomDO.  A client shows an old count as long as it has messages to      *)
(* read; Knows says what it will show when it has read them all.           *)
(***************************************************************************)

\* A client that shows v and then reads all of q shows n, or what another client
\* claimed after that.
Right(v, n)    == v = n \/ v = R!Claimed
Quiet(q)       == \A i \in DOMAIN q : q[i].type # "presence"
LastSays(q, n) == \E i \in DOMAIN q : /\ q[i].type = "presence" /\ Right(q[i].online, n)
                                      /\ \A j \in DOMAIN q : j > i => q[j].type # "presence"
Knows(q, v, n) == (Right(v, n) /\ Quiet(q)) \/ LastSays(q, n)

Members == \A s \in sockets : link[s] = "open" /\ Knows(inbox[s], shown[s], R!Cardinality(sockets))

RInv == R!TypeOK /\ Members

LEMMA KnowsAfterOther ==
    ASSUME NEW q \in Seq(R!Message), NEW v, NEW n, NEW m \in R!Message, m.type # "presence",
           Knows(q, v, n)
    PROVE  Knows(Append(q, m), v, n)
<1> SUFFICES ASSUME NEW p, p = Append(q, m) PROVE Knows(p, v, n)
  OBVIOUS
<1>1. /\ DOMAIN q = 1..Len(q) /\ DOMAIN p = 1..(Len(q) + 1) /\ Len(q) \in Nat
      /\ \A i \in 1..Len(q) : p[i] = q[i]
      /\ p[Len(q) + 1] = m
  OBVIOUS
<1>2. CASE Right(v, n) /\ Quiet(q)
  BY <1>1, <1>2 DEF Knows, Quiet, LastSays
<1>3. CASE LastSays(q, n)
  <2> PICK i \in DOMAIN q : /\ q[i].type = "presence" /\ Right(q[i].online, n)
                            /\ \A j \in DOMAIN q : j > i => q[j].type # "presence"
    BY <1>3 DEF LastSays
  <2>1. i \in DOMAIN p /\ p[i].type = "presence" /\ Right(p[i].online, n)
    BY <1>1
  <2>2. \A j \in DOMAIN p : j > i => p[j].type # "presence"
    BY <1>1
  <2> QED BY <2>1, <2>2 DEF Knows, LastSays
<1> QED BY <1>2, <1>3 DEF Knows

LEMMA KnowsAfterPresence ==
    ASSUME NEW q \in Seq(R!Message), NEW v, NEW n, NEW m, Right(m, n)
    PROVE  Knows(Append(q, R!Presence(m)), v, n)
<1> DEFINE p == Append(q, R!Presence(m))
<1>1. /\ DOMAIN p = 1..(Len(q) + 1) /\ Len(q) \in Nat
      /\ p[Len(q) + 1] = R!Presence(m)
  OBVIOUS
<1>2. R!Presence(m).type = "presence" /\ R!Presence(m).online = m
  BY DEF R!Presence
<1> HIDE DEF p
<1>3. Knows(p, v, n)
  BY <1>1, <1>2 DEF Knows, LastSays
<1> QED BY <1>3 DEF p

\* Reading the next message does not change what is known in the end.
LEMMA KnowsAfterRead ==
    ASSUME NEW q \in Seq(R!Message), q # << >>, NEW v, NEW n, Knows(q, v, n)
    PROVE  Knows(Tail(q), IF Head(q).type = "presence" THEN Head(q).online ELSE v, n)
<1> SUFFICES ASSUME NEW p, p = Tail(q),
                    NEW w, w = IF Head(q).type = "presence" THEN Head(q).online ELSE v
             PROVE  Knows(p, w, n)
  OBVIOUS
<1>1. /\ DOMAIN q = 1..Len(q) /\ DOMAIN p = 1..(Len(q) - 1) /\ Len(q) \in Nat \ {0}
      /\ \A i \in 1..(Len(q) - 1) : p[i] = q[i + 1]
      /\ Head(q) = q[1]
  OBVIOUS
<1>2. CASE Right(v, n) /\ Quiet(q)
  BY <1>1, <1>2 DEF Knows, Quiet, LastSays
<1>3. CASE LastSays(q, n)
  <2> PICK i \in DOMAIN q : /\ q[i].type = "presence" /\ Right(q[i].online, n)
                            /\ \A j \in DOMAIN q : j > i => q[j].type # "presence"
    BY <1>3 DEF LastSays
  <2>1. CASE i = 1
    <3>1. Right(w, n)
      BY <1>1, <2>1
    <3>2. \A j \in DOMAIN p : p[j].type # "presence"
      BY <1>1, <2>1
    <3> QED BY <3>1, <3>2 DEF Knows, Quiet
  <2>2. CASE i # 1
    <3>1. i - 1 \in DOMAIN p /\ p[i - 1].type = "presence" /\ Right(p[i - 1].online, n)
      BY <1>1, <2>2
    <3>2. \A j \in DOMAIN p : j > i - 1 => p[j].type # "presence"
      BY <1>1, <2>2
    <3> QED BY <3>1, <3>2 DEF Knows, LastSays
  <2> QED BY <2>1, <2>2
<1> QED BY <1>2, <1>3 DEF Knows

\* There are at most as many members as sockets.
LEMMA RoomSize ==
    ASSUME R!RoomAssumption, NEW T \in SUBSET Sockets
    PROVE  R!Cardinality(T) \in 0..R!Cardinality(Sockets)
<1>1. IsFiniteSet(Sockets)
  BY DEF R!RoomAssumption, R!IsFiniteSet, IsFiniteSet
<1>2. IsFiniteSet(T) /\ Cardinality(T) <= Cardinality(Sockets)
  BY <1>1, FS_Subset
<1>3. Cardinality(T) \in Nat /\ Cardinality(Sockets) \in Nat
  BY <1>1, <1>2, FS_CardinalityType
<1>4. \A A : R!Cardinality(A) = Cardinality(A)
  BY DEF R!Cardinality, Cardinality
<1> QED BY <1>2, <1>3, <1>4

LEMMA Messages ==
    /\ \A n \in 0..R!Cardinality(Sockets) : R!Presence(n) \in R!Message
    /\ R!Presence(R!Claimed) \in R!Message
    /\ [type |-> "other"] \in R!Message
BY DEF R!Message, R!Presence

LEMMA AppendTyped ==
    ASSUME NEW q \in Seq(R!Message), NEW m \in R!Message
    PROVE  Append(q, m) \in Seq(R!Message)
OBVIOUS

LEMMA PutTyped ==
    ASSUME R!TypeOK, NEW s \in Sockets, NEW m \in R!Message
    PROVE  R!Put(s, m) \in Seq(R!Message)
BY AppendTyped DEF R!Put, R!TypeOK

LEMMA RoomInit ==
    ASSUME R!RoomAssumption, R!Init PROVE RInv
<1>1. 0 \in 0..R!Cardinality(Sockets)
  BY RoomSize
<1> QED BY <1>1 DEF R!Init, RInv, R!TypeOK, Members

\* What a step may send: messages that are no presence, or claim a count, when the
\* members stay; the new count to every member, when they change.
LEMMA SendStep ==
    ASSUME R!RoomAssumption, RInv, NEW s \in Sockets,
           R!heartbeat(s) \/ R!signal(s) \/ R!presenceUpdate(s)
    PROVE  RInv'
<1>1. [type |-> "other"] \in R!Message /\ R!Presence(R!Claimed) \in R!Message
      /\ Right(R!Claimed, R!Cardinality(sockets))
  BY Messages DEF Right
<1>2. R!TypeOK'
  <2>1. CASE R!heartbeat(s)
    <3>1. R!Put(s, [type |-> "other"]) \in Seq(R!Message)
      BY <1>1, PutTyped DEF RInv
    <3> QED BY <2>1, <3>1 DEF RInv, R!TypeOK, R!heartbeat
  <2>2. CASE R!signal(s)
    <3>1. \A t \in Sockets : R!Put(t, [type |-> "other"]) \in Seq(R!Message)
      BY <1>1, PutTyped DEF RInv
    <3> QED BY <2>2, <3>1 DEF RInv, R!TypeOK, R!signal
  <2>3. CASE R!presenceUpdate(s)
    <3>1. \A t \in Sockets : R!Put(t, R!Presence(R!Claimed)) \in Seq(R!Message)
      BY <1>1, PutTyped DEF RInv
    <3> QED BY <2>3, <3>1 DEF RInv, R!TypeOK, R!presenceUpdate
  <2> QED BY <2>1, <2>2, <2>3
<1>3. UNCHANGED <<link, sockets, shown>>
  BY DEF R!heartbeat, R!signal, R!presenceUpdate
<1>4. ASSUME NEW t \in sockets
      PROVE  Knows(inbox'[t], shown[t], R!Cardinality(sockets))
  <2>1. t \in Sockets /\ inbox[t] \in Seq(R!Message) /\ Knows(inbox[t], shown[t], R!Cardinality(sockets))
    BY DEF RInv, R!TypeOK, Members
  <2>2. \/ inbox'[t] = inbox[t]
        \/ inbox'[t] = Append(inbox[t], [type |-> "other"])
        \/ inbox'[t] = Append(inbox[t], R!Presence(R!Claimed))
    BY <2>1 DEF RInv, R!TypeOK, R!heartbeat, R!signal, R!presenceUpdate, R!Put
  <2>3. [type |-> "other"].type # "presence"
    OBVIOUS
  <2> QED BY <1>1, <2>1, <2>2, <2>3, KnowsAfterOther, KnowsAfterPresence
<1>5. Members'
  BY <1>3, <1>4 DEF Members, RInv
<1> QED BY <1>2, <1>5 DEF RInv

LEMMA HelloStep ==
    ASSUME R!RoomAssumption, RInv, NEW s \in Sockets, R!hello(s)
    PROVE  RInv'
<1> DEFINE n == R!Cardinality(sockets \cup {s})
           ack == [type |-> "other"]
           heard == IF s \in sockets THEN inbox[s] ELSE Append(inbox[s], R!Presence(n))
<1>1. sockets \cup {s} \subseteq Sockets /\ inbox \in [Sockets -> Seq(R!Message)]
      /\ link[s] = "open" /\ sockets' = sockets \cup {s} /\ UNCHANGED <<link, shown>>
  BY DEF RInv, R!TypeOK, R!hello
<1>2. n \in 0..R!Cardinality(Sockets) /\ Right(n, n)
  BY <1>1, RoomSize DEF Right
<1>3. R!Presence(n) \in R!Message /\ ack \in R!Message /\ ack.type # "presence"
  BY <1>2, Messages
<1>4. inbox'[s] = Append(heard, ack)
  BY <1>1 DEF R!hello, R!Put
<1>5. \A t \in sockets \ {s} :
         inbox'[t] = IF s \in sockets THEN inbox[t] ELSE Append(inbox[t], R!Presence(n))
  BY <1>1 DEF R!hello, R!Put, RInv, Members
<1>6. R!TypeOK'
  <2>1. \A t \in Sockets : R!Put(t, R!Presence(n)) \in Seq(R!Message)
    BY <1>3, PutTyped DEF RInv
  <2>2. \A t \in Sockets : inbox[t] \in Seq(R!Message)
    BY <1>1
  <2>3. \A q \in Seq(R!Message) : Append(q, ack) \in Seq(R!Message)
    BY <1>3, AppendTyped
  <2>4. inbox' \in [Sockets -> Seq(R!Message)]
    BY <2>1, <2>2, <2>3 DEF R!hello
  <2> QED BY <1>1, <2>4 DEF RInv, R!TypeOK
<1>7. s \in sockets => n = R!Cardinality(sockets)
  <2>1. s \in sockets => sockets \cup {s} = sockets
    OBVIOUS
  <2> QED BY <2>1
<1> HIDE DEF n
<1>8. Knows(inbox'[s], shown[s], n)
  <2>1. heard \in Seq(R!Message)
    BY <1>1, <1>3
  <2>2. Knows(heard, shown[s], n)
    <3>1. CASE s \in sockets
      BY <1>7, <3>1 DEF RInv, Members
    <3>2. CASE s \notin sockets
      BY <1>1, <1>2, <3>2, KnowsAfterPresence
    <3> QED BY <3>1, <3>2
  <2> HIDE DEF heard, ack
  <2> QED BY <1>3, <1>4, <2>1, <2>2, KnowsAfterOther
<1>9. ASSUME NEW t \in sockets \ {s} PROVE Knows(inbox'[t], shown[t], n)
  <2>1. inbox[t] \in Seq(R!Message) /\ Knows(inbox[t], shown[t], R!Cardinality(sockets))
    BY <1>1 DEF RInv, Members
  <2> QED BY <1>2, <1>5, <1>7, <2>1, KnowsAfterPresence
<1>10. Members'
  BY <1>1, <1>8, <1>9 DEF RInv, Members, n
<1> QED BY <1>6, <1>10 DEF RInv

LEMMA CloseStep ==
    ASSUME R!RoomAssumption, RInv, NEW s \in Sockets, R!close(s)
    PROVE  RInv'
<1> DEFINE n == R!Cardinality(sockets \ {s})
<1>1. sockets \ {s} \subseteq Sockets /\ inbox \in [Sockets -> Seq(R!Message)]
      /\ link' = [link EXCEPT ![s] = "closed"]
      /\ sockets' = sockets \ {s} /\ UNCHANGED shown
  BY DEF RInv, R!TypeOK, R!close
<1>2. n \in 0..R!Cardinality(Sockets) /\ Right(n, n)
  BY <1>1, RoomSize DEF Right
<1>3. R!Presence(n) \in R!Message
  BY <1>2, Messages
<1>4. \A t \in sockets \ {s} : inbox'[t] = Append(inbox[t], R!Presence(n)) /\ link'[t] = "open"
  BY <1>1 DEF R!close, R!Put, RInv, Members, R!TypeOK
<1>5. R!TypeOK'
  <2>1. \A t \in Sockets : R!Put(t, R!Presence(n)) \in Seq(R!Message)
    BY <1>3, PutTyped DEF RInv
  <2>2. << >> \in Seq(R!Message) /\ \A t \in Sockets : inbox[t] \in Seq(R!Message)
    BY <1>1
  <2>4. inbox' \in [Sockets -> Seq(R!Message)]
    BY <2>1, <2>2 DEF R!close
  <2> QED BY <1>1, <2>4 DEF RInv, R!TypeOK
<1>6. ASSUME NEW t \in sockets \ {s} PROVE Knows(inbox'[t], shown[t], n)
  <2>1. inbox[t] \in Seq(R!Message)
    BY <1>1
  <2> HIDE DEF n
  <2> QED BY <1>2, <1>4, <2>1, KnowsAfterPresence
<1>7. Members'
  BY <1>1, <1>4, <1>6 DEF RInv, Members
<1> QED BY <1>5, <1>7 DEF RInv

LEMMA ReadStep ==
    ASSUME R!RoomAssumption, RInv, NEW s \in Sockets, R!ClientReads(s)
    PROVE  RInv'
<1>1. /\ inbox[s] \in Seq(R!Message) /\ inbox[s] # << >> /\ Head(inbox[s]) \in R!Message
      /\ Tail(inbox[s]) \in Seq(R!Message)
      /\ inbox' = [inbox EXCEPT ![s] = Tail(inbox[s])]
      /\ UNCHANGED <<link, sockets>>
  BY DEF RInv, R!TypeOK, R!ClientReads
<1>2. /\ shown'[s] = (IF Head(inbox[s]).type = "presence" THEN Head(inbox[s]).online ELSE shown[s])
      /\ \A t \in Sockets \ {s} : shown'[t] = shown[t]
  BY DEF RInv, R!TypeOK, R!ClientReads
<1>3. R!TypeOK'
  <2>1. Head(inbox[s]).type = "presence"
           => Head(inbox[s]).online \in 0..R!Cardinality(Sockets) \cup {R!Claimed}
    BY <1>1 DEF R!Message
  <2> QED BY <1>1, <2>1 DEF RInv, R!TypeOK, R!ClientReads
<1>4. s \in sockets => Knows(inbox'[s], shown'[s], R!Cardinality(sockets))
  BY <1>1, <1>2, KnowsAfterRead DEF RInv, R!TypeOK, Members
<1>5. Members'
  BY <1>1, <1>2, <1>4 DEF RInv, R!TypeOK, Members
<1> QED BY <1>3, <1>5 DEF RInv

LEMMA RoomInductive ==
    ASSUME R!RoomAssumption PROVE R!Spec => []RInv
<1>1. R!Init => RInv
  BY RoomInit
<1>2. RInv /\ [R!Next]_R!vars => RInv'
  <2> SUFFICES ASSUME RInv, [R!Next]_R!vars PROVE RInv'
    OBVIOUS
  <2>1. CASE UNCHANGED R!vars
    BY <2>1 DEF R!vars, RInv, R!TypeOK, Members
  <2>2. ASSUME NEW s \in Sockets, R!fetch(s) PROVE RInv'
    BY <2>2 DEF R!fetch, RInv, R!TypeOK, Members
  <2> QED BY <2>1, <2>2, SendStep, HelloStep, CloseStep, ReadStep DEF R!Next
<1> QED BY <1>1, <1>2, PTL DEF R!Spec
-----------------------------------------------------------------------------
(***************************************************************************)
(* Webhooks.  An event answered is marked; a delivery that came after it   *)
(* finds the mark, or is no longer late.                                   *)
(***************************************************************************)

FindsMark == \A k \in WCalls : dcall[k].late =>
    dcall[k].named /\ dcall[k].event \in marked /\ dcall[k].pc \notin {"mark", "process"}

WInv == W!TypeOK /\ wdone \subseteq marked /\ FindsMark

DCall == [pc : W!Ended \cup {"lookup", "mark", "process"}, event : Events,
          named : BOOLEAN, late : BOOLEAN]

\* A delivery goes on.
LEMMA DeliveryMoves ==
    ASSUME WInv, NEW k \in WCalls, NEW pc \in W!Ended \cup {"lookup", "mark", "process"},
           W!Goto(k, pc), marked \subseteq marked', marked' \subseteq Events, dlq' \subseteq Events,
           wdone' \subseteq marked', dcall[k].late => pc \notin {"mark", "process"}
    PROVE  WInv'
<1>1. dcall \in [WCalls -> DCall]
  BY DEF WInv, W!TypeOK, DCall
<1>2. dcall' = [dcall EXCEPT ![k].pc = pc]
  BY DEF W!Goto
<1>3. /\ dcall' \in [WCalls -> DCall]
      /\ dcall'[k].pc = pc /\ dcall'[k].event = dcall[k].event /\ dcall'[k].late = dcall[k].late
      /\ dcall'[k].named = dcall[k].named
      /\ \A j \in WCalls \ {k} : dcall'[j] = dcall[j]
  BY <1>1, <1>2 DEF DCall
<1>4. FindsMark'
  BY <1>3 DEF WInv, FindsMark
<1>5. W!TypeOK'
  BY <1>3 DEF W!TypeOK, DCall
<1> QED BY <1>4, <1>5 DEF WInv

LEMMA DeliveryStep ==
    ASSUME WInv, NEW k \in WCalls, W!lookup(k) \/ W!mark(k) \/ W!process(k) \/ W!fail(k)
    PROVE  WInv'
<1>1. dcall \in [WCalls -> DCall] /\ marked \subseteq Events /\ dlq \subseteq Events
      /\ wdone \subseteq marked /\ dcall[k].event \in Events
  BY DEF WInv, W!TypeOK, DCall
<1>2. CASE W!lookup(k)
  <2>1. dcall[k].late => dcall[k].named /\ dcall[k].event \in marked
    BY DEF WInv, FindsMark
  <2>2. PICK pc \in {"cached", "mark"} : W!Goto(k, pc)
          /\ (dcall[k].named /\ pc = "mark" => dcall[k].event \notin marked)
    BY <1>2 DEF W!lookup
  <2>3. pc \in W!Ended \cup {"lookup", "mark", "process"}
    BY DEF W!Ended
  <2> QED BY <1>1, <1>2, <2>1, <2>2, <2>3, DeliveryMoves DEF W!lookup
<1>3. CASE W!mark(k)
  <2>1. ~dcall[k].late
    BY <1>3 DEF W!mark, W!At, WInv, FindsMark
  <2> QED BY <1>1, <1>3, <2>1, DeliveryMoves DEF W!mark
<1>4. CASE W!process(k)
  <2>1. PICK pc \in {"ok", "processing_failed"} : W!Goto(k, pc)
    BY <1>4 DEF W!process
  <2>2. pc \in W!Ended \cup {"lookup", "mark", "process"}
    BY DEF W!Ended
  <2>3. dlq' \subseteq Events /\ wdone' \subseteq marked /\ marked' = marked
    BY <1>1, <1>4 DEF W!process
  <2> QED BY <1>1, <2>1, <2>2, <2>3, DeliveryMoves
<1>5. CASE W!fail(k)
  <2>1. "failed" \in W!Ended \cup {"lookup", "mark", "process"}
    BY DEF W!Ended
  <2> QED BY <1>1, <1>5, <2>1, DeliveryMoves DEF W!fail
<1> QED BY <1>2, <1>3, <1>4, <1>5

LEMMA DeliverStep ==
    ASSUME WInv, NEW k \in WCalls, NEW e \in Events, NEW n \in BOOLEAN, NEW f \in W!Faults,
           W!deliver(k, e, n, f)
    PROVE  WInv'
<1> DEFINE x == [pc |-> IF f = "none" THEN "lookup" ELSE f, event |-> e,
                 named |-> n, late |-> n /\ e \in wdone]
<1>1. dcall \in [WCalls -> DCall] /\ marked \subseteq Events /\ dlq \subseteq Events
      /\ wdone \subseteq marked
  BY DEF WInv, W!TypeOK, DCall
<1>2. dcall' = [dcall EXCEPT ![k] = x] /\ UNCHANGED <<marked, wdone>>
      /\ dlq' \subseteq Events
  BY <1>1 DEF W!deliver
<1>3. x \in DCall
  <2>1. (n /\ e \in wdone) \in BOOLEAN
    OBVIOUS
  <2>2. (IF f = "none" THEN "lookup" ELSE f) \in W!Ended \cup {"lookup"}
    BY DEF W!Ended, W!Faults
  <2> QED BY <2>1, <2>2 DEF DCall
<1>4. x.event = e /\ x.pc \notin {"mark", "process"} /\ (x.late => x.named /\ e \in marked)
  BY <1>1 DEF W!Faults
<1> HIDE DEF x
<1>5. dcall' \in [WCalls -> DCall] /\ dcall'[k] = x /\ \A j \in WCalls \ {k} : dcall'[j] = dcall[j]
  BY <1>1, <1>2, <1>3
<1>6. FindsMark'
  BY <1>2, <1>4, <1>5 DEF WInv, FindsMark
<1>7. W!TypeOK'
  BY <1>1, <1>2, <1>5 DEF W!TypeOK, DCall
<1> QED BY <1>1, <1>2, <1>6, <1>7 DEF WInv

LEMMA MarkExpires ==
    ASSUME WInv, NEW e \in Events, W!Expire(e)
    PROVE  WInv'
<1>1. dcall \in [WCalls -> DCall] /\ wdone \subseteq marked /\ marked \subseteq Events
  BY DEF WInv, W!TypeOK, DCall
<1>2. /\ marked' = marked \ {e} /\ wdone' = wdone \ {e} /\ dlq' = dlq
      /\ dcall' = [k \in WCalls |-> IF dcall[k].event = e THEN [dcall[k] EXCEPT !.late = FALSE] ELSE dcall[k]]
  BY DEF W!Expire
<1>3. \A k \in WCalls : dcall[k] \in DCall /\ [dcall[k] EXCEPT !.late = FALSE] \in DCall
  BY <1>1 DEF DCall
<1>4. dcall' \in [WCalls -> DCall]
  BY <1>2, <1>3
<1>5. ASSUME NEW k \in WCalls, dcall'[k].late
      PROVE  dcall[k].event # e /\ dcall'[k] = dcall[k]
  <2>1. CASE dcall[k].event = e
    <3>1. dcall'[k] = [dcall[k] EXCEPT !.late = FALSE]
      BY <1>2, <2>1
    <3>2. [dcall[k] EXCEPT !.late = FALSE].late = FALSE
      BY <1>3 DEF DCall
    <3> QED BY <1>5, <3>1, <3>2
  <2>2. CASE dcall[k].event # e
    BY <1>2, <2>2
  <2> QED BY <2>1, <2>2
<1>6. FindsMark'
  BY <1>2, <1>5 DEF WInv, FindsMark
<1> QED BY <1>1, <1>2, <1>4, <1>6 DEF WInv, W!TypeOK, DCall

LEMMA WebhooksInductive ==
    ASSUME W!WebhooksAssumption PROVE W!Spec => []WInv
<1>1. W!Init => WInv
  <2> SUFFICES ASSUME W!Init PROVE WInv
    OBVIOUS
  <2>1. PICK e \in Events : e = CHOOSE x \in Events : TRUE
    BY DEF W!WebhooksAssumption
  <2>2. [pc |-> "idle", event |-> e, named |-> TRUE, late |-> FALSE] \in DCall
    BY DEF DCall, W!Ended
  <2>3. dcall = [k \in WCalls |-> [pc |-> "idle", event |-> e, named |-> TRUE, late |-> FALSE]]
    BY <2>1 DEF W!Init
  <2>4. dcall \in [WCalls -> DCall] /\ \A k \in WCalls : dcall[k].late = FALSE
    BY <2>2, <2>3
  <2> QED BY <2>4 DEF W!Init, WInv, W!TypeOK, FindsMark, DCall
<1>2. WInv /\ [W!Next]_W!vars => WInv'
  <2> SUFFICES ASSUME WInv, [W!Next]_W!vars PROVE WInv'
    OBVIOUS
  <2>1. CASE UNCHANGED W!vars
    BY <2>1 DEF W!vars, WInv, W!TypeOK, FindsMark
  <2> QED BY <2>1, DeliveryStep, DeliverStep, MarkExpires DEF W!Next
<1> QED BY <1>1, <1>2, PTL DEF W!Spec

LEMMA NotAgain == ASSUME WInv PROVE W!NotProcessedAgain
BY DEF WInv, FindsMark, W!NotProcessedAgain, W!At
-----------------------------------------------------------------------------
(***************************************************************************)
(* MediaUploads.  The row lets one commit of a medium through, which alone *)
(* announces it; by then the metadata says committed, and keeps saying so. *)
(***************************************************************************)

Announced(m) == \E i \in DOMAIN queue[m] : queue[m][i].kind = "committed"

\* What a commit has done where it is.
CommitDid(k) ==
    /\ U!At(k, "insert") => meta[ucall[k].medium].status = "committed"
    /\ U!At(k, "send") => /\ meta[ucall[k].medium].status = "committed"
                          /\ row[ucall[k].medium] = ucall[k].sha
                          /\ ~Announced(ucall[k].medium)
    /\ ucall[k].pc \in {"head", "put", "insert", "send"} => ucall[k].sha \in Shas

OneSends == \A k, l \in UCalls :
    U!At(k, "send") /\ U!At(l, "send") /\ ucall[k].medium = ucall[l].medium => k = l

NoRowNoNews == \A m \in Media : Announced(m) => row[m] # NoSha

UInv == /\ U!TypeOK /\ U!AnnouncedOnce /\ OneSends /\ NoRowNoNews
        /\ \A k \in UCalls : CommitDid(k)

LEMMA UploadTypes ==
    ASSUME UInv
    PROVE  /\ ucall \in [UCalls -> U!Call] /\ meta \in [Media -> U!Meta]
           /\ object \in [Media -> Sizes \cup {0}] /\ row \in [Media -> U!Hashes]
           /\ queue \in [Media -> Seq(U!Event)]
           /\ \A k \in UCalls : /\ ucall[k].medium \in Media /\ ucall[k].sha \in U!Hashes
                                /\ ucall[k].pc \in U!Ended \cup {"announce", "head", "put", "insert", "send"}
BY DEF UInv, U!TypeOK, U!Call

\* A step of call k that keeps the rows and the announcements, and un-commits
\* nothing.
Carries(k, pc) == /\ ucall' \in [UCalls -> U!Call] /\ ucall'[k].pc = pc
                  /\ \A l \in UCalls \ {k} : ucall'[l] = ucall[l]

LEMMA QuietUpload ==
    ASSUME UInv, NEW k \in UCalls, NEW pc, Carries(k, pc), pc # "send",
           UNCHANGED <<object, row, queue>>,
           meta' \in [Media -> U!Meta],
           \A m \in Media : meta[m].status = "committed" => meta'[m].status = "committed",
           CommitDid(k)'
    PROVE  UInv'
<1>1. U!TypeOK'
  BY DEF UInv, U!TypeOK, Carries
<1>2. U!AnnouncedOnce'
  BY DEF UInv, U!AnnouncedOnce, U!Committed
<1>3. OneSends'
  BY DEF UInv, OneSends, U!At, Carries
<1>4. NoRowNoNews'
  BY DEF UInv, NoRowNoNews, Announced
<1>5. ASSUME NEW l \in UCalls \ {k} PROVE CommitDid(l)'
  <2>1. CommitDid(l) /\ ucall'[l] = ucall[l] /\ ucall[l].medium \in Media
    BY UploadTypes DEF UInv, Carries
  <2> QED BY <2>1 DEF CommitDid, U!At, Announced
<1> QED BY <1>1, <1>2, <1>3, <1>4, <1>5 DEF UInv

\* A call moves to pc and keeps what it is about.
LEMMA CallMoves ==
    ASSUME UInv, NEW k \in UCalls, NEW pc \in U!Ended \cup {"announce", "head", "put", "insert", "send"},
           U!Goto(k, pc)
    PROVE  Carries(k, pc) /\ ucall'[k].medium = ucall[k].medium /\ ucall'[k].sha = ucall[k].sha
<1> DEFINE x == [ucall[k] EXCEPT !.pc = pc]
<1>1. ucall \in [UCalls -> U!Call] /\ ucall[k] \in U!Call
  BY UploadTypes
<1>2. x \in U!Call /\ x.pc = pc /\ x.medium = ucall[k].medium /\ x.sha = ucall[k].sha
  BY <1>1 DEF U!Call
<1>3. ucall' = [ucall EXCEPT ![k] = x]
  BY <1>1 DEF U!Goto
<1> HIDE DEF x
<1> QED BY <1>1, <1>2, <1>3 DEF Carries

LEMMA CallEnters ==
    ASSUME UInv, NEW k \in UCalls, NEW m \in Media, NEW b \in Sizes \cup {0}, NEW h \in U!Hashes,
           NEW pc \in U!Ended \cup {"announce", "head", "put", "insert", "send"},
           U!Enter(k, m, b, h, pc)
    PROVE  Carries(k, pc) /\ ucall'[k].medium = m /\ ucall'[k].sha = h
<1> DEFINE x == [pc |-> pc, medium |-> m, bytes |-> b, sha |-> h]
<1>1. ucall \in [UCalls -> U!Call] /\ ucall' = [ucall EXCEPT ![k] = x]
  BY UploadTypes DEF U!Enter
<1>2. x \in U!Call
  BY DEF U!Call
<1>3. ucall' \in [UCalls -> U!Call] /\ ucall'[k] = x /\ \A l \in UCalls \ {k} : ucall'[l] = ucall[l]
  BY <1>1, <1>2
<1> QED BY <1>3 DEF Carries

LEMMA PresignStep ==
    ASSUME UInv, NEW k \in UCalls, NEW m \in Media, U!handlePresign(k, m)
    PROVE  UInv'
<1>1. Carries(k, "announce") /\ UNCHANGED <<object, row, queue>>
      /\ meta' = [meta EXCEPT ![m].status = "pending"] /\ meta[m].status = "unused"
  BY CallEnters DEF U!handlePresign, U!Hashes
<1>2. meta \in [Media -> U!Meta]
  BY UploadTypes
<1>3. /\ meta' \in [Media -> U!Meta]
      /\ \A n \in Media : meta[n].status = "committed" => meta'[n].status = "committed"
  BY <1>1, <1>2 DEF U!Meta
<1>4. CommitDid(k)'
  BY <1>1 DEF CommitDid, Carries, U!At
<1> QED BY <1>1, <1>3, <1>4, QuietUpload

LEMMA OutsideUpload ==
    ASSUME UInv, NEW m \in Media, U!Expire(m) \/ \E b \in Sizes : U!Upload(m, b)
    PROVE  UInv'
<1>1. UNCHANGED <<row, queue, ucall>> /\ meta' \in [Media -> U!Meta] /\ object' \in [Media -> Sizes \cup {0}]
      /\ \A n \in Media : meta[n].status = "committed" => meta'[n].status = "committed"
  <2>1. meta \in [Media -> U!Meta] /\ object \in [Media -> Sizes \cup {0}]
    BY UploadTypes
  <2>2. CASE U!Expire(m)
    BY <2>1, <2>2 DEF U!Expire, U!Meta
  <2>3. CASE \E b \in Sizes : U!Upload(m, b)
    BY <2>1, <2>3 DEF U!Upload
  <2> QED BY <2>2, <2>3
<1>2. U!TypeOK'
  BY <1>1 DEF UInv, U!TypeOK
<1>3. U!AnnouncedOnce'
  BY <1>1 DEF UInv, U!AnnouncedOnce, U!Committed
<1>4. OneSends' /\ NoRowNoNews'
  BY <1>1 DEF UInv, OneSends, NoRowNoNews, Announced, U!At
<1>5. ASSUME NEW l \in UCalls PROVE CommitDid(l)'
  <2>1. CommitDid(l) /\ ucall[l].medium \in Media
    BY UploadTypes DEF UInv
  <2> QED BY <1>1, <2>1 DEF CommitDid, U!At, Announced
<1> QED BY <1>2, <1>3, <1>4, <1>5 DEF UInv

LEMMA CommitBegins ==
    ASSUME UInv, NEW k \in UCalls,
           \/ \E m \in Media : U!handleGetLink(k, m) \/ \E b \in Sizes, h \in Shas : U!handleCommit(k, m, b, h)
           \/ U!commitHead(k) \/ U!commitPut(k) \/ U!fail(k)
    PROVE  UInv'
<1>1. meta \in [Media -> U!Meta] /\ ucall[k].medium \in Media /\ CommitDid(k)
  BY UploadTypes DEF UInv
<1>2. CASE \E m \in Media : U!handleGetLink(k, m)
  <2> PICK m \in Media : U!handleGetLink(k, m)
    BY <1>2
  <2>1. (IF U!Known(m) THEN "url" ELSE "media_not_found") \in U!Ended
    BY DEF U!Ended
  <2>2. PICK pc \in U!Ended : Carries(k, pc)
    BY <2>1, CallEnters DEF U!handleGetLink, U!Hashes
  <2>3. CommitDid(k)' /\ pc # "send"
    BY <2>2 DEF CommitDid, Carries, U!At, U!Ended
  <2> QED BY <1>1, <2>2, <2>3, QuietUpload DEF U!handleGetLink
<1>3. CASE \E m \in Media, b \in Sizes, h \in Shas : U!handleCommit(k, m, b, h)
  <2> PICK m \in Media, b \in Sizes, h \in Shas : U!handleCommit(k, m, b, h)
    BY <1>3
  <2>1. (IF U!Known(m) THEN "head" ELSE "media_not_found") \in {"head", "media_not_found"}
    OBVIOUS
  <2>2. PICK pc \in {"head", "media_not_found"} : Carries(k, pc) /\ ucall'[k].sha = h
    BY <2>1, CallEnters DEF U!handleCommit, U!Hashes, U!Ended
  <2>3. CommitDid(k)' /\ pc # "send"
    BY <2>2 DEF CommitDid, Carries, U!At
  <2> QED BY <1>1, <2>2, <2>3, QuietUpload DEF U!handleCommit
<1>4. CASE U!commitHead(k)
  <2>1. PICK pc \in {"put", "size_mismatch"} : U!Goto(k, pc)
    BY <1>4 DEF U!commitHead
  <2>2. Carries(k, pc) /\ ucall'[k].sha = ucall[k].sha
    BY <2>1, CallMoves DEF U!Ended
  <2>3. CommitDid(k)' /\ pc # "send"
    BY <1>1, <1>4, <2>2 DEF CommitDid, Carries, U!At, U!commitHead
  <2> QED BY <1>1, <1>4, <2>2, <2>3, QuietUpload DEF U!commitHead
<1>5. CASE U!commitPut(k)
  <2>1. Carries(k, "insert") /\ ucall'[k].sha = ucall[k].sha /\ ucall'[k].medium = ucall[k].medium
    BY <1>5, CallMoves DEF U!commitPut
  <2>2. ucall[k].sha \in U!Hashes
    BY UploadTypes
  <2>3. /\ meta' = [meta EXCEPT ![ucall[k].medium] = [status |-> "committed", sha |-> ucall[k].sha]]
        /\ UNCHANGED <<object, row, queue>>
    BY <1>5 DEF U!commitPut
  <2>4. /\ meta' \in [Media -> U!Meta] /\ meta'[ucall[k].medium].status = "committed"
        /\ \A n \in Media : meta[n].status = "committed" => meta'[n].status = "committed"
    BY <1>1, <2>2, <2>3 DEF U!Meta
  <2>5. CommitDid(k)'
    BY <1>1, <1>5, <2>1, <2>4 DEF CommitDid, Carries, U!At, U!commitPut
  <2> QED BY <2>1, <2>3, <2>4, <2>5, QuietUpload
<1>6. CASE U!fail(k)
  <2>1. Carries(k, "failed")
    BY <1>6, CallMoves DEF U!fail, U!Ended
  <2>2. CommitDid(k)'
    BY <2>1 DEF CommitDid, Carries, U!At
  <2> QED BY <1>1, <1>6, <2>1, <2>2, QuietUpload DEF U!fail
<1> QED BY <1>2, <1>3, <1>4, <1>5, <1>6

\* The row is the lock: who finds none may announce, and nobody else could.
LEMMA InsertStep ==
    ASSUME U!UploadsAssumption, UInv, NEW k \in UCalls, U!commitInsert(k)
    PROVE  UInv'
<1>1. PICK m \in Media : m = ucall[k].medium
  BY UploadTypes
<1>2. row \in [Media -> U!Hashes] /\ queue \in [Media -> Seq(U!Event)] /\ meta \in [Media -> U!Meta]
      /\ CommitDid(k) /\ U!At(k, "insert") /\ UNCHANGED <<meta, object, queue>>
      /\ ucall[k].sha \in Shas /\ meta[m].status = "committed"
  BY <1>1, UploadTypes DEF UInv, U!commitInsert, CommitDid, U!At
<1>3. CASE row[m] = NoSha
  <2>1. Carries(k, "send") /\ ucall'[k].medium = m /\ ucall'[k].sha = ucall[k].sha
    BY <1>1, <1>3, CallMoves DEF U!commitInsert
  <2>2. row' = [row EXCEPT ![m] = ucall[k].sha]
    BY <1>1, <1>3 DEF U!commitInsert
  <2>3. row' \in [Media -> U!Hashes] /\ row'[m] = ucall[k].sha /\ \A n \in Media \ {m} : row'[n] = row[n]
    BY <1>2, <2>2 DEF U!Hashes
  <2>4. ~Announced(m) /\ ~Announced(m)'
    BY <1>2, <1>3 DEF UInv, NoRowNoNews, Announced
  <2>5. \A l \in UCalls \ {k} : U!At(l, "send") => ucall[l].medium # m
    <3>1. ASSUME NEW l \in UCalls \ {k}, U!At(l, "send"), ucall[l].medium = m PROVE FALSE
      <4>1. CommitDid(l)
        BY DEF UInv
      <4>2. row[m] = ucall[l].sha /\ ucall[l].sha \in Shas
        BY <3>1, <4>1 DEF CommitDid, U!At
      <4> QED BY <1>3, <4>2 DEF U!UploadsAssumption
    <3> QED BY <3>1
  <2>6. U!TypeOK'
    BY <1>2, <2>1, <2>3 DEF UInv, U!TypeOK, Carries
  <2>7. U!AnnouncedOnce'
    <3>1. \A i \in DOMAIN queue[m] : ~U!Committed(queue[m][i])
      BY <2>4 DEF Announced, U!Committed
    <3> QED BY <1>2, <2>3, <3>1 DEF UInv, U!AnnouncedOnce, U!Committed
  <2>8. OneSends'
    BY <2>1, <2>5 DEF UInv, OneSends, Carries, U!At
  <2>9. NoRowNoNews'
    BY <1>2, <2>3, <2>4 DEF UInv, NoRowNoNews, Announced
  <2>10. CommitDid(k)'
    BY <1>2, <2>1, <2>3, <2>4 DEF CommitDid, Carries, U!At
  <2>11. ASSUME NEW l \in UCalls \ {k} PROVE CommitDid(l)'
    <3>1. CommitDid(l) /\ ucall'[l] = ucall[l] /\ ucall[l].medium \in Media
      BY <2>1, UploadTypes DEF UInv, Carries
    <3> QED BY <1>2, <2>3, <2>5, <3>1 DEF CommitDid, U!At, Announced
  <2> QED BY <2>6, <2>7, <2>8, <2>9, <2>10, <2>11 DEF UInv
<1>4. CASE row[m] # NoSha
  <2>1. U!Goto(k, "failed") /\ row' = row
    BY <1>1, <1>4 DEF U!commitInsert
  <2>2. Carries(k, "failed")
    BY <2>1, CallMoves DEF U!Ended
  <2>3. CommitDid(k)'
    BY <2>2 DEF CommitDid, Carries, U!At
  <2> QED BY <1>2, <2>1, <2>2, <2>3, QuietUpload
<1> QED BY <1>3, <1>4

\* An event is announced at the end of its queue.
LEMMA Announces ==
    ASSUME UInv, NEW m \in Media, NEW kind \in {"presigned", "committed"}, NEW h \in U!Hashes,
           U!Announce(m, kind, h)
    PROVE  /\ queue' \in [Media -> Seq(U!Event)]
           /\ \A n \in Media \ {m} : queue'[n] = queue[n]
           /\ Len(queue[m]) \in Nat /\ DOMAIN queue[m] = 1..Len(queue[m])
           /\ DOMAIN queue'[m] = 1..(Len(queue[m]) + 1)
           /\ \A i \in 1..Len(queue[m]) : queue'[m][i] = queue[m][i]
           /\ queue'[m][Len(queue[m]) + 1].kind = kind /\ queue'[m][Len(queue[m]) + 1].sha = h
<1> DEFINE e == [kind |-> kind, sha |-> h]
<1>1. queue \in [Media -> Seq(U!Event)] /\ queue' = [queue EXCEPT ![m] = Append(queue[m], e)]
  BY UploadTypes DEF U!Announce
<1>2. e \in U!Event /\ e.kind = kind /\ e.sha = h
  BY DEF U!Event
<1> HIDE DEF e
<1> QED BY <1>1, <1>2

LEMMA SendStepU ==
    ASSUME U!UploadsAssumption, UInv, NEW k \in UCalls, U!presignSend(k) \/ U!commitSend(k)
    PROVE  UInv'
<1>1. PICK m \in Media : m = ucall[k].medium
  BY UploadTypes
<1>2. /\ Carries(k, "ok") /\ UNCHANGED <<meta, object, row>> /\ CommitDid(k)
      /\ queue \in [Media -> Seq(U!Event)] /\ ucall[k].sha \in U!Hashes
  <2>1. U!Goto(k, "ok")
    BY DEF U!presignSend, U!commitSend
  <2> QED BY <2>1, CallMoves, UploadTypes DEF U!presignSend, U!commitSend, U!Ended, UInv
<1>3. CommitDid(k)'
  BY <1>2 DEF CommitDid, Carries, U!At
<1>4. CASE queue' = queue
  <2>1. meta \in [Media -> U!Meta]
    BY UploadTypes
  <2> QED BY <1>2, <1>3, <1>4, <2>1, QuietUpload
<1>5. CASE U!At(k, "announce") /\ U!Announce(m, "presigned", NoSha)
  <2>0. NoSha \in U!Hashes
    BY DEF U!Hashes
  <2>1. /\ queue' \in [Media -> Seq(U!Event)]
        /\ \A n \in Media \ {m} : queue'[n] = queue[n]
        /\ Len(queue[m]) \in Nat /\ DOMAIN queue[m] = 1..Len(queue[m])
        /\ DOMAIN queue'[m] = 1..(Len(queue[m]) + 1)
        /\ \A i \in 1..Len(queue[m]) : queue'[m][i] = queue[m][i]
        /\ queue'[m][Len(queue[m]) + 1].kind = "presigned"
    BY <1>5, <2>0, Announces
  <2>2. \A n \in Media : Announced(n)' => Announced(n)
    <3>1. ASSUME NEW n \in Media, NEW i \in DOMAIN queue'[n], queue'[n][i].kind = "committed"
          PROVE  i \in DOMAIN queue[n] /\ queue[n][i].kind = "committed"
      BY <2>1, <3>1
    <3> QED BY <3>1 DEF Announced
  <2>3. U!AnnouncedOnce'
    <3>1. U!AnnouncedOnce /\ UNCHANGED <<row, meta>>
      BY <1>2 DEF UInv
    <3>2. ASSUME NEW n \in Media, NEW i \in DOMAIN queue'[n], queue'[n][i].kind = "committed"
          PROVE  /\ i \in DOMAIN queue[n] /\ queue'[n][i] = queue[n][i]
      BY <2>1, <3>2
    <3> QED BY <3>1, <3>2 DEF U!AnnouncedOnce, U!Committed
  <2>4. U!TypeOK'
    BY <1>2, <2>1 DEF UInv, U!TypeOK, Carries
  <2>5. OneSends' /\ NoRowNoNews'
    BY <1>2, <2>2 DEF UInv, OneSends, NoRowNoNews, Carries, U!At
  <2>6. ASSUME NEW l \in UCalls \ {k} PROVE CommitDid(l)'
    <3>1. CommitDid(l) /\ ucall'[l] = ucall[l] /\ ucall[l].medium \in Media
      BY <1>2, UploadTypes DEF UInv, Carries
    <3> QED BY <1>2, <2>2, <3>1 DEF CommitDid, U!At
  <2> QED BY <1>3, <2>3, <2>4, <2>5, <2>6 DEF UInv
<1>6. CASE U!At(k, "send") /\ U!Announce(m, "committed", ucall[k].sha)
  <2>1. /\ queue' \in [Media -> Seq(U!Event)]
        /\ \A n \in Media \ {m} : queue'[n] = queue[n]
        /\ Len(queue[m]) \in Nat /\ DOMAIN queue[m] = 1..Len(queue[m])
        /\ DOMAIN queue'[m] = 1..(Len(queue[m]) + 1)
        /\ \A i \in 1..Len(queue[m]) : queue'[m][i] = queue[m][i]
        /\ queue'[m][Len(queue[m]) + 1].kind = "committed"
        /\ queue'[m][Len(queue[m]) + 1].sha = ucall[k].sha
    BY <1>2, <1>6, Announces
  <2>2. /\ meta[m].status = "committed" /\ row[m] = ucall[k].sha /\ ~Announced(m)
        /\ ucall[k].sha \in Shas
    BY <1>1, <1>2, <1>6 DEF CommitDid, U!At
  <2>3. row[m] # NoSha
    BY <2>2 DEF U!UploadsAssumption
  <2>4. \A n \in Media \ {m} : Announced(n)' <=> Announced(n)
    BY <2>1 DEF Announced
  <2>5. U!AnnouncedOnce'
    <3>1. ASSUME NEW n \in Media \ {m}, NEW i \in DOMAIN queue'[n], queue'[n][i].kind = "committed"
          PROVE  /\ \A j \in DOMAIN queue'[n] : queue'[n][j].kind = "committed" => j = i
                 /\ queue'[n][i].sha = row'[n]
                 /\ meta'[n].status = "committed"
      <4>1. queue'[n] = queue[n] /\ UNCHANGED <<row, meta>> /\ U!AnnouncedOnce
        BY <1>2, <2>1 DEF UInv
      <4> QED BY <3>1, <4>1 DEF U!AnnouncedOnce, U!Committed
    <3>2. \A i \in 1..Len(queue[m]) : queue[m][i].kind # "committed"
      BY <2>1, <2>2 DEF Announced
    <3>3. ASSUME NEW i \in DOMAIN queue'[m], queue'[m][i].kind = "committed"
          PROVE  i = Len(queue[m]) + 1
      BY <2>1, <3>2, <3>3
    <3>4. ASSUME NEW i \in DOMAIN queue'[m], queue'[m][i].kind = "committed"
          PROVE  /\ \A j \in DOMAIN queue'[m] : queue'[m][j].kind = "committed" => j = i
                 /\ queue'[m][i].sha = row'[m]
                 /\ meta'[m].status = "committed"
      BY <1>2, <2>1, <2>2, <3>3, <3>4
    <3> QED BY <3>1, <3>4 DEF U!AnnouncedOnce, U!Committed
  <2>6. U!TypeOK'
    BY <1>2, <2>1 DEF UInv, U!TypeOK, Carries
  <2>7. OneSends'
    BY <1>2 DEF UInv, OneSends, Carries, U!At
  <2>8. NoRowNoNews'
    BY <1>2, <2>3, <2>4 DEF UInv, NoRowNoNews
  <2>9. ASSUME NEW l \in UCalls \ {k} PROVE CommitDid(l)'
    <3>1. CommitDid(l) /\ ucall'[l] = ucall[l] /\ ucall[l].medium \in Media
      BY <1>2, UploadTypes DEF UInv, Carries
    <3>2. U!At(l, "send") => ucall[l].medium # m
      BY <1>1, <1>6 DEF UInv, OneSends
    <3> QED BY <1>2, <2>4, <3>1, <3>2 DEF CommitDid, U!At
  <2> QED BY <1>3, <2>5, <2>6, <2>7, <2>8, <2>9 DEF UInv
<1> QED BY <1>1, <1>4, <1>5, <1>6 DEF U!presignSend, U!commitSend

LEMMA UploadsInductive ==
    ASSUME U!UploadsAssumption PROVE U!Spec => []UInv
<1>1. U!Init => UInv
  <2> SUFFICES ASSUME U!Init PROVE UInv
    OBVIOUS
  <2>1. PICK m \in Media : m = CHOOSE x \in Media : TRUE
    BY DEF U!UploadsAssumption
  <2>2. ucall = [k \in UCalls |-> [pc |-> "idle", medium |-> m, bytes |-> 0, sha |-> NoSha]]
    BY <2>1 DEF U!Init
  <2>3. [pc |-> "idle", medium |-> m, bytes |-> 0, sha |-> NoSha] \in U!Call
    BY DEF U!Call, U!Ended, U!Hashes
  <2>4. ucall \in [UCalls -> U!Call] /\ \A k \in UCalls : ucall[k].pc = "idle"
    BY <2>2, <2>3
  <2>5. queue \in [Media -> Seq(U!Event)] /\ \A n \in Media : queue[n] = << >> /\ DOMAIN queue[n] = {}
    BY DEF U!Init
  <2>6. U!TypeOK
    BY <2>4, <2>5 DEF U!Init, U!TypeOK, U!Meta, U!Hashes
  <2> QED BY <2>4, <2>5, <2>6 DEF UInv, U!AnnouncedOnce, OneSends, NoRowNoNews, Announced, CommitDid, U!At
<1>2. UInv /\ [U!Next]_U!vars => UInv'
  <2> SUFFICES ASSUME UInv, [U!Next]_U!vars PROVE UInv'
    OBVIOUS
  <2>1. CASE UNCHANGED U!vars
    BY <2>1 DEF U!vars, UInv, U!TypeOK, U!AnnouncedOnce, U!Committed, OneSends, NoRowNoNews,
                Announced, CommitDid, U!At
  <2>2. CASE U!Next
    BY <2>2, PresignStep, OutsideUpload, CommitBegins, InsertStep, SendStepU DEF U!Next
  <2> QED BY <2>1, <2>2
<1> QED BY <1>1, <1>2, PTL DEF U!Spec
-----------------------------------------------------------------------------
(***************************************************************************)
(* MediaStreams.  What a session records is what its last go_live asked    *)
(* for, and an end that nothing overlapped still has it in hand.           *)
(***************************************************************************)

\* A recording goes with what was asked for, as far as that is known.
Matches(recording, wish) == (recording => wish # "no") /\ (~recording => wish # "yes")

Busy(k) == scall[k].pc \in {"live", "end"}

InHand(k) ==
    /\ S!At(k, "end") => /\ Matches(scall[k].read.recording, scall[k].asked)
                         /\ scall[k].alone => session[scall[k].key].recording = scall[k].read.recording
    /\ scall[k].pc \in {"send", "replay"} => scall[k].asked # "no"
    /\ S!At(k, "ended") => scall[k].asked # "yes"

Alone == \A k, l \in SCalls :
    Busy(k) /\ Busy(l) /\ scall[k].key = scall[l].key /\ scall[k].alone => k = l

MInv == /\ S!TypeOK /\ Alone
        /\ \A s \in StreamKeys : Matches(session[s].recording, asked[s])
        /\ \A k \in SCalls : InHand(k)

LEMMA StreamTypes ==
    ASSUME MInv
    PROVE  /\ scall \in [SCalls -> S!Call] /\ session \in [StreamKeys -> S!Session]
           /\ input \in [StreamKeys -> {"unused", "kept", "elsewhere", "gone"}]
           /\ room \in [StreamKeys -> {"unused", "active"}]
           /\ asked \in [StreamKeys -> {"yes", "no", "unsure"}]
           /\ \A k \in SCalls : /\ scall[k] \in S!Call /\ scall[k].key \in StreamKeys
                                /\ scall[k].read \in S!Session /\ scall[k].record \in BOOLEAN
                                /\ scall[k].read.recording \in BOOLEAN
                                /\ scall[k].alone \in BOOLEAN /\ scall[k].asked \in {"yes", "no", "unsure"}
BY DEF MInv, S!TypeOK, S!Call, S!Session

\* Call k is now at pc, about s, and asks for what it did or for nothing.
Moves(k, pc) ==
    /\ scall' \in [SCalls -> S!Call] /\ scall'[k].pc = pc
    /\ \A l \in SCalls \ {k} : scall'[l] = scall[l]

LEMMA BlankTypedS ==
    ASSUME NEW pc \in S!Ended \cup {"live", "end", "send", "create"}, NEW s \in StreamKeys
    PROVE  /\ S!Blank(pc, s) \in S!Call /\ S!Blank(pc, s).pc = pc /\ S!Blank(pc, s).key = s
           /\ S!Blank(pc, s).asked = "no"
BY DEF S!Blank, S!Call, S!Session, S!States

\* A step that leaves the records as they are and ends, or does not begin, what
\* call k does.
LEMMA CallOnly ==
    ASSUME MInv, NEW k \in SCalls, NEW pc, Moves(k, pc), pc \notin {"live", "end"},
           session' \in [StreamKeys -> S!Session],
           \A s \in StreamKeys : session'[s].recording = session[s].recording,
           input' \in [StreamKeys -> {"unused", "kept", "elsewhere", "gone"}],
           room' \in [StreamKeys -> {"unused", "active"}],
           asked' = asked,
           pc \in {"send", "replay"} => scall'[k].asked # "no",
           pc = "ended" => scall'[k].asked # "yes"
    PROVE  MInv'
<1>1. S!TypeOK'
  BY DEF MInv, S!TypeOK, Moves
<1>2. Alone'
  BY DEF MInv, Alone, Busy, Moves
<1>3. \A s \in StreamKeys : Matches(session[s].recording, asked[s])'
  BY DEF MInv, Matches
<1>4. InHand(k)'
  BY DEF InHand, Moves, S!At
<1>5. ASSUME NEW l \in SCalls \ {k} PROVE InHand(l)'
  <2>1. InHand(l) /\ scall'[l] = scall[l] /\ scall[l].key \in StreamKeys
    BY StreamTypes DEF MInv, Moves
  <2> QED BY <2>1 DEF InHand, S!At, Matches
<1> QED BY <1>1, <1>2, <1>3, <1>4, <1>5 DEF MInv

LEMMA AnswerMoves ==
    ASSUME MInv, NEW k \in SCalls, NEW s \in StreamKeys, NEW pc \in {"ok", "not_found", "create"},
           S!Answer(k, s, pc)
    PROVE  Moves(k, pc)
<1>1. S!Blank(pc, s) \in S!Call /\ S!Blank(pc, s).pc = pc
  BY BlankTypedS DEF S!Ended
<1> QED BY <1>1, StreamTypes DEF S!Answer, Moves

LEMMA GotoMoves ==
    ASSUME MInv, NEW k \in SCalls, NEW pc \in S!Ended \cup {"send"}, S!Goto(k, pc)
    PROVE  Moves(k, pc) /\ scall'[k].asked = scall[k].asked
<1> DEFINE x == [S!Blank(pc, scall[k].key) EXCEPT !.asked = scall[k].asked]
<1>1. S!Blank(pc, scall[k].key) \in S!Call /\ S!Blank(pc, scall[k].key).pc = pc
      /\ scall[k].asked \in {"yes", "no", "unsure"}
  BY BlankTypedS, StreamTypes
<1>2. x \in S!Call /\ x.pc = pc /\ x.asked = scall[k].asked
  BY <1>1 DEF S!Call
<1>3. scall' = [scall EXCEPT ![k] = x] /\ scall \in [SCalls -> S!Call]
  BY StreamTypes DEF S!Goto
<1> HIDE DEF x
<1> QED BY <1>2, <1>3 DEF Moves

LEMMA AnswerStep ==
    ASSUME MInv, NEW k \in SCalls, NEW s \in StreamKeys,
           \/ S!handlePrepare(k, s) \/ S!handleStreamLiveInput(k, s) \/ S!handleStreamToken(k, s)
           \/ S!handleRTCRoom(k, s)
    PROVE  MInv'
<1>1. PICK pc \in {"ok", "not_found", "create"} : S!Answer(k, s, pc)
  BY DEF S!handlePrepare, S!handleStreamLiveInput, S!handleStreamToken, S!handleRTCRoom
<1>2. Moves(k, pc) /\ asked' = asked
  BY <1>1, AnswerMoves DEF S!handlePrepare, S!handleStreamLiveInput, S!handleStreamToken, S!handleRTCRoom
<1>3. /\ session' \in [StreamKeys -> S!Session]
      /\ \A t \in StreamKeys : session'[t].recording = session[t].recording
  <2>1. CASE S!handlePrepare(k, s)
    <3> DEFINE x == [session[s] EXCEPT !.state = "prepared"]
    <3>1. session \in [StreamKeys -> S!Session] /\ session' = [session EXCEPT ![s] = x]
      BY <2>1, StreamTypes DEF S!handlePrepare
    <3>2. x \in S!Session /\ x.recording = session[s].recording
      BY <3>1 DEF S!Session, S!States
    <3> HIDE DEF x
    <3> QED BY <3>1, <3>2
  <2>2. CASE ~S!handlePrepare(k, s)
    <3>1. session' = session
      BY <2>2 DEF S!handleStreamLiveInput, S!handleStreamToken, S!handleRTCRoom
    <3> QED BY <3>1, StreamTypes
  <2> QED BY <2>1, <2>2
<1>4. /\ input' \in [StreamKeys -> {"unused", "kept", "elsewhere", "gone"}]
      /\ room' \in [StreamKeys -> {"unused", "active"}]
  BY StreamTypes DEF S!handlePrepare, S!handleStreamLiveInput, S!handleStreamToken, S!handleRTCRoom
<1> QED BY <1>2, <1>3, <1>4, CallOnly

LEMMA EndedStep ==
    ASSUME MInv, NEW k \in SCalls, S!endSend(k) \/ S!roomPut(k) \/ S!fail(k)
    PROVE  MInv'
<1>1. /\ UNCHANGED <<session, input, asked>> /\ InHand(k)
      /\ session \in [StreamKeys -> S!Session]
      /\ input \in [StreamKeys -> {"unused", "kept", "elsewhere", "gone"}]
  BY StreamTypes DEF S!endSend, S!roomPut, S!fail, MInv
<1>2. room' \in [StreamKeys -> {"unused", "active"}]
  BY StreamTypes DEF S!endSend, S!roomPut, S!fail
<1>3. CASE S!endSend(k)
  <2>1. Moves(k, "replay") /\ scall'[k].asked = scall[k].asked
    BY <1>3, GotoMoves DEF S!endSend, S!Ended
  <2>2. scall[k].asked # "no"
    BY <1>1, <1>3 DEF InHand, S!endSend, S!At
  <2> QED BY <1>1, <1>2, <2>1, <2>2, CallOnly
<1>4. CASE S!roomPut(k)
  <2>1. Moves(k, "ok")
    BY <1>4, GotoMoves DEF S!roomPut, S!Ended
  <2> QED BY <1>1, <1>2, <2>1, CallOnly
<1>5. CASE S!fail(k)
  <2>1. S!Blank("failed", scall[k].key) \in S!Call /\ S!Blank("failed", scall[k].key).pc = "failed"
    BY BlankTypedS, StreamTypes DEF S!Ended
  <2>2. Moves(k, "failed")
    BY <1>5, <2>1, StreamTypes DEF S!fail, Moves
  <2> QED BY <1>1, <1>2, <2>2, CallOnly
<1> QED BY <1>3, <1>4, <1>5

LEMMA ReadStepS ==
    ASSUME MInv, NEW k \in SCalls, NEW s \in StreamKeys, NEW pc \in {"live", "end"},
           NEW record \in BOOLEAN, S!Read(k, s, pc, record)
    PROVE  MInv'
<1>1. UNCHANGED <<session, input, room, asked>> /\ session[s] \in S!Session
      /\ asked[s] \in {"yes", "no", "unsure"} /\ scall \in [SCalls -> S!Call]
  BY StreamTypes DEF S!Read
<1>2. CASE S!Answer(k, s, "not_found")
  <2>1. Moves(k, "not_found")
    BY <1>2, AnswerMoves
  <2> QED BY <1>1, <2>1, StreamTypes, CallOnly
<1>3. CASE ~S!Answer(k, s, "not_found")
  <2> DEFINE rivals == {j \in SCalls : scall[j].pc \in {"live", "end"} /\ scall[j].key = s}
             x == [pc |-> pc, key |-> s, read |-> session[s], record |-> record,
                   alone |-> rivals = {}, asked |-> asked[s]]
             y == [l \in SCalls |-> IF l \in rivals THEN [scall[l] EXCEPT !.alone = FALSE] ELSE scall[l]]
  <2>1. scall' = [l \in SCalls |-> IF l = k THEN x ELSE IF l \in rivals
                                   THEN [scall[l] EXCEPT !.alone = FALSE] ELSE scall[l]]
    BY <1>3 DEF S!Read
  <2>2. x \in S!Call
    <3>1. (rivals = {}) \in BOOLEAN
      OBVIOUS
    <3>2. pc \in S!Ended \cup {"live", "end", "send", "create"}
      OBVIOUS
    <3> HIDE DEF rivals
    <3> QED BY <1>1, <3>1, <3>2 DEF S!Call
  <2>3. /\ x.pc = pc /\ x.key = s /\ x.read = session[s] /\ x.asked = asked[s]
        /\ x.alone <=> rivals = {}
    OBVIOUS
  <2>4. \A l \in SCalls : /\ y[l] \in S!Call
                          /\ y[l].pc = scall[l].pc /\ y[l].key = scall[l].key /\ y[l].read = scall[l].read
                          /\ y[l].asked = scall[l].asked
                          /\ y[l].alone => scall[l].alone /\ l \notin rivals
    <3> HIDE DEF rivals
    <3> QED BY <1>1 DEF S!Call
  <2>5. /\ scall' \in [SCalls -> S!Call] /\ scall'[k] = x
        /\ \A l \in SCalls \ {k} : scall'[l] = y[l]
    <3>1. scall'[k] = x /\ \A l \in SCalls \ {k} : scall'[l] = y[l]
      BY <2>1
    <3>2. \A l \in SCalls : scall'[l] \in S!Call
      <4> SUFFICES ASSUME NEW l \in SCalls PROVE scall'[l] \in S!Call
        OBVIOUS
      <4>1. CASE l = k
        BY <2>2, <3>1, <4>1
      <4>2. CASE l # k
        <5> HIDE DEF x, y, rivals
        <5>1. scall'[l] = y[l] /\ y[l] \in S!Call
          BY <2>4, <3>1, <4>2
        <5> QED BY <5>1
      <4> QED BY <4>1, <4>2
    <3> QED BY <2>1, <3>2
  <2>6. \A l \in SCalls : l \in rivals <=> Busy(l) /\ scall[l].key = s
    BY DEF Busy
  <2> HIDE DEF x, y, rivals
  <2>7. Alone'
    <3> SUFFICES ASSUME NEW i \in SCalls, NEW j \in SCalls, Busy(i)', Busy(j)',
                        scall'[i].key = scall'[j].key, scall'[i].alone
                 PROVE  i = j
      BY DEF Alone
    <3>1. CASE i = k /\ j # k
      <4>1. rivals = {} /\ scall'[j].key = s
        BY <2>3, <2>5, <3>1
      <4>2. Busy(j) /\ scall[j].key = s
        BY <2>4, <2>5, <3>1, <4>1 DEF Busy
      <4> QED BY <2>6, <4>1, <4>2
    <3>2. CASE i # k /\ j = k
      <4>1. scall[i].key = s /\ Busy(i) /\ i \notin rivals
        BY <2>3, <2>4, <2>5, <3>2 DEF Busy
      <4> QED BY <2>6, <4>1
    <3>3. CASE i # k /\ j # k
      BY <2>4, <2>5, <3>3 DEF MInv, Alone, Busy
    <3> QED BY <3>1, <3>2, <3>3
  <2>8. InHand(k)'
    BY <1>1, <2>3, <2>5 DEF InHand, S!At, MInv
  <2>9. ASSUME NEW l \in SCalls \ {k} PROVE InHand(l)'
    <3>1. InHand(l) /\ scall'[l] = y[l]
      BY <2>5 DEF MInv
    <3> QED BY <1>1, <2>4, <3>1 DEF InHand, S!At
  <2> QED BY <1>1, <2>5, <2>7, <2>8, <2>9 DEF MInv, S!TypeOK
<1> QED BY <1>2, <1>3

\* A go_live records what it asks for; an end that was alone puts back what it
\* read, and of one that was not nothing is known.
LEMMA PutStepS ==
    ASSUME MInv, NEW k \in SCalls, S!goLivePut(k) \/ S!endPut(k)
    PROVE  MInv'
<1>1. PICK s \in StreamKeys : s = scall[k].key
  BY StreamTypes
<1>2. /\ session \in [StreamKeys -> S!Session] /\ asked \in [StreamKeys -> {"yes", "no", "unsure"}]
      /\ UNCHANGED <<input, room>> /\ Busy(k) /\ InHand(k)
      /\ scall[k].record \in BOOLEAN /\ scall[k].read.recording \in BOOLEAN /\ scall[k].alone \in BOOLEAN
  BY StreamTypes DEF S!goLivePut, S!endPut, MInv, Busy, S!At
<1>3. \E st \in S!States, rec \in BOOLEAN, w \in {"yes", "no", "unsure"} :
          /\ session' = [session EXCEPT ![s] = [state |-> st, recording |-> rec]]
          /\ asked' = [asked EXCEPT ![s] = w]
          /\ Matches(rec, w)
  <2>1. CASE S!goLivePut(k)
    <3>1. /\ session' = [session EXCEPT ![s] = [state |-> "live", recording |-> scall[k].record]]
          /\ asked' = [asked EXCEPT ![s] = IF ~scall[k].alone THEN "unsure"
                                           ELSE IF scall[k].record THEN "yes" ELSE "no"]
      BY <1>1, <2>1 DEF S!goLivePut
    <3> DEFINE w == IF ~scall[k].alone THEN "unsure" ELSE IF scall[k].record THEN "yes" ELSE "no"
    <3>2. w \in {"yes", "no", "unsure"} /\ Matches(scall[k].record, w) /\ "live" \in S!States
      BY DEF Matches, S!States
    <3> QED BY <1>2, <3>1, <3>2
  <2>2. CASE S!endPut(k)
    <3> DEFINE w == IF scall[k].alone THEN asked[s] ELSE "unsure"
    <3>1. /\ session' = [session EXCEPT ![s] = [state |-> "archived", recording |-> scall[k].read.recording]]
          /\ asked' = [asked EXCEPT ![s] = w]
      BY <1>1, <1>2, <2>2 DEF S!endPut
    <3>2. w \in {"yes", "no", "unsure"} /\ "archived" \in S!States
      BY <1>2 DEF S!States
    <3>3. Matches(scall[k].read.recording, w)
      <4>1. CASE scall[k].alone
        <5>1. session[s].recording = scall[k].read.recording /\ Matches(session[s].recording, asked[s])
          BY <1>1, <1>2, <2>2, <4>1 DEF InHand, S!endPut, MInv
        <5> QED BY <4>1, <5>1
      <4>2. CASE ~scall[k].alone
        BY <4>2 DEF Matches
      <4> QED BY <4>1, <4>2
    <3> QED BY <1>2, <3>1, <3>2, <3>3
  <2> QED BY <2>1, <2>2
<1>4. PICK st \in S!States, rec \in BOOLEAN, w \in {"yes", "no", "unsure"} :
          /\ session' = [session EXCEPT ![s] = [state |-> st, recording |-> rec]]
          /\ asked' = [asked EXCEPT ![s] = w]
          /\ Matches(rec, w)
  BY <1>3
<1>5. /\ session' \in [StreamKeys -> S!Session] /\ session'[s].recording = rec
      /\ \A t \in StreamKeys \ {s} : session'[t] = session[t]
      /\ asked' \in [StreamKeys -> {"yes", "no", "unsure"}] /\ asked'[s] = w
      /\ \A t \in StreamKeys \ {s} : asked'[t] = asked[t]
  BY <1>2, <1>4 DEF S!Session
<1>6. PICK pc \in {"ok", "send", "ended"} :
        /\ Moves(k, pc) /\ scall'[k].asked = scall[k].asked
        /\ pc = "send" => scall[k].asked # "no"
        /\ pc = "ended" => scall[k].asked # "yes"
  <2>1. CASE S!goLivePut(k)
    BY <2>1, GotoMoves DEF S!goLivePut, S!Ended
  <2>2. CASE S!endPut(k)
    <3>1. Matches(scall[k].read.recording, scall[k].asked)
      BY <1>2, <2>2 DEF InHand, S!endPut
    <3>2. CASE scall[k].read.recording
      <4>1. S!Goto(k, "send")
        BY <2>2, <3>2 DEF S!endPut
      <4> QED BY <3>1, <3>2, <4>1, GotoMoves DEF Matches
    <3>3. CASE ~scall[k].read.recording
      <4>1. S!Goto(k, "ended")
        BY <2>2, <3>3 DEF S!endPut
      <4> QED BY <3>1, <3>3, <4>1, GotoMoves DEF Matches, S!Ended
    <3> QED BY <3>2, <3>3
  <2> QED BY <2>1, <2>2
<1>7. S!TypeOK'
  BY <1>2, <1>5, <1>6 DEF MInv, S!TypeOK, Moves
<1>8. Alone'
  BY <1>6 DEF MInv, Alone, Busy, Moves
<1>9. \A t \in StreamKeys : Matches(session[t].recording, asked[t])'
  BY <1>4, <1>5 DEF MInv, Matches
<1>10. InHand(k)'
  BY <1>6 DEF InHand, Moves, S!At
<1>11. ASSUME NEW l \in SCalls \ {k} PROVE InHand(l)'
  <2>1. InHand(l) /\ scall'[l] = scall[l] /\ scall[l].key \in StreamKeys
    BY <1>6, StreamTypes DEF MInv, Moves
  <2>2. S!At(l, "end") /\ scall[l].alone => scall[l].key # s
    BY <1>1, <1>2 DEF MInv, Alone, Busy, S!At
  <2> QED BY <1>5, <2>1, <2>2 DEF InHand, S!At
<1> QED BY <1>7, <1>8, <1>9, <1>10, <1>11 DEF MInv

LEMMA ExpireStepS ==
    ASSUME MInv, NEW s \in StreamKeys, S!Expire(s)
    PROVE  MInv'
<1>1. /\ session \in [StreamKeys -> S!Session]
      /\ input \in [StreamKeys -> {"unused", "kept", "elsewhere", "gone"}]
      /\ room \in [StreamKeys -> {"unused", "active"}]
      /\ UNCHANGED <<scall, asked>>
  BY StreamTypes DEF S!Expire
<1>2. /\ session' \in [StreamKeys -> S!Session]
      /\ \A t \in StreamKeys : session'[t].recording = session[t].recording
      /\ input' \in [StreamKeys -> {"unused", "kept", "elsewhere", "gone"}]
      /\ room' \in [StreamKeys -> {"unused", "active"}]
  BY <1>1 DEF S!Expire, S!Session, S!States
<1>3. ASSUME NEW l \in SCalls PROVE InHand(l)'
  <2>1. InHand(l) /\ scall[l].key \in StreamKeys
    BY StreamTypes DEF MInv
  <2> QED BY <1>1, <1>2, <2>1 DEF InHand, S!At
<1> QED BY <1>1, <1>2, <1>3 DEF MInv, S!TypeOK, Alone, Busy

LEMMA StreamsInductive ==
    ASSUME S!StreamsAssumption PROVE S!Spec => []MInv
<1>1. S!Init => MInv
  <2> SUFFICES ASSUME S!Init PROVE MInv
    OBVIOUS
  <2>1. PICK s \in StreamKeys : s = CHOOSE x \in StreamKeys : TRUE
    BY DEF S!StreamsAssumption
  <2>2. S!Blank("idle", s) \in S!Call /\ S!Blank("idle", s).pc = "idle"
    BY BlankTypedS DEF S!Ended
  <2>3. scall = [k \in SCalls |-> S!Blank("idle", s)]
    BY <2>1 DEF S!Init
  <2>4. scall \in [SCalls -> S!Call] /\ \A k \in SCalls : scall[k].pc = "idle"
    BY <2>2, <2>3
  <2>5. S!TypeOK
    BY <2>4 DEF S!Init, S!TypeOK, S!Session, S!States
  <2> QED BY <2>4, <2>5 DEF S!Init, MInv, Alone, Busy, InHand, S!At, Matches
<1>2. MInv /\ [S!Next]_S!vars => MInv'
  <2> SUFFICES ASSUME MInv, [S!Next]_S!vars PROVE MInv'
    OBVIOUS
  <2>1. CASE UNCHANGED S!vars
    BY <2>1 DEF S!vars, MInv, S!TypeOK, Alone, Busy, InHand, S!At, Matches
  <2>2. ASSUME NEW k \in SCalls, NEW s \in StreamKeys, S!handleEnd(k, s) PROVE MInv'
    BY <2>2, ReadStepS DEF S!handleEnd
  <2>3. ASSUME NEW k \in SCalls, NEW s \in StreamKeys, NEW r \in BOOLEAN, S!handleGoLive(k, s, r)
        PROVE  MInv'
    BY <2>3, ReadStepS DEF S!handleGoLive
  <2> QED BY <2>1, <2>2, <2>3, AnswerStep, EndedStep, PutStepS, ExpireStepS DEF S!Next
<1> QED BY <1>1, <1>2, PTL DEF S!Spec

LEMMA ReplayFollows == ASSUME MInv PROVE S!ReplayFollowsRecording
BY DEF MInv, InHand, S!ReplayFollowsRecording, S!At
-----------------------------------------------------------------------------
(***************************************************************************)
(* PolicyEngine.  What the policies of the repository decide, without the  *)
(* recursion over their wires.                                             *)
(***************************************************************************)

\* The first output that fires is the one named.
LEMMA FirstFires ==
  ASSUME NEW ctx, NEW c, NEW n \in Nat, NEW k \in 1..n, DOMAIN c.outputs = 1..n,
         P!fires(c, c.outputs[k], ctx),
         \A i \in 1..n : i < k => ~ P!fires(c, c.outputs[i], ctx)
  PROVE  P!decide(c, ctx) = c.outputs[k].name
<1> DEFINE fired == {i \in DOMAIN c.outputs : P!fires(c, c.outputs[i], ctx)}
<1>1. k \in fired /\ fired \subseteq Nat /\ \A j \in fired : k <= j
  BY SMT
<1>2. P!decide(c, ctx) = c.outputs[CHOOSE i \in fired : \A j \in fired : i <= j].name
  BY <1>1 DEF P!decide
<1>3. (CHOOSE i \in fired : \A j \in fired : i <= j) = k
  <2> HIDE DEF fired
  <2>1. \A i \in fired : i <= k => i = k
    BY <1>1
  <2> QED BY <1>1, <2>1
<1> QED BY <1>2, <1>3

\* A trigger that names no wire is false, also when it names a bit.
LEMMA NoWire ==
  ASSUME NEW ctx, NEW c, NEW out, out.trigger \notin DOMAIN c.wiring
  PROVE  P!fires(c, out, ctx) <=> (FALSE # out.negated)
<1>1. P!eval_wire(c, out.trigger, ctx) = FALSE
  BY DEF P!eval_wire
<1> QED BY <1>1 DEF P!fires

\* A rule that denies unless a bit is set, named as if the bit were a wire, always fires.
LEMMA RateRule ==
  ASSUME NEW ctx, NEW c, NEW n \in Nat \ {0}, DOMAIN c.outputs = 1..n,
         c.outputs[1] = P!OnNot("deny_rate_limit", "P_Rate_Bucket_OK"),
         "P_Rate_Bucket_OK" \notin DOMAIN c.wiring
  PROVE  P!decide(c, ctx) = "deny_rate_limit"
<1> DEFINE out == P!OnNot("deny_rate_limit", "P_Rate_Bucket_OK")
<1>1. out.trigger = "P_Rate_Bucket_OK" /\ out.negated = TRUE /\ out.name = "deny_rate_limit"
  BY DEF P!OnNot
<1> HIDE DEF out
<1>2. P!fires(c, out, ctx)
  BY <1>1, NoWire
<1>3. c.outputs[1] = out
  BY DEF out
<1> QED BY <1>1, <1>2, <1>3, FirstFires

\* ubl_core_v3 and vvz_core_v1 deny every request, whatever its context: their first output,
\* deny_rate_limit, is triggered by a bit (policies/ubl_core_v3.yaml), and eval_wire of the
\* engine looks a trigger up among the wires only.
THEOREM RateRuleDeniesAll ==
  ASSUME NEW ctx
  PROVE  /\ P!decide(P!ubl_core_v3, ctx) = "deny_rate_limit"
         /\ P!decide(P!vvz_core_v1, ctx) = "deny_rate_limit"
<1>1. PICK v : v = P!ubl_core_v3
  OBVIOUS
<1>2. DOMAIN v.outputs = 1..6 /\ v.outputs[1] = P!OnNot("deny_rate_limit", "P_Rate_Bucket_OK")
      /\ "P_Rate_Bucket_OK" \notin DOMAIN v.wiring
  BY <1>1 DEF P!ubl_core_v3
<1>3. PICK w : w = P!vvz_core_v1
  OBVIOUS
<1>4. DOMAIN w.outputs = 1..7 /\ w.outputs[1] = P!OnNot("deny_rate_limit", "P_Rate_Bucket_OK")
      /\ "P_Rate_Bucket_OK" \notin DOMAIN w.wiring
  BY <1>3 DEF P!vvz_core_v1
<1>5. P!decide(v, ctx) = "deny_rate_limit"
  <2>1. PICK n \in Nat \ {0} : n = 6
    BY SMT
  <2> QED BY <1>2, <2>1, RateRule
<1>6. P!decide(w, ctx) = "deny_rate_limit"
  <2>1. PICK n \in Nat \ {0} : n = 7
    BY SMT
  <2> QED BY <1>4, <2>1, RateRule
<1> QED BY <1>1, <1>3, <1>5, <1>6

\* What the wire W_ZeroTrust_Standard of ubl_core_v1 asks for.
ZeroTrust(ctx) == ctx.tls13 /\ ctx.device /\ ctx.passkey

\* The recursion over the wires has one solution at the two wires the outputs use.
LEMMA V1Wires ==
  ASSUME NEW ctx \in P!Contexts
  PROVE  /\ P!eval_wire(P!ubl_core_v1, "W_ZeroTrust_Standard", ctx) <=> ZeroTrust(ctx)
         /\ P!eval_wire(P!ubl_core_v1, "W_Admin_Path_And_Role", ctx)
              <=> ZeroTrust(ctx) /\ ctx.admin_path /\ ctx.admins
<1> DEFINE wires == DOMAIN P!ubl_core_v1.wiring
           wire(w) == P!ubl_core_v1.wiring[w]
           Ids(w) == {wire(w).ids[i] : i \in DOMAIN wire(w).ids}
           Body(f) == [w \in wires |->
             CASE wire(w).kind = "sequence" ->
                    \A x \in Ids(w) : IF x \in wires THEN f[x] ELSE P!bit_eval(x, ctx)
               [] wire(w).kind = "ANY" -> \E x \in Ids(w) : P!bit_eval(x, ctx)
               [] wire(w).kind = "ALL" -> \A x \in Ids(w) : P!bit_eval(x, ctx)]
           eval == CHOOSE f : f = Body(f)
           Value(w) ==
             CASE w = "W_ZeroTrust_Standard" -> ZeroTrust(ctx)
               [] w = "W_Admin_Access" -> ZeroTrust(ctx) /\ ctx.admins
               [] w = "W_Emergency_Override" ->
                    P!bit_eval("W_ZeroTrust_Standard", ctx) \/ ctx.panic_mode
               [] OTHER -> ZeroTrust(ctx) /\ ctx.admin_path /\ ctx.admins
           sol == [w \in wires |-> Value(w)]
<1>1. wires = {"W_ZeroTrust_Standard", "W_Admin_Access", "W_Emergency_Override",
               "W_Admin_Path_And_Role"}
  BY DEF P!ubl_core_v1
<1>2. /\ wire("W_ZeroTrust_Standard").kind = "sequence"
      /\ Ids("W_ZeroTrust_Standard")
           = {"P_Transport_Secure", "P_Device_Identity", "P_User_Passkey"}
  BY DEF P!ubl_core_v1, P!Zero, P!sequence
<1>3. /\ wire("W_Admin_Access").kind = "sequence"
      /\ Ids("W_Admin_Access") = {"W_ZeroTrust_Standard", "P_Role_Admin"}
  BY DEF P!ubl_core_v1, P!sequence
<1>4. /\ wire("W_Emergency_Override").kind = "ANY"
      /\ Ids("W_Emergency_Override") = {"W_ZeroTrust_Standard", "P_Circuit_Breaker"}
  BY DEF P!ubl_core_v1, P!Override, P!parallel
<1>5. /\ wire("W_Admin_Path_And_Role").kind = "sequence"
      /\ Ids("W_Admin_Path_And_Role")
           = {"W_ZeroTrust_Standard", "P_Is_Admin_Path", "P_Role_Admin"}
  BY DEF P!ubl_core_v1, P!AdminRole, P!sequence
<1>6. /\ P!bit_eval("P_Transport_Secure", ctx) <=> ctx.tls13
      /\ P!bit_eval("P_Device_Identity", ctx) <=> ctx.device
      /\ P!bit_eval("P_User_Passkey", ctx) <=> ctx.passkey
      /\ P!bit_eval("P_Role_Admin", ctx) <=> ctx.admins
      /\ P!bit_eval("P_Is_Admin_Path", ctx) <=> ctx.admin_path
      /\ P!bit_eval("P_Circuit_Breaker", ctx) <=> ctx.panic_mode
  BY DEF P!bit_eval
<1>7. {ctx.tls13, ctx.device, ctx.passkey, ctx.admins, ctx.admin_path, ctx.panic_mode}
        \subseteq BOOLEAN
  BY DEF P!Contexts
<1>8. ASSUME NEW f, f["W_ZeroTrust_Standard"] \in BOOLEAN
      PROVE  /\ Body(f)["W_ZeroTrust_Standard"] = ZeroTrust(ctx)
             /\ Body(f)["W_Admin_Access"] = (f["W_ZeroTrust_Standard"] /\ ctx.admins)
             /\ Body(f)["W_Emergency_Override"]
                  = (P!bit_eval("W_ZeroTrust_Standard", ctx) \/ ctx.panic_mode)
             /\ Body(f)["W_Admin_Path_And_Role"]
                  = (f["W_ZeroTrust_Standard"] /\ ctx.admin_path /\ ctx.admins)
  <2> HIDE DEF wires, wire, Ids
  <2>1. Body(f)["W_ZeroTrust_Standard"] = ZeroTrust(ctx)
    BY <1>1, <1>2, <1>6, <1>7, <1>8 DEF ZeroTrust
  <2>2. Body(f)["W_Admin_Access"] = (f["W_ZeroTrust_Standard"] /\ ctx.admins)
    BY <1>1, <1>3, <1>6, <1>7, <1>8
  <2>3. Body(f)["W_Emergency_Override"]
          = (P!bit_eval("W_ZeroTrust_Standard", ctx) \/ ctx.panic_mode)
    BY <1>1, <1>4, <1>6, <1>7, <1>8
  <2>4. Body(f)["W_Admin_Path_And_Role"]
          = (f["W_ZeroTrust_Standard"] /\ ctx.admin_path /\ ctx.admins)
    BY <1>1, <1>5, <1>6, <1>7, <1>8
  <2> QED BY <2>1, <2>2, <2>3, <2>4
<1>9. sol = Body(sol)
  <2> HIDE DEF wire, Ids
  <2>1. /\ sol["W_ZeroTrust_Standard"] = ZeroTrust(ctx)
        /\ sol["W_Admin_Access"] = (ZeroTrust(ctx) /\ ctx.admins)
        /\ sol["W_Emergency_Override"]
             = (P!bit_eval("W_ZeroTrust_Standard", ctx) \/ ctx.panic_mode)
        /\ sol["W_Admin_Path_And_Role"] = (ZeroTrust(ctx) /\ ctx.admin_path /\ ctx.admins)
    BY <1>1
  <2>2. ZeroTrust(ctx) \in BOOLEAN
    BY DEF ZeroTrust
  <2>3. \A w \in wires : sol[w] = Body(sol)[w]
    <3> HIDE DEF sol, Body, wires
    <3> QED BY <1>1, <1>8, <2>1, <2>2
  <2>4. DOMAIN sol = wires /\ DOMAIN Body(sol) = wires
    OBVIOUS
  <2>5. \A w \in wires : sol[w] = Value(w)
    OBVIOUS
  <2> QED BY <2>3
<1>10. eval = Body(eval)
  <2> HIDE DEF sol, Body
  <2> QED BY <1>9
<1>11. /\ eval["W_ZeroTrust_Standard"] = ZeroTrust(ctx)
       /\ eval["W_Admin_Path_And_Role"] = (ZeroTrust(ctx) /\ ctx.admin_path /\ ctx.admins)
  <2> HIDE DEF eval, Body, wires, wire, Ids
  <2>1. ASSUME NEW f, f = Body(f)
        PROVE  f["W_ZeroTrust_Standard"] = ZeroTrust(ctx)
    BY <1>1, <1>2, <1>6, <1>7, <2>1 DEF ZeroTrust, Body
  <2>2. eval["W_ZeroTrust_Standard"] = ZeroTrust(ctx) /\ ZeroTrust(ctx) \in BOOLEAN
    BY <1>10, <2>1 DEF ZeroTrust
  <2> QED BY <1>8, <1>10, <2>2
<1>12. /\ P!eval_wire(P!ubl_core_v1, "W_ZeroTrust_Standard", ctx)
           <=> "W_ZeroTrust_Standard" \in wires /\ eval["W_ZeroTrust_Standard"]
       /\ P!eval_wire(P!ubl_core_v1, "W_Admin_Path_And_Role", ctx)
           <=> "W_Admin_Path_And_Role" \in wires /\ eval["W_Admin_Path_And_Role"]
  BY DEF P!eval_wire
<1> HIDE DEF eval, wires
<1> QED BY <1>1, <1>11, <1>12

\* What ubl_core_v1 decides, without its wires: the role and the path matter only for the
\* name of what is allowed, so that a path below /admin is open to everyone who passes
\* zero trust.
THEOREM V1Decides ==
  ASSUME NEW ctx \in P!Contexts
  PROVE  P!decide(P!ubl_core_v1, ctx)
           = IF ~ ZeroTrust(ctx) THEN "deny_invalid_access"
             ELSE IF ctx.admin_path /\ ctx.admins THEN "allow_admin_write"
             ELSE "allow_standard_access"
<1>1. PICK c : c = P!ubl_core_v1
  OBVIOUS
<1>2. PICK n \in Nat : n = 3
  OBVIOUS
<1>3. /\ DOMAIN c.outputs = 1..n
      /\ c.outputs[1] = P!On("allow_admin_write", "W_Admin_Path_And_Role")
      /\ c.outputs[2] = P!On("allow_standard_access", "W_ZeroTrust_Standard")
      /\ c.outputs[3] = P!OnNot("deny_invalid_access", "W_ZeroTrust_Standard")
  BY <1>1, <1>2 DEF P!ubl_core_v1, P!Invalid
<1>4. /\ P!fires(c, c.outputs[1], ctx) <=> ZeroTrust(ctx) /\ ctx.admin_path /\ ctx.admins
      /\ P!fires(c, c.outputs[2], ctx) <=> ZeroTrust(ctx)
      /\ P!fires(c, c.outputs[3], ctx) <=> ~ ZeroTrust(ctx)
  <2>1. /\ P!eval_wire(c, "W_ZeroTrust_Standard", ctx) \in BOOLEAN
        /\ P!eval_wire(c, "W_Admin_Path_And_Role", ctx) \in BOOLEAN
    BY DEF P!eval_wire
  <2>2. /\ P!eval_wire(c, "W_ZeroTrust_Standard", ctx) <=> ZeroTrust(ctx)
        /\ P!eval_wire(c, "W_Admin_Path_And_Role", ctx)
             <=> ZeroTrust(ctx) /\ ctx.admin_path /\ ctx.admins
    BY <1>1, V1Wires
  <2>3. /\ c.outputs[1].trigger = "W_Admin_Path_And_Role" /\ c.outputs[1].negated = FALSE
        /\ c.outputs[2].trigger = "W_ZeroTrust_Standard" /\ c.outputs[2].negated = FALSE
        /\ c.outputs[3].trigger = "W_ZeroTrust_Standard" /\ c.outputs[3].negated = TRUE
    BY <1>3 DEF P!On, P!OnNot
  <2>4. /\ P!fires(c, c.outputs[1], ctx)
             <=> P!eval_wire(c, "W_Admin_Path_And_Role", ctx) # FALSE
        /\ P!fires(c, c.outputs[2], ctx)
             <=> P!eval_wire(c, "W_ZeroTrust_Standard", ctx) # FALSE
        /\ P!fires(c, c.outputs[3], ctx)
             <=> P!eval_wire(c, "W_ZeroTrust_Standard", ctx) # TRUE
    BY <2>3 DEF P!fires
  <2> QED BY <2>1, <2>2, <2>4
<1>5. CASE ~ ZeroTrust(ctx)
  <2>1. 3 \in 1..n /\ \A i \in 1..n : i < 3 => ~ P!fires(c, c.outputs[i], ctx)
    BY <1>2, <1>4, <1>5
  <2>2. P!decide(c, ctx) = c.outputs[3].name
    BY <1>3, <1>4, <1>5, <2>1, FirstFires
  <2> QED BY <1>1, <1>3, <1>5, <2>2 DEF P!OnNot
<1>6. CASE ZeroTrust(ctx) /\ ctx.admin_path /\ ctx.admins
  <2>1. 1 \in 1..n /\ \A i \in 1..n : i < 1 => ~ P!fires(c, c.outputs[i], ctx)
    BY <1>2
  <2>2. P!decide(c, ctx) = c.outputs[1].name
    BY <1>3, <1>4, <1>6, <2>1, FirstFires
  <2> QED BY <1>1, <1>3, <1>6, <2>2 DEF P!On
<1>7. CASE ZeroTrust(ctx) /\ ~ (ctx.admin_path /\ ctx.admins)
  <2>1. 2 \in 1..n /\ \A i \in 1..n : i < 2 => ~ P!fires(c, c.outputs[i], ctx)
    BY <1>2, <1>4, <1>7
  <2>2. P!decide(c, ctx) = c.outputs[2].name
    BY <1>3, <1>4, <1>7, <2>1, FirstFires
  <2> QED BY <1>1, <1>3, <1>7, <2>2 DEF P!On
<1> QED BY <1>5, <1>6, <1>7

\* What the policy proxy decides of a request depends on its policy alone: with the context
\* it builds, ubl_core_v1 denies nothing and the two others deny everything.
THEOREM ProxyDecides ==
  ASSUME NEW x \in [admin_path : BOOLEAN, admins : BOOLEAN, panic_mode : BOOLEAN],
         NEW name \in {"ubl_core_v1", "ubl_core_v3", "vvz_core_v1"}
  PROVE  P!decide(P!Chip(name), P!RequestContext(x)) \in P!Denies <=> name # "ubl_core_v1"
<1> DEFINE ctx == P!RequestContext(x)
<1>1. ctx \in P!Contexts /\ ZeroTrust(ctx)
  BY DEF P!RequestContext, P!Contexts, ZeroTrust
<1> HIDE DEF ctx
<1>2. /\ P!decide(P!ubl_core_v1, ctx) \notin P!Denies
      /\ P!decide(P!ubl_core_v3, ctx) \in P!Denies
      /\ P!decide(P!vvz_core_v1, ctx) \in P!Denies
  BY <1>1, V1Decides, RateRuleDeniesAll DEF P!Denies
<1>3. P!Chip("ubl_core_v1") = P!ubl_core_v1 /\ P!Chip("ubl_core_v3") = P!ubl_core_v3
      /\ P!Chip("vvz_core_v1") = P!vvz_core_v1
  BY DEF P!Chip
<1>4. P!decide(P!Chip(name), ctx) \in P!Denies <=> name # "ubl_core_v1"
  BY <1>2, <1>3
<1> QED BY <1>4 DEF ctx
-----------------------------------------------------------------------------
(***************************************************************************)
(* PolicyProxy.  Every evaluation counted is in one of the totals, or its  *)
(* request is about to add it; a reader's sums were true of the counters   *)
(* when it read them, and those only grow.                                 *)
(***************************************************************************)

Evaluated(r) == req[r].pc \in {"decide", "max", "max_write", "count"}
Counting  == {r \in Requests : Evaluated(r)}
Totalling == {r \in Requests : P!At(r, "total")}

Books == /\ eval_count + Cardinality(Counting) <= MaxEval
         /\ allow_total + deny_total + Cardinality(Totalling) = eval_count

Reader(r) ==
    /\ req[r].pc \in {"read_pack", "verify"} => req[r].yaml \in Chips
    /\ req[r].pc \in {"deny", "eval"} => req[r].allow <= allow_total
    /\ req[r].pc = "eval" => req[r].deny <= deny_total
    /\ req[r].pc = "reported" => req[r].allow + req[r].deny <= req[r].eval

PInv == P!TypeOK /\ Books /\ \A r \in Requests : Reader(r)

\* Cardinality there is Cardinality here.
LEMMA ProxyFinite ==
    ASSUME P!ProxyAssumption
    PROVE  /\ IsFiniteSet(Requests) /\ MaxEval \in Nat
           /\ \A A \in SUBSET Requests : IsFiniteSet(A) /\ Cardinality(A) \in Nat
           /\ \A A : P!Cardinality(A) = Cardinality(A)
<1>1. IsFiniteSet(Requests) /\ MaxEval \in Nat
  BY DEF P!ProxyAssumption, P!IsFiniteSet, IsFiniteSet
<1>2. \A A : P!Cardinality(A) = Cardinality(A)
  BY DEF P!Cardinality, Cardinality
<1>3. \A A \in SUBSET Requests : IsFiniteSet(A)
  BY <1>1, FS_Subset
<1> QED BY <1>1, <1>2, <1>3, FS_CardinalityType

\* What one request's step does to a count of requests.
LEMMA Recount ==
    ASSUME P!ProxyAssumption, NEW r \in Requests, NEW A \in SUBSET Requests, NEW B \in SUBSET Requests,
           \A s \in Requests \ {r} : s \in B <=> s \in A
    PROVE  Cardinality(B) = IF r \in A THEN IF r \in B THEN Cardinality(A) ELSE Cardinality(A) - 1
                            ELSE IF r \in B THEN Cardinality(A) + 1 ELSE Cardinality(A)
<1>1. IsFiniteSet(A) /\ IsFiniteSet(B) /\ Cardinality(A) \in Nat /\ Cardinality(B) \in Nat
  BY ProxyFinite
<1>2. CASE r \in A <=> r \in B
  <2>1. A = B
    BY <1>2
  <2> QED BY <1>2, <2>1
<1>3. CASE r \in A /\ r \notin B
  <2>1. B = A \ {r}
    BY <1>3
  <2> QED BY <1>1, <1>3, <2>1, FS_RemoveElement
<1>4. CASE r \notin A /\ r \in B
  <2>1. B = A \cup {r}
    BY <1>4
  <2> QED BY <1>1, <1>4, <2>1, FS_AddElement
<1> QED BY <1>2, <1>3, <1>4

\* A step of request r that keeps the others where they are.
Steps(r) == /\ req' \in [Requests -> P!Request]
            /\ \A s \in Requests \ {r} : req'[s] = req[s]

LEMMA Recounts ==
    ASSUME P!ProxyAssumption, PInv, NEW r \in Requests, Steps(r)
    PROVE  /\ Cardinality(Counting) \in Nat /\ Cardinality(Totalling) \in Nat
           /\ Cardinality(Counting') = IF Evaluated(r)
                THEN IF Evaluated(r)' THEN Cardinality(Counting) ELSE Cardinality(Counting) - 1
                ELSE IF Evaluated(r)' THEN Cardinality(Counting) + 1 ELSE Cardinality(Counting)
           /\ Cardinality(Totalling') = IF req[r].pc = "total"
                THEN IF req'[r].pc = "total" THEN Cardinality(Totalling) ELSE Cardinality(Totalling) - 1
                ELSE IF req'[r].pc = "total" THEN Cardinality(Totalling) + 1 ELSE Cardinality(Totalling)
<1>1. /\ Counting \in SUBSET Requests /\ Counting' \in SUBSET Requests
      /\ Totalling \in SUBSET Requests /\ Totalling' \in SUBSET Requests
  BY DEF Counting, Totalling
<1>2. /\ \A s \in Requests \ {r} : s \in Counting' <=> s \in Counting
      /\ r \in Counting <=> Evaluated(r)
      /\ r \in Counting' <=> Evaluated(r)'
  BY DEF Counting, Evaluated, Steps
<1>3. /\ \A s \in Requests \ {r} : s \in Totalling' <=> s \in Totalling
      /\ r \in Totalling <=> req[r].pc = "total"
      /\ r \in Totalling' <=> req'[r].pc = "total"
  BY DEF Totalling, Steps, P!At
<1>4. Cardinality(Counting) \in Nat /\ Cardinality(Totalling) \in Nat
  BY <1>1, ProxyFinite
<1>5. Cardinality(Counting') = IF r \in Counting
        THEN IF r \in Counting' THEN Cardinality(Counting) ELSE Cardinality(Counting) - 1
        ELSE IF r \in Counting' THEN Cardinality(Counting) + 1 ELSE Cardinality(Counting)
  BY <1>1, <1>2, Recount
<1>6. Cardinality(Totalling') = IF r \in Totalling
        THEN IF r \in Totalling' THEN Cardinality(Totalling) ELSE Cardinality(Totalling) - 1
        ELSE IF r \in Totalling' THEN Cardinality(Totalling) + 1 ELSE Cardinality(Totalling)
  BY <1>1, <1>3, Recount
<1> QED BY <1>2, <1>3, <1>4, <1>5, <1>6

\* The steps that move a request and no counter, and evaluate none.
LEMMA QuietStep ==
    ASSUME P!ProxyAssumption, PInv, NEW r \in Requests, Steps(r),
           UNCHANGED <<allow_total, deny_total, eval_count, eval_ms_max, yaml, pack>>,
           chip' \in Chips, panic' \in BOOLEAN, Reader(r)',
           Evaluated(r)' => Evaluated(r), req[r].pc # "total", req'[r].pc # "total"
    PROVE  PInv'
<1>1. P!TypeOK'
  BY DEF PInv, P!TypeOK, Steps
<1>2. \A s \in Requests \ {r} : Reader(s)'
  BY DEF PInv, Reader, Steps
<1>3. Cardinality(Counting') <= Cardinality(Counting) /\ Cardinality(Counting') \in Nat
      /\ Cardinality(Counting) \in Nat /\ Cardinality(Totalling') = Cardinality(Totalling)
  <2>1. Cardinality(Counting') \in Nat
    BY ProxyFinite DEF Counting
  <2> QED BY <2>1, Recounts
<1>4. Books'
  <2>1. eval_count \in Nat /\ MaxEval \in Nat
    BY ProxyFinite DEF PInv, P!TypeOK, P!Sums
  <2> QED BY <1>3, <2>1 DEF PInv, Books
<1> QED BY <1>1, <1>2, <1>4 DEF PInv

LEMMA ProxyTypes ==
    ASSUME PInv
    PROVE  /\ req \in [Requests -> P!Request] /\ yaml \in Chips /\ pack \in Chips /\ chip \in Chips
           /\ panic \in BOOLEAN /\ eval_ms_max \in 0..2
           /\ allow_total \in 0..MaxEval /\ deny_total \in 0..MaxEval /\ eval_count \in 0..MaxEval
BY DEF PInv, P!TypeOK, P!Sums, P!Durations

\* A request starts over, or has its program counter moved.
LEMMA BlankTyped ==
    ASSUME P!ProxyAssumption, NEW pc \in P!Pcs
    PROVE  P!Blank(pc) \in P!Request /\ P!Blank(pc).pc = pc
<1>1. 0 \in 0..MaxEval
  BY ProxyFinite
<1> QED BY <1>1 DEF P!Blank, P!Request, P!ChipFiles, P!Durations, P!Sums

LEMMA FinishStep ==
    ASSUME P!ProxyAssumption, PInv, NEW r \in Requests, NEW pc \in {"idle", "allow"}, P!Finish(r, pc),
           UNCHANGED <<allow_total, deny_total, eval_count, eval_ms_max, yaml, pack>>,
           chip' \in Chips, panic' \in BOOLEAN, req[r].pc # "total"
    PROVE  PInv'
<1>1. P!Blank(pc) \in P!Request /\ P!Blank(pc).pc = pc
  BY BlankTyped DEF P!Pcs, P!Ended
<1>2. req \in [Requests -> P!Request]
  BY ProxyTypes
<1>3. Steps(r) /\ req'[r] = P!Blank(pc)
  BY <1>1, <1>2 DEF P!Finish, Steps
<1>4. Reader(r)' /\ ~Evaluated(r)' /\ req'[r].pc # "total"
  BY <1>1, <1>3 DEF Reader, Evaluated
<1> QED BY <1>3, <1>4, QuietStep

LEMMA ReloadStep ==
    ASSUME P!ProxyAssumption, PInv, NEW r \in Requests,
           P!reload(r) \/ P!read_pack(r) \/ P!load_and_verify(r)
    PROVE  PInv'
<1>1. /\ req \in [Requests -> P!Request] /\ yaml \in Chips /\ pack \in Chips /\ chip \in Chips
      /\ panic \in BOOLEAN /\ Reader(r)
  BY ProxyTypes DEF PInv
<1>2. CASE P!reload(r)
  <2>1. P!Blank("read_pack") \in P!Request /\ P!Blank("read_pack").pc = "read_pack"
    BY BlankTyped DEF P!Pcs
  <2>2. Steps(r) /\ req'[r].pc = "read_pack" /\ req'[r].yaml = yaml
    BY <1>1, <1>2, <2>1 DEF Steps, P!reload, P!Request, P!ChipFiles
  <2>3. Reader(r)' /\ ~Evaluated(r)' /\ req[r].pc # "total"
    BY <1>1, <1>2, <2>2 DEF Reader, Evaluated, P!reload, P!Free, P!Ended
  <2> QED BY <1>1, <1>2, <2>2, <2>3, QuietStep DEF P!reload, P!files, P!counters
<1>3. CASE P!read_pack(r)
  <2>1. Steps(r) /\ req'[r].pc = "verify" /\ req'[r].yaml = req[r].yaml
    <3> DEFINE x == [req[r] EXCEPT !.pc = "verify", !.pack = pack]
    <3>1. req[r] \in P!Request /\ "verify" \in P!Pcs /\ pack \in P!ChipFiles
      BY <1>1 DEF P!Pcs, P!ChipFiles
    <3>2. x \in P!Request /\ x.pc = "verify" /\ x.yaml = req[r].yaml
      BY <3>1 DEF P!Request
    <3>3. req' = [req EXCEPT ![r] = x]
      BY <1>1, <1>3 DEF P!read_pack
    <3> HIDE DEF x
    <3> QED BY <1>1, <3>2, <3>3 DEF Steps
  <2>2. Reader(r)' /\ ~Evaluated(r)' /\ req[r].pc # "total"
    BY <1>1, <1>3, <2>1 DEF Reader, Evaluated, P!read_pack, P!At
  <2> QED BY <1>1, <1>3, <2>1, <2>2, QuietStep DEF P!read_pack, P!files, P!counters
<1>4. CASE P!load_and_verify(r)
  <2>1. chip' \in Chips /\ req[r].pc # "total"
    BY <1>1, <1>4 DEF P!load_and_verify, P!At, Reader
  <2> QED BY <1>1, <1>4, <2>1, FinishStep DEF P!load_and_verify, P!files, P!counters
<1> QED BY <1>2, <1>3, <1>4

LEMMA SwitchStep ==
    ASSUME P!ProxyAssumption, PInv, NEW r \in Requests,
           P!panic_on(r) \/ P!panic_off(r) \/ P!metrics(r)
    PROVE  PInv'
<1>1. chip \in Chips /\ panic \in BOOLEAN
  BY ProxyTypes
<1> QED BY <1>1, FinishStep DEF P!panic_on, P!panic_off, P!Switch, P!metrics, P!Free, P!Ended,
                                P!files, P!counters

\* A request enters only while there is room for its evaluation.
LEMMA ForwardStep ==
    ASSUME P!ProxyAssumption, PInv, NEW r \in Requests, NEW p \in BOOLEAN, NEW a \in BOOLEAN,
           NEW d \in P!Durations, P!forward(r, p, a, d)
    PROVE  PInv'
<1>1. /\ req \in [Requests -> P!Request] /\ yaml \in Chips /\ pack \in Chips /\ chip \in Chips
      /\ panic \in BOOLEAN /\ eval_count \in 0..MaxEval
  BY ProxyTypes
<1>2. P!Blank("decide") \in P!Request /\ P!Blank("decide").pc = "decide"
  BY BlankTyped DEF P!Pcs
<1>3. Steps(r) /\ req'[r].pc = "decide" /\ ~Evaluated(r) /\ req[r].pc # "total"
  BY <1>1, <1>2 DEF Steps, P!forward, P!Request, P!Free, P!Ended, Evaluated
<1>4. Reader(r)' /\ Evaluated(r)'
  BY <1>3 DEF Reader, Evaluated
<1>5. UNCHANGED <<yaml, pack, chip, panic, allow_total, deny_total, eval_count, eval_ms_max>>
  BY DEF P!forward, P!files, P!counters
<1>6. eval_count + Cardinality(Counting) < MaxEval
  <2> DEFINE B == {s \in Requests : ~P!Free(s)}
  <2>1. IsFiniteSet(B) /\ Counting \subseteq B
    BY ProxyFinite DEF Counting, Evaluated, P!Free, P!Ended
  <2>2. Cardinality(Counting) <= Cardinality(B)
    BY <2>1, FS_Subset
  <2>3. Cardinality(B) \in Nat /\ Cardinality(Counting) \in Nat /\ MaxEval \in Nat
        /\ P!Cardinality(B) = Cardinality(B)
    BY ProxyFinite DEF Counting
  <2>4. eval_count + P!Cardinality(B) < MaxEval
    BY DEF P!forward
  <2> HIDE DEF B
  <2> QED BY <1>1, <2>2, <2>3, <2>4
<1>7. /\ Cardinality(Counting) \in Nat /\ Cardinality(Counting') = Cardinality(Counting) + 1
      /\ Cardinality(Totalling') = Cardinality(Totalling)
  BY <1>3, <1>4, Recounts
<1>8. Books'
  BY <1>1, <1>5, <1>6, <1>7, ProxyFinite DEF PInv, Books
<1>9. P!TypeOK'
  BY <1>3, <1>5 DEF PInv, P!TypeOK, Steps
<1>10. \A s \in Requests \ {r} : Reader(s)'
  BY <1>3, <1>5 DEF PInv, Reader, Steps
<1> QED BY <1>4, <1>8, <1>9, <1>10 DEF PInv

LEMMA DecideStep ==
    ASSUME P!ProxyAssumption, PInv, NEW r \in Requests,
           P!decideRequest(r) \/ P!eval_max(r)
    PROVE  PInv'
<1>1. /\ req \in [Requests -> P!Request] /\ chip \in Chips /\ panic \in BOOLEAN
      /\ eval_ms_max \in 0..2 /\ req[r] \in P!Request
  BY ProxyTypes
<1>2. CASE P!decideRequest(r)
  <2>1. (P!decide(P!Chip(chip), P!RequestContext(req[r].ctx)) \in P!Denies) \in BOOLEAN
    OBVIOUS
  <2> DEFINE dn == P!decide(P!Chip(chip), P!RequestContext(req[r].ctx)) \in P!Denies
  <2>2. req' = [req EXCEPT ![r].pc = "max", ![r].denied = dn] /\ dn \in BOOLEAN
    BY <1>2, <2>1 DEF P!decideRequest
  <2> HIDE DEF dn
  <2>3. Steps(r) /\ req'[r].pc = "max"
    BY <1>1, <2>2 DEF Steps, P!Request, P!Pcs
  <2>4. Reader(r)' /\ Evaluated(r) /\ req[r].pc # "total"
    BY <1>2, <2>3 DEF Reader, Evaluated, P!decideRequest, P!At
  <2> QED BY <1>1, <1>2, <2>3, <2>4, QuietStep DEF P!decideRequest, P!files, P!counters
<1>3. CASE P!eval_max(r)
  <2>1. \A pc \in {"max_write", "count"} : P!Blank(pc) \in P!Request /\ P!Blank(pc).pc = pc
    BY BlankTyped DEF P!Pcs
  <2> DEFINE pc == IF req[r].ms > eval_ms_max THEN "max_write" ELSE "count"
             ms == IF req[r].ms > eval_ms_max THEN req[r].ms ELSE 1
  <2>2. /\ req' = [req EXCEPT ![r] = [P!Blank(pc) EXCEPT !.ms = ms, !.denied = req[r].denied]]
        /\ pc \in {"max_write", "count"} /\ ms \in P!Durations /\ req[r].denied \in BOOLEAN
    BY <1>1, <1>3 DEF P!eval_max, P!Request, P!Durations
  <2> HIDE DEF pc, ms
  <2>3. Steps(r) /\ req'[r].pc = pc
    BY <1>1, <2>1, <2>2 DEF Steps, P!Request
  <2>4. Reader(r)' /\ Evaluated(r) /\ req[r].pc # "total" /\ req'[r].pc # "total"
    BY <1>3, <2>2, <2>3 DEF Reader, Evaluated, P!eval_max, P!At
  <2> QED BY <1>1, <1>3, <2>3, <2>4, QuietStep DEF P!eval_max, P!files, P!counters
<1> QED BY <1>2, <1>3

LEMMA MaxWriteStep ==
    ASSUME P!ProxyAssumption, PInv, NEW r \in Requests, P!eval_max_write(r)
    PROVE  PInv'
<1>1. req \in [Requests -> P!Request] /\ req[r] \in P!Request /\ eval_count \in 0..MaxEval
  BY ProxyTypes
<1>2. /\ UNCHANGED <<yaml, pack, chip, panic, allow_total, deny_total, eval_count>>
      /\ eval_ms_max' = req[r].ms
  BY DEF P!eval_max_write, P!files
<1>3. Steps(r) /\ req'[r].pc = "count" /\ req[r].pc = "max_write"
  <2> DEFINE x == [req[r] EXCEPT !.pc = "count", !.ms = 1]
  <2>1. "count" \in P!Pcs /\ 1 \in P!Durations
    BY DEF P!Pcs, P!Durations
  <2>2. x \in P!Request /\ x.pc = "count"
    BY <1>1, <2>1 DEF P!Request
  <2>3. req' = [req EXCEPT ![r] = x] /\ req[r].pc = "max_write"
    BY <1>1 DEF P!eval_max_write, P!At
  <2> HIDE DEF x
  <2> QED BY <1>1, <2>2, <2>3 DEF Steps
<1>4. P!TypeOK'
  BY <1>1, <1>2, <1>3 DEF PInv, P!TypeOK, Steps, P!Request
<1>5. Evaluated(r) /\ Evaluated(r)'
  BY <1>3 DEF Evaluated
<1>6. Cardinality(Counting') = Cardinality(Counting) /\ Cardinality(Totalling') = Cardinality(Totalling)
  BY <1>3, <1>5, Recounts
<1>7. Books'
  BY <1>2, <1>6 DEF PInv, Books
<1>8. \A s \in Requests : Reader(s)'
  BY <1>2, <1>3 DEF PInv, Reader, Steps
<1> QED BY <1>4, <1>7, <1>8 DEF PInv

LEMMA CountedStep ==
    ASSUME P!ProxyAssumption, PInv, NEW r \in Requests, P!eval_counted(r)
    PROVE  PInv'
<1>1. req \in [Requests -> P!Request] /\ req[r] \in P!Request /\ eval_count \in 0..MaxEval
      /\ allow_total \in 0..MaxEval /\ deny_total \in 0..MaxEval
  BY ProxyTypes
<1>2. /\ UNCHANGED <<yaml, pack, chip, panic, allow_total, deny_total, eval_ms_max>>
      /\ eval_count' = eval_count + 1
  BY DEF P!eval_counted, P!files
<1>3. Steps(r) /\ req'[r].pc = "total" /\ req[r].pc = "count"
  BY <1>1 DEF Steps, P!eval_counted, P!Goto, P!Request, P!Pcs, P!At
<1>4. Evaluated(r) /\ ~Evaluated(r)'
  BY <1>3 DEF Evaluated
<1>5. /\ Cardinality(Counting) \in Nat /\ Cardinality(Totalling) \in Nat /\ Cardinality(Counting') \in Nat
      /\ Cardinality(Counting') = Cardinality(Counting) - 1
      /\ Cardinality(Totalling') = Cardinality(Totalling) + 1
  <2>1. Cardinality(Counting') \in Nat
    BY ProxyFinite DEF Counting
  <2> QED BY <1>3, <1>4, <2>1, Recounts
<1>6. Books' /\ eval_count' \in 0..MaxEval
  BY <1>1, <1>2, <1>5, ProxyFinite DEF PInv, Books
<1>7. P!TypeOK'
  BY <1>2, <1>3, <1>6 DEF PInv, P!TypeOK, P!Sums, Steps
<1>8. \A s \in Requests : Reader(s)'
  BY <1>2, <1>3 DEF PInv, Reader, Steps
<1> QED BY <1>6, <1>7, <1>8 DEF PInv

LEMMA TotalStep ==
    ASSUME P!ProxyAssumption, PInv, NEW r \in Requests, P!total(r)
    PROVE  PInv'
<1>1. req \in [Requests -> P!Request] /\ eval_count \in 0..MaxEval
      /\ allow_total \in 0..MaxEval /\ deny_total \in 0..MaxEval
  BY ProxyTypes
<1>2. UNCHANGED <<yaml, pack, chip, panic, eval_count, eval_ms_max>>
  BY DEF P!total, P!files
<1>3. P!Blank("idle") \in P!Request /\ P!Blank("idle").pc = "idle"
  BY BlankTyped DEF P!Pcs, P!Ended
<1>4. Steps(r) /\ req'[r].pc = "idle" /\ req[r].pc = "total"
  BY <1>1, <1>3 DEF Steps, P!total, P!Finish, P!At
<1>5. ~Evaluated(r) /\ ~Evaluated(r)'
  BY <1>4 DEF Evaluated
<1>6. /\ Cardinality(Counting) \in Nat /\ Cardinality(Totalling) \in Nat /\ Cardinality(Totalling') \in Nat
      /\ Cardinality(Counting') = Cardinality(Counting)
      /\ Cardinality(Totalling') = Cardinality(Totalling) - 1
  <2>1. Cardinality(Totalling') \in Nat
    BY ProxyFinite DEF Totalling
  <2> QED BY <1>4, <1>5, <2>1, Recounts
<1>7. \/ allow_total' = allow_total + 1 /\ deny_total' = deny_total
      \/ deny_total' = deny_total + 1 /\ allow_total' = allow_total
  BY DEF P!total
<1>8. Books' /\ allow_total' \in 0..MaxEval /\ deny_total' \in 0..MaxEval
  BY <1>1, <1>2, <1>6, <1>7, ProxyFinite DEF PInv, Books
<1>9. P!TypeOK'
  BY <1>2, <1>4, <1>8 DEF PInv, P!TypeOK, P!Sums, Steps
<1>10. Reader(r)'
  BY <1>4 DEF Reader
<1>11. ASSUME NEW s \in Requests \ {r} PROVE Reader(s)'
  <2>1. req'[s] = req[s] /\ Reader(s) /\ req[s] \in P!Request
    BY <1>1, <1>4 DEF PInv, Steps
  <2>2. req[s].allow \in Nat /\ req[s].deny \in Nat
    BY <2>1 DEF P!Request, P!Sums
  <2> QED BY <1>1, <1>7, <2>1, <2>2 DEF Reader
<1> QED BY <1>8, <1>9, <1>10, <1>11 DEF PInv

\* The evaluations are read last: by then they cover the decisions read before.
LEMMA MetricsStep ==
    ASSUME P!ProxyAssumption, PInv, NEW r \in Requests, P!metricsRead(r)
    PROVE  PInv'
<1>1. req \in [Requests -> P!Request] /\ req[r] \in P!Request /\ eval_count \in 0..MaxEval
      /\ allow_total \in 0..MaxEval /\ deny_total \in 0..MaxEval /\ chip \in Chips /\ panic \in BOOLEAN
  BY ProxyTypes
<1>2. UNCHANGED <<yaml, pack, chip, panic, allow_total, deny_total, eval_count, eval_ms_max>>
  BY DEF P!metricsRead, P!files, P!counters
<1>3. /\ Steps(r) /\ req[r].pc \in {"allow", "deny", "eval"} /\ req'[r].pc \in {"deny", "eval", "reported"}
      /\ Reader(r)'
  <2>1. allow_total + deny_total <= eval_count
    <3>1. Cardinality(Totalling) \in Nat
      BY ProxyFinite DEF Totalling
    <3> QED BY <1>1, <3>1 DEF PInv, Books
  <2>2. Reader(r) /\ req[r].allow \in Nat /\ req[r].deny \in Nat
    BY <1>1 DEF PInv, P!Request, P!Sums
  <2>3. CASE P!At(r, "allow")
    BY <1>1, <1>2, <2>3 DEF P!metricsRead, P!At, Steps, Reader, P!Request, P!Pcs, P!Sums
  <2>4. CASE P!At(r, "deny")
    BY <1>1, <1>2, <2>2, <2>4 DEF P!metricsRead, P!At, Steps, Reader, P!Request, P!Pcs, P!Sums
  <2>5. CASE P!At(r, "eval")
    <3>1. Steps(r) /\ req'[r].pc = "reported" /\ req'[r].allow = req[r].allow
          /\ req'[r].deny = req[r].deny /\ req'[r].eval = eval_count
      BY <1>1, <2>5 DEF P!metricsRead, P!At, Steps, P!Request, P!Pcs, P!Ended, P!Sums
    <3>2. req[r].allow + req[r].deny <= eval_count
      BY <1>1, <2>1, <2>2, <2>5 DEF Reader, P!At
    <3> QED BY <2>5, <3>1, <3>2 DEF Reader, P!At
  <2> QED BY <2>3, <2>4, <2>5 DEF P!metricsRead
<1>4. ~Evaluated(r)'
  BY <1>3 DEF Evaluated
<1> QED BY <1>1, <1>2, <1>3, <1>4, QuietStep

LEMMA OutsideStep ==
    ASSUME PInv, P!Deploy \/ P!Expire PROVE PInv'
<1>1. UNCHANGED <<chip, allow_total, deny_total, eval_count, eval_ms_max, req>>
      /\ {yaml', pack'} \subseteq Chips /\ panic' \in BOOLEAN
  BY ProxyTypes DEF P!Deploy, P!Expire, P!files, P!counters
<1>2. P!TypeOK'
  BY <1>1 DEF PInv, P!TypeOK
<1>3. Books'
  BY <1>1 DEF PInv, Books, Counting, Totalling, Evaluated, P!At
<1>4. \A s \in Requests : Reader(s)'
  BY <1>1 DEF PInv, Reader
<1> QED BY <1>2, <1>3, <1>4 DEF PInv

LEMMA ProxyInit ==
    ASSUME P!ProxyAssumption, P!Init PROVE PInv
<1>1. P!Blank("idle") \in P!Request /\ P!Blank("idle").pc = "idle"
  BY BlankTyped DEF P!Pcs, P!Ended
<1>2. req \in [Requests -> P!Request] /\ \A r \in Requests : req[r].pc = "idle"
  BY <1>1 DEF P!Init
<1>3. P!TypeOK
  <2>1. 0 \in P!Sums
    BY ProxyFinite DEF P!Sums
  <2> QED BY <1>2, <2>1 DEF P!Init, P!TypeOK
<1>4. Counting = {} /\ Totalling = {}
  BY <1>2 DEF Counting, Totalling, Evaluated, P!At
<1>5. Books
  BY <1>4, ProxyFinite, FS_EmptySet DEF Books, P!Init
<1>6. \A r \in Requests : Reader(r)
  BY <1>2 DEF Reader
<1> QED BY <1>3, <1>5, <1>6 DEF PInv

LEMMA ProxyInductive ==
    ASSUME P!ProxyAssumption PROVE P!Spec => []PInv
<1>1. P!Init => PInv
  BY ProxyInit
<1>2. PInv /\ [P!Next]_P!vars => PInv'
  <2> SUFFICES ASSUME PInv, [P!Next]_P!vars PROVE PInv'
    OBVIOUS
  <2>1. CASE UNCHANGED P!vars
    BY <2>1 DEF P!vars, PInv, P!TypeOK, Books, Counting, Totalling, Evaluated, P!At, Reader
  <2>2. CASE P!Next
    BY <2>2, ReloadStep, SwitchStep, ForwardStep, DecideStep, MaxWriteStep, CountedStep, TotalStep,
       MetricsStep, OutsideStep DEF P!Next
  <2> QED BY <2>1, <2>2
<1> QED BY <1>1, <1>2, PTL DEF P!Spec

LEMMA ProxyAddsUp == ASSUME PInv PROVE P!MetricsAddUp
BY DEF PInv, Reader, P!MetricsAddUp, P!At
-----------------------------------------------------------------------------
(***************************************************************************)
(* Handovers.  The commits a row counts as earlier have been answered, and *)
(* have an earlier stamp than the row.                                     *)
(***************************************************************************)

Stamped == \A c, d \in Commits :
    c \in handover[d].earlier => handover[c].pc = "answered" /\ handover[c].at < handover[d].at

HInv == H!TypeOK /\ Stamped

LEMMA HandoverMoves ==
    ASSUME HInv, NEW c \in Commits, H!insert(c) \/ H!answer(c)
    PROVE  HInv'
<1>1. handover \in [Commits -> H!Row] /\ UNCHANGED <<hnow, told>>
  BY DEF HInv, H!TypeOK, H!insert, H!answer
<1>2. PICK pc \in {"stored", "answered"} :
          handover' = [handover EXCEPT ![c].pc = pc] /\ handover[c].pc # "answered"
  BY DEF H!insert, H!answer
<1>3. handover' \in [Commits -> H!Row]
  BY <1>1, <1>2 DEF H!Row
<1>4. Stamped'
  BY <1>1, <1>2 DEF HInv, Stamped, H!Row
<1> QED BY <1>1, <1>3, <1>4 DEF HInv, H!TypeOK

LEMMA CommitStep ==
    ASSUME HInv, NEW c \in Commits, NEW e \in Entities, NEW m \in SUBSET Handed,
           H!handoverCommit(c, e, m)
    PROVE  HInv'
<1>1. handover \in [Commits -> H!Row] /\ UNCHANGED <<hnow, told>> /\ hnow \in 0..MaxMs
  BY DEF HInv, H!TypeOK, H!handoverCommit
<1> DEFINE x == [pc |-> "stamped", entity |-> e, at |-> hnow, map |-> m,
                 earlier |-> {d \in Commits : handover[d].pc = "answered" /\ handover[d].at < hnow}]
<1>2. handover' = [handover EXCEPT ![c] = x] /\ handover[c].pc = "none"
  BY DEF H!handoverCommit
<1>3. x \in H!Row
  BY <1>1 DEF H!Row
<1>4. x.at = hnow /\ \A d \in x.earlier : d \in Commits /\ handover[d].pc = "answered" /\ handover[d].at < hnow
  OBVIOUS
<1> HIDE DEF x
<1>5. handover' \in [Commits -> H!Row]
  BY <1>1, <1>2, <1>3
<1>6. Stamped'
  BY <1>1, <1>2, <1>4 DEF HInv, Stamped
<1> QED BY <1>1, <1>5, <1>6 DEF HInv, H!TypeOK

LEMMA NarrativeStep ==
    ASSUME HInv, NEW e \in Entities, H!prepareNarrative(e)
    PROVE  HInv'
<1>1. handover \in [Commits -> H!Row] /\ UNCHANGED <<hnow, handover>>
  BY DEF HInv, H!TypeOK, H!prepareNarrative
<1>2. \E t \in [by : Commits \cup {None}, notes : SUBSET Handed] : told' = [told EXCEPT ![e] = t]
  <2>1. CASE told' = [told EXCEPT ![e] = H!Nobody]
    BY <2>1 DEF H!Nobody
  <2>2. CASE \E c \in H!getLatestHandover(e) :
               told' = [told EXCEPT ![e] = [by |-> c, notes |-> H!sanityCheck(c)]]
    BY <1>1, <2>2 DEF H!getLatestHandover, H!Rows, H!sanityCheck, H!Row
  <2> QED BY <2>1, <2>2 DEF H!prepareNarrative
<1> QED BY <1>1, <1>2 DEF HInv, H!TypeOK, Stamped

LEMMA HandoversInductive ==
    ASSUME H!HandoversAssumption PROVE H!Spec => []HInv
<1>1. H!Init => HInv
  BY DEF H!Init, HInv, H!TypeOK, Stamped, H!Row, H!Nobody, H!HandoversAssumption
<1>2. HInv /\ [H!Next]_H!vars => HInv'
  <2> SUFFICES ASSUME HInv, [H!Next]_H!vars PROVE HInv'
    OBVIOUS
  <2>1. CASE UNCHANGED H!vars \/ H!Tick
    BY <2>1 DEF H!vars, H!Tick, HInv, H!TypeOK, Stamped, H!HandoversAssumption
  <2> QED BY <2>1, HandoverMoves, CommitStep, NarrativeStep DEF H!Next
<1> QED BY <1>1, <1>2, PTL DEF H!Spec

\* The latest row is told, and no row counts it as earlier.
LEMMA LatestTold ==
    ASSUME H!HandoversAssumption, HInv, [H!Next]_H!vars,
           NEW e \in Entities, told'[e] # told[e], told'[e].by # None
    PROVE  /\ \A d \in H!Rows(e) : told'[e].by \notin handover[d].earlier
           /\ told'[e].notes = handover[told'[e].by].map \ Finished
<1>1. told \in [Entities -> [by : Commits \cup {None}, notes : SUBSET Handed]]
      /\ handover \in [Commits -> H!Row]
  BY DEF HInv, H!TypeOK
<1>2. H!prepareNarrative(e)
  BY <1>1 DEF H!Next, H!vars, H!Tick, H!insert, H!answer, H!handoverCommit, H!prepareNarrative
<1>3. PICK c \in H!getLatestHandover(e) : told'[e] = [by |-> c, notes |-> H!sanityCheck(c)]
  BY <1>1, <1>2 DEF H!prepareNarrative, H!Nobody
<1>4. c \in Commits /\ \A d \in H!Rows(e) : d \in Commits /\ handover[d].at <= handover[c].at
  BY <1>3 DEF H!getLatestHandover, H!Rows
<1>5. \A d \in H!Rows(e) : c \notin handover[d].earlier
  BY <1>1, <1>4 DEF HInv, Stamped, H!Row
<1> QED BY <1>3, <1>5 DEF H!sanityCheck

LEMMA HandoversKnown ==
    ASSUME H!HandoversAssumption PROVE H!Spec => H!HandoverKnown
<1>1. HInv /\ [H!Next]_H!vars =>
        [\A e \in Entities : told'[e] # told[e] /\ told'[e].by # None =>
           /\ \A d \in H!Rows(e) : told'[e].by \notin handover[d].earlier
           /\ told'[e].notes = handover[told'[e].by].map \ Finished]_H!vars
  BY LatestTold
<1> QED BY <1>1, HandoversInductive, PTL DEF H!Spec, H!HandoverKnown
-----------------------------------------------------------------------------
(***************************************************************************)
(* OfficeDesk.  The budget's invariant is inductive with the types.        *)
(***************************************************************************)

DeskInv == D!TypeOK /\ D!BudgetKept

LEMMA ConsumeStep ==
    ASSUME D!DeskAssumption, DeskInv, D!consumeNothing \/ \E n \in Amounts : D!consumeTokens(n)
    PROVE  DeskInv'
<1>1. /\ UNCHANGED <<canonical, lens, advice, view>>
      /\ used \in Int /\ number \in BOOLEAN
  BY DEF DeskInv, D!TypeOK, D!consumeNothing, D!consumeTokens
<1>2. CASE D!consumeNothing
  <2>1. used' = 0 /\ number' = FALSE
    BY <1>2 DEF D!consumeNothing
  <2>2. used' \in Int /\ number' \in BOOLEAN
    <3>1. used' \in Int
      BY <2>1
    <3> QED BY <2>1, <3>1
  <2>3. D!BudgetKept'
    BY <2>1 DEF D!BudgetKept
  <2>4. D!TypeOK'
    BY <1>1, <2>2 DEF DeskInv, D!TypeOK
  <2> QED BY <2>3, <2>4 DEF DeskInv
<1>3. CASE \E n \in Amounts : D!consumeTokens(n)
  <2> PICK n \in Amounts : D!consumeTokens(n)
    BY <1>3
  <2>1. /\ n \in Int /\ Total \in Nat
        /\ number => Total - used >= n
        /\ used' = IF number THEN used + n ELSE used
        /\ number' = number
    BY DEF D!DeskAssumption, D!consumeTokens
  <2>2. number => used' <= Total
    BY <1>1, <2>1
  <2>3. D!BudgetKept'
    BY <2>1, <2>2 DEF D!BudgetKept
  <2>4. used' \in Int
    BY <1>1, <2>1
  <2> QED BY <1>1, <2>1, <2>3, <2>4 DEF DeskInv, D!TypeOK
<1> QED BY <1>2, <1>3

\* What a route shows: files, families or lenses.
LEMMA RouteStep ==
    ASSUME D!DeskAssumption, DeskInv,
           D!FileRoutes \/ D!VersionRoutes \/ D!LensRoutes \/ D!frameBuild
    PROVE  DeskInv'
<1>1. /\ canonical \in [Families -> Files \cup {None}]
      /\ lens \in [Lenses -> [workspace : Workspaces \cup {None}, canonicalOnly : BOOLEAN]]
      /\ view \subseteq Files \cup Families \cup Lenses
  BY DEF DeskInv, D!TypeOK
<1>2. /\ Flagged \subseteq Files /\ Edges \subseteq Files \X Files
      /\ Family \in [Files -> Families \cup {None}]
  BY DEF D!DeskAssumption
<1>3. UNCHANGED <<used, number, advice>>
  BY DEF D!FileRoutes, D!VersionRoutes, D!LensRoutes, D!frameBuild, D!filesGet, D!filesList,
         D!versionsMarkCanonical, D!versionsGraph, D!versionsConflicts, D!lensesList, D!lensesGet,
         D!lensesFrame, D!lensesPut, D!books
<1>4. canonical' \in [Families -> Files \cup {None}]
  <2>1. CASE \E f \in Files : D!versionsMarkCanonical(f)
    BY <1>1, <1>2, <2>1 DEF D!versionsMarkCanonical, D!markCanonical
  <2>2. CASE ~\E f \in Files : D!versionsMarkCanonical(f)
    <3>1. canonical' = canonical
      BY <2>2 DEF D!FileRoutes, D!VersionRoutes, D!LensRoutes, D!frameBuild, D!filesGet, D!filesList,
         D!versionsGraph, D!versionsConflicts, D!lensesList, D!lensesGet, D!lensesFrame, D!lensesPut
    <3> QED BY <1>1, <3>1
  <2> QED BY <2>1, <2>2
<1>5. lens' \in [Lenses -> [workspace : Workspaces \cup {None}, canonicalOnly : BOOLEAN]]
  <2>1. CASE \E w \in Workspaces, l \in Lenses, only \in BOOLEAN : D!lensesPut(l, w, only)
    BY <1>1, <2>1 DEF D!lensesPut
  <2>2. CASE ~\E w \in Workspaces, l \in Lenses, only \in BOOLEAN : D!lensesPut(l, w, only)
    <3>1. lens' = lens
      BY <2>2 DEF D!FileRoutes, D!VersionRoutes, D!LensRoutes, D!frameBuild, D!filesGet, D!filesList,
         D!versionsMarkCanonical, D!versionsGraph, D!versionsConflicts, D!lensesList, D!lensesGet,
         D!lensesFrame
    <3> QED BY <1>1, <3>1
  <2> QED BY <2>1, <2>2
<1>6. view' \subseteq Files \cup Families \cup Lenses
  <2>1. CASE D!FileRoutes \/ D!frameBuild
    BY <1>2, <2>1 DEF D!FileRoutes, D!filesGet, D!filesList, D!frameBuild, D!buildFileContextFrame
  <2>2. CASE D!VersionRoutes
    <3>1. \A f \in Files : D!getGraph(f) \subseteq Files
      BY <1>1, <1>2 DEF D!getGraph
    <3>2. D!getConflicts \subseteq Families
      BY DEF D!getConflicts
    <3> QED BY <1>1, <2>2, <3>1, <3>2 DEF D!VersionRoutes, D!versionsMarkCanonical, D!versionsGraph,
                                          D!versionsConflicts
  <2>3. CASE D!LensRoutes
    BY <1>1, <1>2, <2>3 DEF D!LensRoutes, D!lensesList, D!lensesGet, D!lensesFrame, D!lensesPut, D!getFrame
  <2> QED BY <2>1, <2>2, <2>3
<1>7. D!BudgetKept'
  BY <1>3 DEF DeskInv, D!BudgetKept
<1> QED BY <1>3, <1>4, <1>5, <1>6, <1>7 DEF DeskInv, D!TypeOK

LEMMA SimulationStep ==
    ASSUME DeskInv, NEW a \in D!Actions, NEW f \in Files, NEW s \in {0, 1, 9}, D!simulationRun(a, f, s)
    PROVE  DeskInv'
<1>1. UNCHANGED <<canonical, lens, used, number, view>>
  BY DEF D!simulationRun, D!books
<1>2. /\ D!simulateAction(a, f, s) \in SUBSET {"dependents", "canonical"}
      /\ \A o : D!recommendation(o) \in {"proceed", "modify", "abandon"}
  BY DEF D!simulateAction, D!simulateHighRiskAction, D!recommendation
<1> PICK o \in SUBSET {"dependents", "canonical"}, b \in BOOLEAN :
        advice' = [action |-> a, file |-> f, scored |-> b, outcomes |-> o,
                   recommendation |-> D!recommendation(o)]
  <2>1. (s # 0) \in BOOLEAN
    OBVIOUS
  <2> QED BY <1>2, <2>1 DEF D!simulationRun
<1>3. advice' \in D!Advice
  BY <1>2 DEF D!Advice
<1> QED BY <1>1, <1>3 DEF DeskInv, D!TypeOK, D!BudgetKept

LEMMA DeskInductive ==
    ASSUME D!DeskAssumption PROVE D!Spec => []DeskInv
<1>1. D!Init => DeskInv
  <2> SUFFICES ASSUME D!Init PROVE DeskInv
    OBVIOUS
  <2>1. advice \in D!Advice
    BY DEF D!Init, D!Advice, D!Actions
  <2>2. used \in Int /\ used <= Total
    BY DEF D!Init, D!DeskAssumption
  <2> QED BY <2>1, <2>2 DEF D!Init, DeskInv, D!TypeOK, D!BudgetKept
<1>2. DeskInv /\ [D!Next]_D!vars => DeskInv'
  <2> SUFFICES ASSUME DeskInv, [D!Next]_D!vars PROVE DeskInv'
    OBVIOUS
  <2>1. CASE UNCHANGED D!vars
    BY <2>1 DEF D!vars, DeskInv, D!TypeOK, D!BudgetKept
  <2> QED BY <2>1, ConsumeStep, RouteStep, SimulationStep DEF D!Next
<1> QED BY <1>1, <1>2, PTL DEF D!Spec
-----------------------------------------------------------------------------
(***************************************************************************)
(* OfficeIndex.  Rows and vectors are only added or replaced, so what a    *)
(* run has written is still there when it marks its file.                  *)
(***************************************************************************)

Anchored(f, i) == \E a \in anchor : a.file = f /\ a.i = i
Embedded(f, i) == I!VectorId(f, i) \in vector

\* What run r has written of the text it read.
Written(r) ==
    /\ run[r].pc = "anchors" =>
         /\ run[r].next <= Len(run[r].text) + 1
         /\ \A i \in 1..(run[r].next - 1) : Anchored(run[r].file, i)
    /\ run[r].pc \in {"vectors", "mark"} =>
         \A i \in 1..Len(run[r].text) : Anchored(run[r].file, i)
    /\ run[r].pc = "vectors" =>
         /\ run[r].next <= Len(run[r].text) + 1
         /\ \A i \in 1..(run[r].next - 1) : Embedded(run[r].file, i)
    /\ run[r].pc = "mark" /\ run[r].embeds =>
         \A i \in 1..Len(run[r].text) : Embedded(run[r].file, i)

OneRowEach == \A a, b \in anchor : a.file = b.file /\ a.i = b.i => a = b
Indexes(f) == indexed_at[f] # 0 => \A i \in 1..Len(covered[f]) :
                 Anchored(f, i) /\ (f \in embedded => Embedded(f, i))

XInv == /\ I!TypeOK /\ OneRowEach
        /\ \A f \in Indexed : Indexes(f)
        /\ \A r \in Runs : Written(r)

LEMMA TextTypes ==
    ASSUME I!IndexAssumption, NEW t \in Texts
    PROVE  /\ Len(t) \in Nat /\ Len(t) <= MaxLines /\ MaxLines \in Nat /\ IndexEnd \in Nat \ {0}
           /\ DOMAIN t = 1..Len(t) /\ \A i \in 1..Len(t) : t[i] \in I!Lines
<1>1. t \in Seq(I!Lines)
  BY DEF I!IndexAssumption
<1> QED BY <1>1 DEF I!IndexAssumption

LEMMA IndexTypes ==
    ASSUME XInv
    PROVE  /\ run \in [Runs -> I!Run] /\ covered \in [Indexed -> Texts] /\ blob \in [Indexed -> Texts]
           /\ inow \in 1..IndexEnd /\ updated_at \in [Indexed -> 1..IndexEnd]
           /\ indexed_at \in [Indexed -> 0..IndexEnd]
           /\ anchor \subseteq I!Anchor /\ found \subseteq I!Anchor
           /\ bound \in BOOLEAN /\ embedded \subseteq Indexed
           /\ vector \subseteq {I!VectorId(f, i) : f \in Indexed, i \in 1..MaxLines}
           /\ \A r \in Runs : /\ run[r] \in I!Run /\ run[r].text \in Texts /\ run[r].file \in Indexed
                              /\ run[r].next \in 1..(MaxLines + 1) /\ run[r].embeds \in BOOLEAN
BY DEF XInv, I!TypeOK, I!Run

\* What a step adds: no row and no vector is lost.
Adds == /\ \A f, i : Anchored(f, i) => Anchored(f, i)'
        /\ \A f, i : Embedded(f, i) => Embedded(f, i)'

\* Run r goes on, and the rest of the runs stay.
Goes(r, x) == /\ run' = [run EXCEPT ![r] = x]
              /\ x \in I!Run

LEMMA OthersWritten ==
    ASSUME I!IndexAssumption, XInv, Adds, NEW r \in Runs, NEW x, Goes(r, x), Written(r)'
    PROVE  run' \in [Runs -> I!Run] /\ \A q \in Runs : Written(q)'
<1>1. run' \in [Runs -> I!Run] /\ \A q \in Runs \ {r} : run'[q] = run[q]
  BY IndexTypes DEF Goes
<1>2. ASSUME NEW q \in Runs \ {r} PROVE Written(q)'
  <2>1. Written(q) /\ run'[q] = run[q]
    BY <1>1 DEF XInv
  <2> QED BY <2>1 DEF Written, Adds
<1> QED BY <1>1, <1>2

LEMMA IndexesStay ==
    ASSUME XInv, Adds, UNCHANGED <<indexed_at, covered, embedded>>
    PROVE  \A f \in Indexed : Indexes(f)'
BY DEF XInv, Indexes, Adds

LEMMA ExtractStep ==
    ASSUME I!IndexAssumption, XInv, NEW r \in Runs, NEW f \in Indexed, I!extractText(r, f)
    PROVE  XInv'
<1> DEFINE x == [pc |-> "anchors", file |-> f, text |-> blob[f], next |-> 1, embeds |-> bound]
<1>1. /\ UNCHANGED <<inow, blob, updated_at, indexed_at, anchor, vector, covered, bound, embedded, found>>
      /\ run' = [run EXCEPT ![r] = x]
  BY DEF I!extractText, I!files
<1>2. blob[f] \in Texts /\ Len(blob[f]) \in Nat /\ MaxLines \in Nat /\ bound \in BOOLEAN
  BY IndexTypes, TextTypes
<1>3. x \in I!Run
  BY <1>2 DEF I!Run
<1>4. Adds
  BY <1>1 DEF Adds, Anchored, Embedded
<1>5. Written(r)'
  <2>1. run'[r] = x
    BY <1>1, IndexTypes
  <2> QED BY <1>2, <2>1 DEF Written
<1> HIDE DEF x
<1>6. run' \in [Runs -> I!Run] /\ \A q \in Runs : Written(q)'
  BY <1>1, <1>3, <1>4, <1>5, OthersWritten DEF Goes
<1>7. \A g \in Indexed : Indexes(g)'
  BY <1>1, <1>4, IndexesStay
<1> QED BY <1>1, <1>6, <1>7 DEF XInv, I!TypeOK, OneRowEach

LEMMA StopStep ==
    ASSUME I!IndexAssumption, XInv, NEW r \in Runs, I!fails(r) \/ I!markIndexed(r)
    PROVE  XInv'
<1> DEFINE x == [run[r] EXCEPT !.pc = "idle", !.next = 1]
<1>1. /\ UNCHANGED <<inow, blob, updated_at, anchor, vector, bound, found>>
      /\ run' = [run EXCEPT ![r] = x]
  BY IndexTypes DEF I!fails, I!markIndexed, I!Mark, I!files
<1>2. run[r].text \in Texts /\ Len(run[r].text) \in Nat /\ MaxLines \in Nat /\ run[r].file \in Indexed
  BY IndexTypes, TextTypes
<1>3. x \in I!Run /\ x.pc = "idle"
  <2>1. run[r] \in I!Run /\ 1 \in 1..(MaxLines + 1)
    BY <1>2, IndexTypes
  <2> QED BY <2>1 DEF I!Run
<1>4. Adds
  BY <1>1 DEF Adds, Anchored, Embedded
<1>5. Written(r)'
  <2>1. run'[r] = x
    BY <1>1, IndexTypes
  <2> HIDE DEF x
  <2> QED BY <1>3, <2>1 DEF Written
<1> HIDE DEF x
<1>6. run' \in [Runs -> I!Run] /\ \A q \in Runs : Written(q)'
  BY <1>1, <1>3, <1>4, <1>5, OthersWritten DEF Goes
<1>7. CASE I!fails(r)
  <2>1. UNCHANGED <<indexed_at, covered, embedded>>
    BY <1>7 DEF I!fails
  <2>2. \A g \in Indexed : Indexes(g)'
    BY <1>4, <2>1, IndexesStay
  <2> QED BY <1>1, <1>6, <2>1, <2>2 DEF XInv, I!TypeOK, OneRowEach
<1>8. CASE I!markIndexed(r)
  <2>1. /\ indexed_at' = [indexed_at EXCEPT ![run[r].file] = inow]
        /\ covered' = [covered EXCEPT ![run[r].file] = run[r].text]
        /\ embedded' = IF run[r].embeds THEN embedded \cup {run[r].file}
                       ELSE embedded \ {run[r].file}
        /\ run[r].pc = "mark"
    BY <1>8 DEF I!markIndexed, I!Mark
  <2>2. /\ indexed_at' \in [Indexed -> 0..IndexEnd] /\ covered' \in [Indexed -> Texts]
        /\ embedded' \subseteq Indexed
    BY <1>2, <2>1, IndexTypes
  <2>3. \A i \in 1..Len(run[r].text) :
           Anchored(run[r].file, i) /\ (run[r].embeds => Embedded(run[r].file, i))
    BY <2>1 DEF XInv, Written
  <2>4. ASSUME NEW g \in Indexed PROVE Indexes(g)'
    <3>1. CASE g = run[r].file
      <4>1. covered'[g] = run[r].text /\ (g \in embedded' => run[r].embeds)
        BY <1>2, <2>1, <3>1, IndexTypes
      <4> QED BY <1>4, <2>3, <3>1, <4>1 DEF Indexes, Adds
    <3>2. CASE g # run[r].file
      <4>1. /\ covered'[g] = covered[g] /\ indexed_at'[g] = indexed_at[g]
            /\ g \in embedded' => g \in embedded
        BY <2>1, <3>2, IndexTypes
      <4> QED BY <1>4, <4>1 DEF XInv, Indexes, Adds
    <3> QED BY <3>1, <3>2
  <2> QED BY <1>1, <1>6, <2>2, <2>4 DEF XInv, I!TypeOK, OneRowEach
<1> QED BY <1>7, <1>8

\* One line more, or the next stage.
LEMMA Advanced ==
    ASSUME I!IndexAssumption, XInv, NEW r \in Runs, NEW pc \in {"vectors", "mark"},
           I!Advance(r, pc), run[r].pc \in {"anchors", "vectors"}
    PROVE  \E x \in I!Run :
             /\ run' = [run EXCEPT ![r] = x] /\ run'[r] = x
             /\ x.file = run[r].file /\ x.text = run[r].text /\ x.embeds = run[r].embeds
             /\ I!Left(r)  => x.pc = run[r].pc /\ x.next = run[r].next + 1
             /\ ~I!Left(r) => x.pc = pc /\ x.next = 1
<1> DEFINE x == [run[r] EXCEPT !.next = IF I!Left(r) THEN run[r].next + 1 ELSE 1,
                               !.pc = IF I!Left(r) THEN run[r].pc ELSE pc]
<1>1. /\ run[r] \in I!Run /\ run[r].next \in 1..(MaxLines + 1) /\ run \in [Runs -> I!Run]
      /\ Len(run[r].text) \in Nat /\ Len(run[r].text) <= MaxLines /\ MaxLines \in Nat
  BY IndexTypes, TextTypes
<1>2. /\ I!Left(r) => run[r].next + 1 \in 1..(MaxLines + 1)
      /\ 1 \in 1..(MaxLines + 1)
  BY <1>1 DEF I!Left
<1>3. x \in I!Run
  BY <1>1, <1>2 DEF I!Run
<1>4. /\ x.file = run[r].file /\ x.text = run[r].text /\ x.embeds = run[r].embeds
      /\ I!Left(r)  => x.pc = run[r].pc /\ x.next = run[r].next + 1
      /\ ~I!Left(r) => x.pc = pc /\ x.next = 1
  BY <1>1 DEF I!Run
<1>5. run' = [run EXCEPT ![r] = x]
  BY <1>1 DEF I!Advance
<1>6. run'[r] = x
  BY <1>1, <1>5
<1> HIDE DEF x
<1> QED BY <1>3, <1>4, <1>5, <1>6

LEMMA PersistStep ==
    ASSUME I!IndexAssumption, XInv, NEW r \in Runs, I!persistAnchors(r)
    PROVE  XInv'
<1>1. /\ UNCHANGED <<inow, blob, updated_at, indexed_at, vector, covered, bound, embedded, found>>
      /\ run[r].pc = "anchors" /\ I!Advance(r, "vectors")
  BY DEF I!persistAnchors, I!files
<1>2. PICK x \in I!Run :
        /\ run' = [run EXCEPT ![r] = x] /\ run'[r] = x
        /\ x.file = run[r].file /\ x.text = run[r].text
        /\ I!Left(r)  => x.pc = run[r].pc /\ x.next = run[r].next + 1
        /\ ~I!Left(r) => x.pc = "vectors" /\ x.next = 1
  BY <1>1, Advanced
<1>3. /\ run[r].text \in Texts /\ run[r].file \in Indexed /\ run[r].next \in 1..(MaxLines + 1)
      /\ Len(run[r].text) \in Nat /\ Len(run[r].text) <= MaxLines /\ MaxLines \in Nat
      /\ \A i \in 1..Len(run[r].text) : run[r].text[i] \in I!Lines
      /\ anchor \subseteq I!Anchor
  BY IndexTypes, TextTypes
<1>4. Written(r)
  BY DEF XInv
<1> PICK f \in Indexed, n \in 1..(MaxLines + 1) : f = run[r].file /\ n = run[r].next
  BY <1>3
<1>5. CASE I!Left(r)
  <2> DEFINE a == [file |-> run[r].file, i |-> run[r].next, preview |-> run[r].text[run[r].next]]
  <2>1. anchor' = {b \in anchor : b.file # run[r].file \/ b.i # run[r].next} \cup {a}
    BY <1>5 DEF I!persistAnchors
  <2>2. a \in I!Anchor /\ a.file = run[r].file /\ a.i = run[r].next
    BY <1>3, <1>5 DEF I!Anchor, I!Left
  <2> HIDE DEF a
  <2>3. anchor' \subseteq I!Anchor /\ OneRowEach'
    BY <1>3, <2>1, <2>2 DEF XInv, OneRowEach
  <2>4. Adds /\ Anchored(f, n)'
    BY <1>1, <2>1, <2>2 DEF Adds, Anchored, Embedded
  <2>5. Written(r)'
    <3>1. /\ run'[r].pc = "anchors" /\ run'[r].next = n + 1 /\ n <= Len(run[r].text)
          /\ run'[r].file = f /\ run'[r].text = run[r].text /\ n \in Nat
      BY <1>1, <1>2, <1>3, <1>5 DEF I!Left
    <3>2. \A i \in 1..n : Anchored(f, i)'
      <4>1. \A i \in 1..(n - 1) : Anchored(f, i)
        BY <1>1, <1>4 DEF Written
      <4> QED BY <2>4, <3>1, <4>1 DEF Adds
    <3> QED BY <1>3, <3>1, <3>2 DEF Written
  <2>6. run' \in [Runs -> I!Run] /\ \A q \in Runs : Written(q)'
    BY <1>2, <2>4, <2>5, OthersWritten DEF Goes
  <2>7. \A g \in Indexed : Indexes(g)'
    BY <1>1, <2>4, IndexesStay
  <2> QED BY <1>1, <2>3, <2>6, <2>7 DEF XInv, I!TypeOK
<1>6. CASE ~I!Left(r)
  <2>1. anchor' = anchor
    BY <1>6 DEF I!persistAnchors
  <2>2. Adds
    BY <1>1, <2>1 DEF Adds, Anchored, Embedded
  <2>3. run[r].next = Len(run[r].text) + 1
    BY <1>1, <1>3, <1>4, <1>6 DEF I!Left, Written
  <2>4. Written(r)'
    BY <1>1, <1>2, <1>3, <1>4, <1>6, <2>2, <2>3 DEF Written, Adds
  <2>5. run' \in [Runs -> I!Run] /\ \A q \in Runs : Written(q)'
    BY <1>2, <2>2, <2>4, OthersWritten DEF Goes
  <2>6. \A g \in Indexed : Indexes(g)'
    BY <1>1, <2>2, IndexesStay
  <2> QED BY <1>1, <2>1, <2>5, <2>6 DEF XInv, I!TypeOK, OneRowEach
<1> QED BY <1>5, <1>6

\* Without the bindings nothing is written, and nothing is said of the vectors.
LEMMA SkipStep ==
    ASSUME I!IndexAssumption, XInv, NEW r \in Runs, I!embedAndStore(r), ~run[r].embeds
    PROVE  XInv'
<1> DEFINE x == [run[r] EXCEPT !.pc = "mark"]
<1>1. /\ UNCHANGED <<inow, blob, updated_at, indexed_at, anchor, vector, covered, bound, embedded, found>>
      /\ run[r].pc = "vectors" /\ run' = [run EXCEPT ![r] = x]
  BY IndexTypes DEF I!embedAndStore, I!files
<1>2. x \in I!Run /\ run' \in [Runs -> I!Run] /\ run'[r] = x
      /\ x.pc = "mark" /\ x.text = run[r].text /\ x.file = run[r].file /\ x.embeds = FALSE
  BY <1>1, IndexTypes DEF I!Run
<1> HIDE DEF x
<1>3. Adds
  BY <1>1 DEF Adds, Anchored, Embedded
<1>4. Written(r)'
  <2>1. \A i \in 1..Len(run[r].text) : Anchored(run[r].file, i)
    BY <1>1 DEF XInv, Written
  <2> QED BY <1>2, <1>3, <2>1 DEF Written, Adds
<1>5. run' \in [Runs -> I!Run] /\ \A q \in Runs : Written(q)'
  BY <1>1, <1>2, <1>3, <1>4, OthersWritten DEF Goes
<1>6. \A g \in Indexed : Indexes(g)'
  BY <1>1, <1>3, IndexesStay
<1> QED BY <1>1, <1>5, <1>6 DEF XInv, I!TypeOK, OneRowEach

LEMMA EmbedStep ==
    ASSUME I!IndexAssumption, XInv, NEW r \in Runs, I!embedAndStore(r), run[r].embeds
    PROVE  XInv'
<1>1. /\ UNCHANGED <<inow, blob, updated_at, indexed_at, anchor, covered, bound, embedded, found>>
      /\ run[r].pc = "vectors" /\ I!Advance(r, "mark")
  BY DEF I!embedAndStore, I!files
<1>2. PICK x \in I!Run :
        /\ run' = [run EXCEPT ![r] = x] /\ run'[r] = x
        /\ x.file = run[r].file /\ x.text = run[r].text
        /\ I!Left(r)  => x.pc = run[r].pc /\ x.next = run[r].next + 1
        /\ ~I!Left(r) => x.pc = "mark" /\ x.next = 1
  BY <1>1, Advanced
<1>3. /\ run[r].text \in Texts /\ run[r].file \in Indexed /\ run[r].next \in 1..(MaxLines + 1)
      /\ Len(run[r].text) \in Nat /\ Len(run[r].text) <= MaxLines /\ MaxLines \in Nat
      /\ vector \subseteq {I!VectorId(f, i) : f \in Indexed, i \in 1..MaxLines}
  BY IndexTypes, TextTypes
<1>4. Written(r)
  BY DEF XInv
<1> PICK f \in Indexed, n \in 1..(MaxLines + 1) : f = run[r].file /\ n = run[r].next
  BY <1>3
<1>5. CASE I!Left(r)
  <2>1. vector' = vector \cup {I!VectorId(run[r].file, run[r].next)}
    BY <1>5 DEF I!embedAndStore
  <2>2. vector' \subseteq {I!VectorId(g, i) : g \in Indexed, i \in 1..MaxLines}
    <3>1. run[r].next \in 1..MaxLines
      BY <1>3, <1>5 DEF I!Left
    <3> QED BY <1>3, <2>1, <3>1
  <2>4. Adds /\ Embedded(f, n)'
    BY <1>1, <2>1 DEF Adds, Anchored, Embedded
  <2>5. Written(r)'
    <3>1. /\ run'[r].pc = "vectors" /\ run'[r].next = n + 1 /\ n <= Len(run[r].text)
          /\ run'[r].file = f /\ run'[r].text = run[r].text /\ n \in Nat
      BY <1>1, <1>2, <1>3, <1>5 DEF I!Left
    <3>2. \A i \in 1..n : Embedded(f, i)'
      <4>1. \A i \in 1..(n - 1) : Embedded(f, i)
        BY <1>1, <1>4 DEF Written
      <4> QED BY <2>4, <3>1, <4>1 DEF Adds
    <3>3. \A i \in 1..Len(run[r].text) : Anchored(f, i)'
      BY <1>1, <1>4, <2>4 DEF Written, Adds
    <3> QED BY <1>3, <3>1, <3>2, <3>3 DEF Written
  <2>6. run' \in [Runs -> I!Run] /\ \A q \in Runs : Written(q)'
    BY <1>2, <2>4, <2>5, OthersWritten DEF Goes
  <2>7. \A g \in Indexed : Indexes(g)'
    BY <1>1, <2>4, IndexesStay
  <2> QED BY <1>1, <2>2, <2>6, <2>7 DEF XInv, I!TypeOK, OneRowEach
<1>6. CASE ~I!Left(r)
  <2>1. vector' = vector
    BY <1>6 DEF I!embedAndStore
  <2>2. Adds
    BY <1>1, <2>1 DEF Adds, Anchored, Embedded
  <2>3. run[r].next = Len(run[r].text) + 1
    BY <1>1, <1>3, <1>4, <1>6 DEF I!Left, Written
  <2>4. Written(r)'
    BY <1>1, <1>2, <1>3, <1>4, <1>6, <2>2, <2>3 DEF Written, Adds
  <2>5. run' \in [Runs -> I!Run] /\ \A q \in Runs : Written(q)'
    BY <1>2, <2>2, <2>4, OthersWritten DEF Goes
  <2>6. \A g \in Indexed : Indexes(g)'
    BY <1>1, <2>2, IndexesStay
  <2> QED BY <1>1, <2>1, <2>5, <2>6 DEF XInv, I!TypeOK, OneRowEach
<1> QED BY <1>5, <1>6

LEMMA IndexInductive ==
    ASSUME I!IndexAssumption PROVE I!Spec => []XInv
<1>1. I!Init => XInv
  <2> SUFFICES ASSUME I!Init PROVE XInv
    OBVIOUS
  <2>1. PICK f \in Indexed :
          run = [r \in Runs |-> [pc |-> "idle", file |-> f, text |-> blob[f], next |-> 1,
                                 embeds |-> FALSE]]
    BY DEF I!Init
  <2>2. MaxLines \in Nat /\ IndexEnd \in Nat \ {0} /\ blob[f] \in Texts
    BY DEF I!IndexAssumption, I!Init
  <2>3. run \in [Runs -> I!Run] /\ \A r \in Runs : run[r].pc = "idle"
    BY <2>1, <2>2 DEF I!Run
  <2>4. I!TypeOK
    <3>1. bound \in BOOLEAN /\ embedded = {} /\ anchor = {} /\ vector = {} /\ found = {}
      BY DEF I!Init
    <3>2. /\ inow \in 1..IndexEnd /\ blob \in [Indexed -> Texts] /\ covered \in [Indexed -> Texts]
          /\ updated_at \in [Indexed -> 1..IndexEnd] /\ indexed_at \in [Indexed -> 0..IndexEnd]
      BY <2>2 DEF I!Init
    <3> QED BY <2>3, <3>1, <3>2 DEF I!TypeOK
  <2> QED BY <2>3, <2>4 DEF I!Init, XInv, OneRowEach, Indexes, Written
<1>2. XInv /\ [I!Next]_I!vars => XInv'
  <2> SUFFICES ASSUME XInv, [I!Next]_I!vars PROVE XInv'
    OBVIOUS
  <2>1. ASSUME UNCHANGED <<indexed_at, anchor, vector, run, covered, embedded>>, I!TypeOK'
        PROVE  XInv'
    BY <2>1 DEF XInv, OneRowEach, Indexes, Written, Anchored, Embedded
  <2>2. CASE UNCHANGED I!vars
    <3>1. UNCHANGED <<indexed_at, anchor, vector, run, covered, embedded>> /\ I!TypeOK'
      BY <2>2 DEF I!vars, I!files, I!TypeOK, XInv
    <3> QED BY <2>1, <3>1
  <2>3. ASSUME NEW f \in Indexed, NEW t \in Texts, I!Upload(f, t) PROVE XInv'
    <3>1. UNCHANGED <<indexed_at, anchor, vector, run, covered, bound, embedded>>
      BY <2>3 DEF I!Upload
    <3>2. I!TypeOK'
      <4>1. IndexEnd \in Nat /\ inow \in 1..IndexEnd /\ inow < IndexEnd /\ inow' = inow + 1
        BY <2>3, IndexTypes DEF I!Upload, I!IndexAssumption
      <4> QED BY <2>3, <3>1, <4>1 DEF I!Upload, I!TypeOK, XInv
    <3> QED BY <2>1, <3>1, <3>2
  <2>4. CASE I!EvidenceRoutes
    <3>1. UNCHANGED I!index
      BY <2>4 DEF I!EvidenceRoutes, I!anchorsSearch, I!anchorsGet, I!evidenceSearch, I!evidenceAnswer
    <3>2. found' \subseteq anchor
      BY <2>4 DEF I!EvidenceRoutes, I!anchorsSearch, I!anchorsGet, I!evidenceSearch,
                  I!evidenceAnswer, I!Hydrated
    <3>3. UNCHANGED <<indexed_at, anchor, vector, run, covered, embedded>> /\ I!TypeOK'
      BY <3>1, <3>2 DEF I!index, I!files, I!TypeOK, XInv
    <3> QED BY <2>1, <3>3
  <2>5. CASE I!Deploy
    <3>1. UNCHANGED <<indexed_at, anchor, vector, run, covered, embedded>> /\ I!TypeOK'
      BY <2>5 DEF I!Deploy, I!files, I!TypeOK, XInv
    <3> QED BY <2>1, <3>1
  <2> QED BY <2>2, <2>3, <2>4, <2>5, ExtractStep, StopStep, PersistStep, SkipStep, EmbedStep
      DEF I!Next
<1> QED BY <1>1, <1>2, PTL DEF I!Spec

LEMMA AnchorsAreCovered ==
    ASSUME I!IndexAssumption, XInv PROVE I!AnchorsCover
<1> SUFFICES ASSUME NEW f \in Indexed, indexed_at[f] # 0, NEW i \in DOMAIN covered[f]
             PROVE  /\ I!Cardinality({a \in anchor : a.file = f /\ a.i = i}) = 1
                    /\ f \in embedded => I!VectorId(f, i) \in vector
  BY DEF I!AnchorsCover
<1>1. Anchored(f, i) /\ (f \in embedded => Embedded(f, i))
  BY IndexTypes, TextTypes DEF XInv, Indexes
<1>2. PICK b \in anchor : b.file = f /\ b.i = i
  BY <1>1 DEF Anchored
<1>3. {a \in anchor : a.file = f /\ a.i = i} = {b}
  BY <1>2 DEF XInv, OneRowEach
<1>4. Cardinality({b}) = 1
  BY FS_Singleton
<1>5. \A A : I!Cardinality(A) = Cardinality(A)
  BY DEF I!Cardinality, Cardinality
<1> QED BY <1>1, <1>3, <1>4, <1>5 DEF Embedded
-----------------------------------------------------------------------------
(***************************************************************************)
(* McpGateway.  A key that was run is in its session's cache, or its time  *)
(* is up, or more keys were run than the cache holds.                      *)
(***************************************************************************)

Ran(s) == {k \in M!Keys : lastRun[s][k] # None}

\* Each key once in the cache, and only keys that were run.
Cache(s) ==
    /\ IsFiniteSet(mcp[s].idempo)
    /\ \A e, o \in mcp[s].idempo : e.key = o.key => e = o
    /\ \A e \in mcp[s].idempo : e.key \in Ran(s)

Kept(s, k) == \/ \E e \in mcp[s].idempo : e.key = k /\ e.at = lastRun[s][k]
              \/ clock - lastRun[s][k] >= TTL
              \/ Cardinality(Ran(s)) > Capacity

Sessions == [tenant : M!Tenants \cup {None}, idempo : SUBSET M!Entries]

CInv == /\ M!TypeOK /\ mcp \in [Socks -> Sessions \cup {None}]
        /\ \A s \in Socks : M!Live(s) => Cache(s) /\ \A k \in Ran(s) : Kept(s, k)

LEMMA KeysFinite ==
    ASSUME M!McpAssumption
    PROVE  /\ IsFiniteSet(M!Keys) /\ \A A \in SUBSET M!Keys : IsFiniteSet(A) /\ Cardinality(A) \in Nat
           /\ \A A : M!Cardinality(A) = Cardinality(A)
           /\ TTL \in Nat \ {0} /\ Capacity \in Nat \ {0} /\ MaxTicks \in Nat /\ None \notin 0..MaxTicks
<1>1. \A A : M!Cardinality(A) = Cardinality(A)
  BY DEF M!Cardinality, Cardinality
<1>2. IsFiniteSet(Metas)
  BY DEF M!McpAssumption, M!IsFiniteSet, IsFiniteSet
<1>3. IsFiniteSet(M!Keys)
  <2> DEFINE f == [m \in Metas |-> Key(m.client, m.op)]
  <2>1. f \in Surjection(Metas, M!Keys)
    BY DEF M!Keys, Surjection
  <2> QED BY <1>2, <2>1, FS_Surjection
<1>4. \A A \in SUBSET M!Keys : IsFiniteSet(A) /\ Cardinality(A) \in Nat
  BY <1>3, FS_Subset, FS_CardinalityType
<1> QED BY <1>1, <1>3, <1>4 DEF M!McpAssumption

\* A cache with each key once has no more entries than keys.
LEMMA CacheSize ==
    ASSUME M!McpAssumption, NEW c \in SUBSET M!Entries, NEW ks \in SUBSET M!Keys,
           \A e, o \in c : e.key = o.key => e = o,
           \A e \in c : e.key \in ks
    PROVE  IsFiniteSet(c) /\ Cardinality(c) <= Cardinality(ks) /\ Cardinality(c) \in Nat
<1> DEFINE f == [e \in c |-> e.key]
<1>1. f \in Injection(c, ks)
  BY DEF Injection, IsInjective
<1>2. IsFiniteSet(ks)
  BY KeysFinite
<1> QED BY <1>1, <1>2, FS_Injection, FS_CardinalityType

\* The steps that leave the caches and the runs as they are.
LEMMA CalmStep ==
    ASSUME M!McpAssumption, CInv, UNCHANGED <<clock, lastRun>>,
           mcp' \in [Socks -> Sessions \cup {None}],
           \A s \in Socks : M!Live(s)' => M!Live(s) /\ mcp'[s].idempo = mcp[s].idempo
    PROVE  CInv'
<1>1. M!TypeOK'
  <2>1. ASSUME NEW s \in Socks, M!Live(s)'
        PROVE  /\ mcp'[s].tenant \in M!Tenants \cup {None}
               /\ mcp'[s].idempo \subseteq M!Entries
               /\ M!Cardinality(mcp'[s].idempo) <= Capacity
    <3>1. mcp'[s] \in Sessions
      BY <2>1 DEF M!Live
    <3> QED BY <2>1, <3>1 DEF CInv, M!TypeOK, Sessions
  <2> QED BY <2>1 DEF CInv, M!TypeOK
<1>2. \A s \in Socks : M!Live(s)' => Cache(s)' /\ \A k \in Ran(s)' : Kept(s, k)'
  BY DEF CInv, Cache, Kept, Ran
<1> QED BY <1>1, <1>2 DEF CInv

LEMMA UpgradeStep ==
    ASSUME M!McpAssumption, CInv, NEW s \in Socks, M!ws_upgrade(s)
    PROVE  CInv'
<1> DEFINE x == [tenant |-> None, idempo |-> {}]
<1>1. /\ mcp' = [mcp EXCEPT ![s] = x] /\ UNCHANGED <<clock, lastRun>>
      /\ \A k \in M!Keys : lastRun[s][k] = None
      /\ mcp \in [Socks -> Sessions \cup {None}]
  BY DEF M!ws_upgrade, CInv
<1>2. x \in Sessions /\ x.idempo = {} /\ x.tenant = None
  BY DEF Sessions
<1> HIDE DEF x
<1>3. mcp' \in [Socks -> Sessions \cup {None}] /\ mcp'[s] = x /\ \A t \in Socks \ {s} : mcp'[t] = mcp[t]
  BY <1>1, <1>2
<1>4. Ran(s)' = {} /\ \A t \in Socks : Ran(t)' = Ran(t)
  BY <1>1 DEF Ran
<1>5. Cache(s)'
  BY <1>2, <1>3, FS_EmptySet DEF Cache
<1>6. \A t \in Socks \ {s} : M!Live(t)' => Cache(t)' /\ \A k \in Ran(t)' : Kept(t, k)'
  BY <1>1, <1>3, <1>4 DEF CInv, Cache, Kept, M!Live
<1>7. M!TypeOK'
  <2>1. M!Cardinality({}) = 0 /\ 0 <= Capacity
    BY KeysFinite, FS_EmptySet
  <2>2. \A t \in Socks \ {s} : M!Live(t)' => /\ mcp'[t].tenant \in M!Tenants \cup {None}
                                             /\ mcp'[t].idempo \subseteq M!Entries
                                             /\ M!Cardinality(mcp'[t].idempo) <= Capacity
    BY <1>3 DEF CInv, M!TypeOK, M!Live
  <2>3. /\ mcp'[s].tenant \in M!Tenants \cup {None}
        /\ mcp'[s].idempo \subseteq M!Entries
        /\ M!Cardinality(mcp'[s].idempo) <= Capacity
    BY <1>2, <1>3, <2>1
  <2> QED BY <1>1, <2>2, <2>3 DEF CInv, M!TypeOK
<1> QED BY <1>3, <1>4, <1>5, <1>6, <1>7 DEF CInv

LEMMA TickStep ==
    ASSUME M!McpAssumption, CInv, M!Tick
    PROVE  CInv'
<1>1. clock \in Nat /\ clock' = clock + 1 /\ clock' \in 0..MaxTicks /\ UNCHANGED <<mcp, lastRun>>
  BY KeysFinite DEF M!Tick, CInv, M!TypeOK
<1>2. M!TypeOK'
  BY <1>1 DEF CInv, M!TypeOK, M!Live
<1>3. ASSUME NEW s \in Socks, M!Live(s)' PROVE Cache(s)' /\ \A k \in Ran(s)' : Kept(s, k)'
  <2>1. Cache(s) /\ Ran(s)' = Ran(s) /\ \A k \in Ran(s) : Kept(s, k)
    BY <1>1, <1>3 DEF CInv, M!Live, Ran
  <2>2. Cache(s)'
    BY <1>1, <2>1 DEF Cache
  <2>3. ASSUME NEW k \in Ran(s) PROVE Kept(s, k)'
    <3>1. lastRun[s][k] \in 0..MaxTicks
      BY <2>3 DEF Ran, CInv, M!TypeOK
    <3>2. lastRun[s][k] \in Nat /\ TTL \in Nat
      BY <3>1, KeysFinite
    <3> QED BY <1>1, <2>1, <2>3, <3>2 DEF Kept
  <2> QED BY <2>1, <2>2, <2>3
<1> QED BY <1>1, <1>2, <1>3 DEF CInv

\* A run of a tool: the cache has it, and only a full one lets another go.
LEMMA RunStep ==
    ASSUME M!McpAssumption, CInv, NEW s \in Socks, NEW k \in M!Keys, NEW tool \in Tools, M!Live(s),
           NEW c \in M!insert(mcp[s].idempo, [key |-> k, at |-> clock, result |-> tool]),
           mcp' = [mcp EXCEPT ![s].idempo = c],
           lastRun' = [lastRun EXCEPT ![s][k] = clock], clock' = clock
    PROVE  CInv'
<1> DEFINE e == [key |-> k, at |-> clock, result |-> tool]
           x == [mcp[s] EXCEPT !.idempo = c]
<1>1. /\ clock \in 0..MaxTicks /\ mcp \in [Socks -> Sessions \cup {None}] /\ mcp[s] \in Sessions
      /\ lastRun \in [Socks -> [M!Keys -> 0..MaxTicks \cup {None}]]
      /\ Cache(s) /\ (\A j \in Ran(s) : Kept(s, j)) /\ M!Cardinality(mcp[s].idempo) <= Capacity
      /\ mcp[s].idempo \subseteq M!Entries /\ clock # None
  BY KeysFinite DEF CInv, M!TypeOK, M!Live, Sessions
<1>2. e \in M!Entries /\ e.key = k /\ e.at = clock
  BY <1>1 DEF M!Entries
<1> DEFINE rest == {o \in mcp[s].idempo : o.key # k}
<1>3. PICK all : /\ all = rest \cup {e}
                 /\ \/ M!Cardinality(all) <= Capacity /\ c = all
                    \/ ~(M!Cardinality(all) <= Capacity) /\ \E o \in all : c = all \ {o}
  BY <1>2 DEF M!insert
<1> HIDE DEF e
<1>4. /\ lastRun'[s][k] = clock /\ lastRun' \in [Socks -> [M!Keys -> 0..MaxTicks \cup {None}]]
      /\ \A j \in M!Keys \ {k} : lastRun'[s][j] = lastRun[s][j]
      /\ \A t \in Socks \ {s} : lastRun'[t] = lastRun[t]
  BY <1>1
<1>5. Ran(s)' = Ran(s) \cup {k} /\ \A t \in Socks \ {s} : Ran(t)' = Ran(t)
  BY <1>1, <1>4 DEF Ran
<1>6. /\ all \subseteq M!Entries
      /\ \A f, o \in all : f.key = o.key => f = o
      /\ \A f \in all : f.key \in Ran(s)'
  BY <1>1, <1>2, <1>3, <1>5 DEF Cache
<1>7. /\ IsFiniteSet(all) /\ Cardinality(all) <= Cardinality(Ran(s)') /\ Cardinality(all) \in Nat
      /\ Cardinality(Ran(s)') \in Nat
  <2>1. Ran(s)' \subseteq M!Keys
    BY DEF Ran
  <2> QED BY <1>6, <2>1, CacheSize, KeysFinite
<1>8. c \subseteq all /\ IsFiniteSet(c)
  BY <1>3, <1>7, FS_Subset
<1>9. M!Cardinality(c) <= Capacity
  <2>1. CASE M!Cardinality(all) <= Capacity /\ c = all
    BY <2>1
  <2>2. ASSUME NEW o \in all, c = all \ {o} PROVE M!Cardinality(c) <= Capacity
    <3>1. IsFiniteSet(mcp[s].idempo) /\ IsFiniteSet(rest) /\ Cardinality(rest) <= Cardinality(mcp[s].idempo)
      BY <1>1, FS_Subset DEF Cache
    <3>2. Cardinality(all) <= Cardinality(rest) + 1 /\ Cardinality(rest) \in Nat
          /\ Cardinality(mcp[s].idempo) \in Nat
      <4>1. Cardinality(rest) \in Nat /\ Cardinality(mcp[s].idempo) \in Nat
        BY <3>1, FS_CardinalityType
      <4> HIDE DEF rest
      <4>2. Cardinality(all) = IF e \in rest THEN Cardinality(rest) ELSE Cardinality(rest) + 1
        BY <1>3, <3>1, FS_AddElement
      <4> QED BY <4>1, <4>2
    <3>3. Cardinality(c) = Cardinality(all) - 1
      BY <1>7, <2>2, FS_RemoveElement
    <3>4. /\ M!Cardinality(c) = Cardinality(c) /\ Capacity \in Nat
          /\ M!Cardinality(mcp[s].idempo) = Cardinality(mcp[s].idempo)
      BY KeysFinite
    <3> QED BY <1>1, <1>7, <3>1, <3>2, <3>3, <3>4
  <2> QED BY <1>3, <2>1, <2>2
<1>10. x \in Sessions /\ x.idempo = c /\ x.tenant = mcp[s].tenant
  BY <1>1, <1>6, <1>8 DEF Sessions
<1>11. mcp' = [mcp EXCEPT ![s] = x]
  BY <1>1
<1> HIDE DEF x
<1>12. mcp' \in [Socks -> Sessions \cup {None}] /\ mcp'[s] = x /\ \A t \in Socks \ {s} : mcp'[t] = mcp[t]
  BY <1>1, <1>10, <1>11
<1>13. M!TypeOK'
  <2>1. \A t \in Socks \ {s} : M!Live(t)' => /\ mcp'[t].tenant \in M!Tenants \cup {None}
                                             /\ mcp'[t].idempo \subseteq M!Entries
                                             /\ M!Cardinality(mcp'[t].idempo) <= Capacity
    BY <1>12 DEF CInv, M!TypeOK, M!Live
  <2>2. /\ mcp'[s].tenant \in M!Tenants \cup {None}
        /\ mcp'[s].idempo \subseteq M!Entries
        /\ M!Cardinality(mcp'[s].idempo) <= Capacity
    BY <1>9, <1>10, <1>12 DEF Sessions
  <2> QED BY <1>1, <1>4, <2>1, <2>2 DEF M!TypeOK
<1>14. Cache(s)'
  BY <1>6, <1>8, <1>10, <1>12 DEF Cache
<1>15. ASSUME NEW j \in Ran(s)' PROVE Kept(s, j)'
  <2>1. CASE M!Cardinality(all) <= Capacity /\ c = all
    <3>1. CASE j = k
      BY <1>2, <1>3, <1>4, <1>10, <1>12, <2>1, <3>1 DEF Kept
    <3>2. CASE j # k
      <4>1. j \in Ran(s) /\ lastRun'[s][j] = lastRun[s][j] /\ Kept(s, j)
        BY <1>1, <1>4, <1>5, <1>15, <3>2 DEF Ran
      <4>2. (\E o \in mcp[s].idempo : o.key = j /\ o.at = lastRun[s][j]) => Kept(s, j)'
        BY <1>3, <1>10, <1>12, <2>1, <3>2, <4>1 DEF Kept
      <4>3. Cardinality(Ran(s)) > Capacity => Cardinality(Ran(s)') > Capacity
        <5>1. Ran(s)' \subseteq M!Keys /\ Ran(s) \subseteq Ran(s)'
          BY <1>5 DEF Ran
        <5>2. Cardinality(Ran(s)) <= Cardinality(Ran(s)') /\ Cardinality(Ran(s)) \in Nat
          BY <5>1, KeysFinite, FS_Subset
        <5> QED BY <1>7, <5>2, KeysFinite
      <4> QED BY <4>1, <4>2, <4>3 DEF Kept
    <3> QED BY <3>1, <3>2
  <2>2. CASE ~(M!Cardinality(all) <= Capacity)
    <3>1. Cardinality(Ran(s)') > Capacity
      BY <1>7, <2>2, KeysFinite
    <3> QED BY <3>1 DEF Kept
  <2> QED BY <1>3, <2>1, <2>2
<1>16. \A t \in Socks \ {s} : M!Live(t)' => Cache(t)' /\ \A j \in Ran(t)' : Kept(t, j)'
  BY <1>4, <1>5, <1>12 DEF CInv, Cache, Kept, M!Live
<1> QED BY <1>12, <1>13, <1>14, <1>15, <1>16 DEF CInv

LEMMA BriefStep ==
    ASSUME M!McpAssumption, CInv, NEW s \in Socks, NEW m \in Metas, NEW t \in M!Tenants \cup {None},
           M!brief_set(s, m, t)
    PROVE  CInv'
<1>1. UNCHANGED <<clock, lastRun>> /\ mcp \in [Socks -> Sessions \cup {None}] /\ mcp[s] \in Sessions
  BY DEF M!brief_set, CInv, M!Live
<1>2. CASE mcp' = mcp
  BY <1>1, <1>2, CalmStep DEF M!Live
<1>3. CASE mcp' = [mcp EXCEPT ![s].tenant = t]
  <2> DEFINE x == [mcp[s] EXCEPT !.tenant = t]
  <2>1. x \in Sessions /\ x.idempo = mcp[s].idempo
    BY <1>1 DEF Sessions
  <2>2. mcp' = [mcp EXCEPT ![s] = x] /\ M!Live(s)
    BY <1>1, <1>3 DEF M!brief_set
  <2> HIDE DEF x
  <2>3. mcp' \in [Socks -> Sessions \cup {None}] /\ mcp'[s] = x /\ \A q \in Socks \ {s} : mcp'[q] = mcp[q]
    BY <1>1, <2>1, <2>2
  <2>4. \A q \in Socks : M!Live(q)' => M!Live(q) /\ mcp'[q].idempo = mcp[q].idempo
    BY <2>1, <2>2, <2>3 DEF M!Live
  <2> QED BY <1>1, <2>3, <2>4, CalmStep
<1> QED BY <1>2, <1>3 DEF M!brief_set

LEMMA CallStep ==
    ASSUME M!McpAssumption, CInv, NEW s \in Socks, NEW m \in Metas, NEW tool \in Tools,
           M!tool_call(s, m, tool)
    PROVE  CInv'
<1>1. CASE UNCHANGED <<clock, mcp, lastRun>>
  BY <1>1, CalmStep DEF CInv, M!Live
<1>2. Key(m.client, m.op) \in M!Keys
  BY DEF M!Keys
<1>3. \/ UNCHANGED <<clock, mcp, lastRun>>
      \/ /\ M!Live(s) /\ clock' = clock
         /\ \E c \in M!insert(mcp[s].idempo, [key |-> Key(m.client, m.op), at |-> clock, result |-> tool]) :
              mcp' = [mcp EXCEPT ![s].idempo = c]
         /\ lastRun' = [lastRun EXCEPT ![s][Key(m.client, m.op)] = clock]
  BY DEF M!tool_call
<1> QED BY <1>1, <1>2, <1>3, RunStep

LEMMA GatewayInductive ==
    ASSUME M!McpAssumption PROVE M!Spec => []CInv
<1>1. M!Init => CInv
  BY KeysFinite DEF M!Init, CInv, M!TypeOK, M!Live
<1>2. CInv /\ [M!Next]_M!vars => CInv'
  <2> SUFFICES ASSUME CInv, [M!Next]_M!vars PROVE CInv'
    OBVIOUS
  <2>1. ASSUME UNCHANGED <<clock, mcp, lastRun>> PROVE CInv'
    BY <2>1, CalmStep DEF CInv, M!Live
  <2>2. CASE UNCHANGED M!vars
    BY <2>1, <2>2 DEF M!vars
  <2>3. ASSUME NEW s \in Socks, M!Close(s) PROVE CInv'
    BY <2>3, CalmStep DEF M!Close, CInv, M!Live
  <2>4. ASSUME NEW s \in Socks, NEW m \in Metas, M!invalid(s) \/ M!brief_get(s) \/ M!tools_list(s, m)
        PROVE  CInv'
    BY <2>1, <2>4 DEF M!invalid, M!brief_get, M!tools_list
  <2>5. ASSUME NEW s \in Socks, M!invalid(s) \/ M!brief_get(s) PROVE CInv'
    BY <2>1, <2>5 DEF M!invalid, M!brief_get
  <2> QED BY <2>2, <2>3, <2>4, <2>5, UpgradeStep, BriefStep, CallStep, TickStep DEF M!Next
<1> QED BY <1>1, <1>2, PTL DEF M!Spec

\* What is run again was not in the cache: its time was up, or the cache was full.
LEMMA RunAgain ==
    ASSUME M!McpAssumption, CInv, [M!Next]_M!vars, NEW s \in Socks, NEW k \in M!Keys,
           lastRun'[s][k] # lastRun[s][k], lastRun[s][k] # None
    PROVE  \/ clock - lastRun[s][k] >= TTL
           \/ M!Cardinality({j \in M!Keys : lastRun[s][j] # None}) > Capacity
<1>1. PICK t \in Socks, m \in Metas, tool \in Tools : M!tool_call(t, m, tool)
  BY DEF M!Next, M!vars, M!ws_upgrade, M!Close, M!invalid, M!brief_get, M!tools_list, M!brief_set, M!Tick
<1>2. M!Live(t) /\ M!cached(t, Key(m.client, m.op)) = {}
      /\ lastRun' = [lastRun EXCEPT ![t][Key(m.client, m.op)] = clock]
  BY <1>1 DEF M!tool_call
<1>3. t = s /\ Key(m.client, m.op) = k
  BY <1>2 DEF CInv, M!TypeOK
<1>4. Kept(s, k)
  BY <1>2, <1>3 DEF CInv, Ran
<1>5. \A e \in mcp[s].idempo : e.key = k => ~(clock - e.at < TTL)
  BY <1>2, <1>3 DEF M!cached
<1>6. clock \in Nat /\ lastRun[s][k] \in Nat /\ TTL \in Nat
  BY KeysFinite DEF CInv, M!TypeOK
<1>7. M!Cardinality({j \in M!Keys : lastRun[s][j] # None}) = Cardinality(Ran(s))
  BY KeysFinite DEF Ran
<1> QED BY <1>4, <1>5, <1>6, <1>7 DEF Kept

LEMMA RunsOnce ==
    ASSUME M!McpAssumption PROVE M!Spec => M!RunOncePerSocket
<1>1. CInv /\ [M!Next]_M!vars =>
        [\A s \in Socks, k \in M!Keys :
           lastRun'[s][k] # lastRun[s][k] /\ lastRun[s][k] # None
             => \/ clock - lastRun[s][k] >= TTL
                \/ M!Cardinality({j \in M!Keys : lastRun[s][j] # None}) > Capacity]_M!vars
  BY RunAgain
<1> QED BY <1>1, GatewayInductive, PTL DEF M!Spec, M!RunOncePerSocket
-----------------------------------------------------------------------------
(***************************************************************************)
(* QuotaSkeleton.  The tokens left and what a window spent add up to one   *)
(* budget of the meter: from that the refinement of QuotaBudget.           *)
(***************************************************************************)

MinuteMeters == {m \in Meters : \A f \in Q!ConfigsOf(m) : f.rate > 0 /\ f.burst > 0}

LimitKnown(c) == qcall[c].pc \in {"overrides", "consume"} =>
                    qcall[c].cfg \in Q!ConfigsOf(qcall[c].meter)

GrantLeft(m) ==
    m \in MinuteMeters =>
      IF qmeter[m].start = Q!WindowStart
      THEN \E f \in Q!ConfigsOf(m) : winTotal[m] + qmeter[m].tokens = Q!Lower(f.rate, f.burst)
      ELSE winTotal[m] = 0

QInv == /\ Q!TypeOK
        /\ \A c \in QCalls : LimitKnown(c)
        /\ \A m \in Meters : /\ qmeter[m].start <= Q!WindowStart /\ qmeter[m].day <= Q!dayKey
                             /\ GrantLeft(m)

LEMMA QuotaTypes ==
    ASSUME Q!SkeletonAssumption, QInv
    PROVE  /\ qnow \in Nat /\ Window \in Nat \ {0} /\ Day \in Nat \ {0}
           /\ Q!WindowStart \in Nat /\ Q!dayKey \in Nat
           /\ qmeter \in [Meters -> Q!MeterState] /\ winTotal \in [Meters -> Int]
           /\ qcall \in [QCalls -> Q!Call]
           /\ \A c \in QCalls : /\ qcall[c] \in Q!Call /\ qcall[c].meter \in Meters
                                /\ qcall[c].qty \in Int /\ qcall[c].qty \in Quantities
                                /\ qcall[c].key \in OpKeys \cup {None} /\ qcall[c].cfg \in Q!Config
           /\ \A m \in Meters : /\ qmeter[m] \in Q!MeterState /\ winTotal[m] \in Int
                                /\ qmeter[m].start \in Nat /\ qmeter[m].tokens \in Nat
                                /\ qmeter[m].day \in Int /\ qmeter[m].used \in Int
                                /\ qmeter[m].idem \subseteq OpKeys
<1>1. qnow \in Nat /\ Window \in Nat \ {0} /\ Day \in Nat \ {0} /\ Quantities \subseteq Int
  BY DEF Q!SkeletonAssumption, QInv, Q!TypeOK
<1>2. qnow \div Window \in Nat /\ Q!dayKey \in Nat
  BY <1>1 DEF Q!dayKey
<1>3. (qnow \div Window) * Window \in Nat
  BY <1>1, <1>2
<1>4. Q!WindowStart \in Nat
  BY <1>3 DEF Q!WindowStart
<1>5. /\ qmeter \in [Meters -> Q!MeterState] /\ winTotal \in [Meters -> Int]
      /\ qcall \in [QCalls -> Q!Call]
  BY DEF QInv, Q!TypeOK
<1>6. \A c \in QCalls : /\ qcall[c] \in Q!Call /\ qcall[c].meter \in Meters
                        /\ qcall[c].qty \in Quantities
                        /\ qcall[c].key \in OpKeys \cup {None} /\ qcall[c].cfg \in Q!Config
  BY <1>5 DEF Q!Call
<1>7. \A m \in Meters : /\ qmeter[m] \in Q!MeterState /\ winTotal[m] \in Int
                        /\ qmeter[m].start \in Nat /\ qmeter[m].tokens \in Nat
                        /\ qmeter[m].day \in Int /\ qmeter[m].used \in Int
                        /\ qmeter[m].idem \subseteq OpKeys
  BY <1>5 DEF Q!MeterState
<1> QED BY <1>1, <1>2, <1>4, <1>5, <1>6, <1>7

\* Time passes: the window and the day stay or are later ones.
LEMMA LaterWindow ==
    ASSUME Q!SkeletonAssumption, NEW t \in Nat
    PROVE  /\ (t \div Window) * Window \in Nat /\ ((t + 1) \div Window) * Window \in Nat
           /\ (t \div Window) * Window <= ((t + 1) \div Window) * Window
           /\ (t + 1) \div Window # t \div Window =>
                (t \div Window) * Window < ((t + 1) \div Window) * Window
<1>1. Window \in Nat \ {0}
  BY DEF Q!SkeletonAssumption
<1>2. t \div Window \in Nat /\ (t + 1) \div Window \in Nat /\ t \div Window <= (t + 1) \div Window
  BY <1>1
<1>3. ASSUME NEW a \in Nat, NEW b \in Nat, a <= b
      PROVE  /\ a * Window \in Nat /\ b * Window \in Nat /\ a * Window <= b * Window
             /\ a # b => a * Window < b * Window
  BY <1>1, <1>3
<1> QED BY <1>2, <1>3

LEMMA TickStepQ ==
    ASSUME Q!SkeletonAssumption, QInv, Q!Tick
    PROVE  /\ QInv'
           /\ Q!dayKey \in Nat /\ Q!dayKey' \in Nat /\ Q!dayKey <= Q!dayKey'
<1>1. /\ qnow' = qnow + 1 /\ qnow' \in Epoch..MaxTime /\ UNCHANGED <<qplan, overrides, qmeter, qcall>>
      /\ Epoch \in Nat /\ MaxTime \in Nat
  BY QuotaTypes DEF Q!Tick, Q!kv, Q!SkeletonAssumption, QInv, Q!TypeOK
<1>2. /\ Q!WindowStart' \in Nat /\ Q!WindowStart <= Q!WindowStart'
      /\ (qnow + 1) \div Window # qnow \div Window => Q!WindowStart < Q!WindowStart'
      /\ (qnow + 1) \div Window = qnow \div Window => Q!WindowStart = Q!WindowStart'
  BY <1>1, LaterWindow, QuotaTypes DEF Q!WindowStart
<1>3. Q!dayKey' \in Nat /\ Q!dayKey <= Q!dayKey'
  BY <1>1, QuotaTypes DEF Q!dayKey
<1>4. winTotal' = IF (qnow + 1) \div Window = qnow \div Window THEN winTotal ELSE [m \in Meters |-> 0]
  BY DEF Q!Tick
<1>5. Q!TypeOK'
  BY <1>1, <1>4, QuotaTypes DEF QInv, Q!TypeOK
<1>6. ASSUME NEW m \in Meters
      PROVE  qmeter'[m].start <= Q!WindowStart' /\ qmeter'[m].day <= Q!dayKey' /\ GrantLeft(m)'
  <2>1. /\ qmeter[m].start <= Q!WindowStart /\ qmeter[m].day <= Q!dayKey /\ GrantLeft(m)
        /\ qmeter[m].start \in Nat /\ qmeter[m].day \in Int
        /\ Q!WindowStart \in Nat /\ Q!dayKey \in Nat
    BY QuotaTypes DEF QInv
  <2>2. qmeter'[m].start <= Q!WindowStart' /\ qmeter'[m].day <= Q!dayKey'
    BY <1>1, <1>2, <1>3, <2>1
  <2>3. CASE (qnow + 1) \div Window = qnow \div Window
    <3>1. winTotal' = winTotal /\ Q!WindowStart' = Q!WindowStart
      BY <1>2, <1>4, <2>3
    <3> QED BY <1>1, <2>1, <2>2, <3>1 DEF GrantLeft
  <2>4. CASE (qnow + 1) \div Window # qnow \div Window
    <3>1. winTotal'[m] = 0 /\ qmeter'[m].start # Q!WindowStart'
      BY <1>1, <1>2, <1>4, <2>1, <2>4
    <3> QED BY <2>2, <3>1 DEF GrantLeft
  <2> QED BY <2>3, <2>4
<1>7. \A c \in QCalls : LimitKnown(c)'
  BY <1>1 DEF QInv, LimitKnown
<1> QED BY <1>3, <1>5, <1>6, <1>7, QuotaTypes DEF QInv

\* A step that leaves the meters and the clock as they are.
LEMMA MetersStay ==
    ASSUME QInv, UNCHANGED <<qnow, qmeter, winTotal>>, qplan' \in Plans, overrides' \in Overrides,
           qcall' \in [QCalls -> Q!Call], \A c \in QCalls : LimitKnown(c)'
    PROVE  QInv'
<1>1. UNCHANGED <<Q!WindowStart, Q!dayKey>>
  BY DEF Q!WindowStart, Q!dayKey
<1>2. \A m \in Meters : GrantLeft(m) => GrantLeft(m)'
  BY <1>1 DEF GrantLeft
<1> QED BY <1>1, <1>2 DEF QInv, Q!TypeOK

LEMMA IdleTyped ==
    ASSUME Q!SkeletonAssumption
    PROVE  Q!Idle \in Q!Call /\ Q!Idle.pc = "idle"
<1>1. PICK m \in Meters, q \in Quantities :
          m = (CHOOSE x \in Meters : TRUE) /\ q = (CHOOSE x \in Quantities : TRUE)
  BY DEF Q!SkeletonAssumption
<1>2. Q!Unlimited \in Q!Config
  BY DEF Q!Unlimited, Q!Config, Q!Limit
<1> QED BY <1>1, <1>2 DEF Q!Idle, Q!Call

\* Call c becomes x; the meters stay.
LEMMA CallBecomes ==
    ASSUME Q!SkeletonAssumption, QInv, NEW c \in QCalls, NEW x \in Q!Call,
           qcall' = [qcall EXCEPT ![c] = x],
           UNCHANGED <<qplan, overrides, qnow, qmeter, winTotal>>,
           x.pc \in {"overrides", "consume"} => x.cfg \in Q!ConfigsOf(x.meter)
    PROVE  QInv'
<1>1. qcall' \in [QCalls -> Q!Call] /\ qcall'[c] = x /\ \A d \in QCalls \ {c} : qcall'[d] = qcall[d]
  BY QuotaTypes
<1>2. \A d \in QCalls : LimitKnown(d)'
  BY <1>1 DEF QInv, LimitKnown
<1> QED BY <1>1, <1>2, MetersStay DEF QInv, Q!TypeOK

LEMMA ReadStepQ ==
    ASSUME Q!SkeletonAssumption, QInv, NEW c \in QCalls,
           \/ Q!getPlan(c) \/ Q!effectiveLimits(c)
           \/ \E m \in Meters, q \in Quantities, k \in OpKeys \cup {None} : Q!Request(c, m, q, k)
    PROVE  QInv'
<1>1. /\ qcall \in [QCalls -> Q!Call] /\ qcall[c] \in Q!Call /\ qcall[c].meter \in Meters
      /\ qplan \in Plans /\ overrides \in Overrides /\ LimitKnown(c)
      /\ UNCHANGED <<qplan, overrides, qnow, qmeter, winTotal>>
  BY QuotaTypes DEF Q!getPlan, Q!effectiveLimits, Q!Request, Q!kv, QInv, Q!TypeOK
<1>2. Q!ConfigsOf(qcall[c].meter) \subseteq Q!Config
  BY <1>1 DEF Q!SkeletonAssumption
<1>3. CASE Q!getPlan(c)
  <2> DEFINE f == qplan[qcall[c].meter]
             x == [qcall[c] EXCEPT !.pc = "overrides", !.cfg = f]
  <2>1. f \in Q!ConfigsOf(qcall[c].meter)
    BY <1>1 DEF Q!ConfigsOf
  <2>2. qcall' = [qcall EXCEPT ![c] = x]
    BY <1>1, <1>3 DEF Q!getPlan
  <2> HIDE DEF f
  <2>3. x \in Q!Call /\ x.cfg = f /\ x.meter = qcall[c].meter
    BY <1>1, <1>2, <2>1 DEF Q!Call
  <2> HIDE DEF x
  <2> QED BY <1>1, <2>1, <2>2, <2>3, CallBecomes
<1>4. CASE Q!effectiveLimits(c)
  <2> DEFINE f == IF qcall[c].meter \in DOMAIN overrides THEN overrides[qcall[c].meter] ELSE qcall[c].cfg
             x == [qcall[c] EXCEPT !.pc = "consume", !.cfg = f]
  <2>1. f \in Q!ConfigsOf(qcall[c].meter)
    <3>1. CASE qcall[c].meter \in DOMAIN overrides
      BY <1>1, <3>1 DEF Q!ConfigsOf
    <3>2. CASE qcall[c].meter \notin DOMAIN overrides
      BY <1>1, <1>4, <3>2 DEF Q!effectiveLimits, LimitKnown
    <3> QED BY <3>1, <3>2
  <2>2. qcall' = [qcall EXCEPT ![c] = x]
    BY <1>1, <1>4 DEF Q!effectiveLimits
  <2> HIDE DEF f
  <2>3. x \in Q!Call /\ x.cfg = f /\ x.meter = qcall[c].meter
    BY <1>1, <1>2, <2>1 DEF Q!Call
  <2> HIDE DEF x
  <2> QED BY <1>1, <2>1, <2>2, <2>3, CallBecomes
<1>5. CASE \E m \in Meters, q \in Quantities, k \in OpKeys \cup {None} : Q!Request(c, m, q, k)
  <2>1. PICK m \in Meters, q \in Quantities, k \in OpKeys \cup {None} : Q!Request(c, m, q, k)
    BY <1>5
  <2> DEFINE x == [pc |-> "plan", meter |-> m, qty |-> q, key |-> k, cfg |-> Q!Unlimited]
  <2>2. x \in Q!Call /\ x.pc = "plan"
    BY DEF Q!Call, Q!Unlimited, Q!Config, Q!Limit
  <2>3. qcall' = [qcall EXCEPT ![c] = x]
    BY <2>1 DEF Q!Request
  <2> HIDE DEF x
  <2> QED BY <1>1, <2>2, <2>3, CallBecomes
<1> QED BY <1>3, <1>4, <1>5

\* What a consume works with: the meter as the refill leaves it.
Found(c) == Q!refill(qmeter[qcall[c].meter], qcall[c].cfg)

LEMMA Refilled ==
    ASSUME Q!SkeletonAssumption, QInv, NEW c \in QCalls, qcall[c].pc = "consume"
    PROVE  /\ Found(c) \in Q!MeterState
           /\ Found(c).tokens \in Nat /\ Found(c).start \in Nat /\ Found(c).start <= Q!WindowStart
           /\ Found(c).day = qmeter[qcall[c].meter].day /\ Found(c).used = qmeter[qcall[c].meter].used
           /\ Found(c).idem = qmeter[qcall[c].meter].idem
           /\ qcall[c].cfg \in Q!ConfigsOf(qcall[c].meter)
           /\ qcall[c].meter \in MinuteMeters =>
                /\ Found(c).start = Q!WindowStart
                /\ \E f \in Q!ConfigsOf(qcall[c].meter) :
                     winTotal[qcall[c].meter] + Found(c).tokens = Q!Lower(f.rate, f.burst)
<1> SUFFICES ASSUME NEW m \in Meters, m = qcall[c].meter, NEW f \in Q!Config, f = qcall[c].cfg,
                    NEW st \in Q!MeterState, st = qmeter[m], NEW x, x = Q!refill(st, f)
             PROVE  /\ x \in Q!MeterState /\ x.tokens \in Nat /\ x.start \in Nat
                    /\ x.start <= Q!WindowStart
                    /\ x.day = st.day /\ x.used = st.used /\ x.idem = st.idem
                    /\ f \in Q!ConfigsOf(m)
                    /\ m \in MinuteMeters =>
                         /\ x.start = Q!WindowStart
                         /\ \E g \in Q!ConfigsOf(m) : winTotal[m] + x.tokens = Q!Lower(g.rate, g.burst)
  BY QuotaTypes DEF Found
<1>1. f \in Q!ConfigsOf(m)
  BY DEF QInv, LimitKnown
<1>2. /\ Q!WindowStart \in Nat /\ winTotal[m] \in Int /\ st.start \in Nat /\ st.tokens \in Nat
      /\ st.start <= Q!WindowStart /\ GrantLeft(m)
      /\ f.rate \in Nat \cup {-1} /\ f.burst \in Nat \cup {-1}
  BY QuotaTypes DEF QInv, Q!Config, Q!Limit, Q!Undefined
<1>3. CASE f.rate <= 0 \/ f.burst <= 0 \/ st.start = Q!WindowStart
  <2>1. x = st
    BY <1>3 DEF Q!refill
  <2>2. m \in MinuteMeters => st.start = Q!WindowStart
    BY <1>1, <1>2, <1>3 DEF MinuteMeters
  <2> QED BY <1>1, <1>2, <2>1, <2>2 DEF GrantLeft
<1>4. CASE ~(f.rate <= 0 \/ f.burst <= 0 \/ st.start = Q!WindowStart)
  <2>1. x = [st EXCEPT !.start = Q!WindowStart, !.tokens = Q!Lower(f.rate, f.burst)]
    BY <1>4 DEF Q!refill
  <2>2. Q!Lower(f.rate, f.burst) \in Nat
    BY <1>2, <1>4 DEF Q!Lower
  <2>3. /\ x \in Q!MeterState /\ x.start = Q!WindowStart /\ x.tokens = Q!Lower(f.rate, f.burst)
        /\ x.day = st.day /\ x.used = st.used /\ x.idem = st.idem
    BY <1>2, <2>1, <2>2 DEF Q!MeterState
  <2>4. m \in MinuteMeters => winTotal[m] = 0
    BY <1>2, <1>4 DEF GrantLeft
  <2>5. m \in MinuteMeters => winTotal[m] + x.tokens = Q!Lower(f.rate, f.burst)
    BY <2>2, <2>3, <2>4
  <2> QED BY <1>1, <1>2, <2>2, <2>3, <2>5
<1> QED BY <1>3, <1>4

\* What is left of a grant and w, spent in this window, make the grant.
GrantOf(m, y, w) ==
    m \in MinuteMeters =>
      /\ y.start = Q!WindowStart
      /\ \E f \in Q!ConfigsOf(m) : w + y.tokens = Q!Lower(f.rate, f.burst)

\* A consume that stores a meter: it becomes y, and w is what it has spent.
LEMMA MeterPut ==
    ASSUME Q!SkeletonAssumption, QInv, NEW c \in QCalls, NEW m \in Meters, m = qcall[c].meter,
           NEW y \in Q!MeterState, NEW w \in Int,
           y.start <= Q!WindowStart, y.day <= Q!dayKey, GrantOf(m, y, w),
           qmeter' = [qmeter EXCEPT ![m] = y], winTotal' = [winTotal EXCEPT ![m] = w],
           qcall' = [qcall EXCEPT ![c] = Q!Idle], UNCHANGED <<qplan, overrides, qnow>>
    PROVE  QInv'
<1>1. UNCHANGED <<Q!WindowStart, Q!dayKey>>
  BY DEF Q!WindowStart, Q!dayKey
<1>2. /\ qmeter' \in [Meters -> Q!MeterState] /\ qmeter'[m] = y
      /\ winTotal' \in [Meters -> Int] /\ winTotal'[m] = w
      /\ \A n \in Meters \ {m} : qmeter'[n] = qmeter[n] /\ winTotal'[n] = winTotal[n]
  BY QuotaTypes
<1>3. /\ qcall' \in [QCalls -> Q!Call] /\ qcall'[c].pc = "idle"
      /\ \A d \in QCalls \ {c} : qcall'[d] = qcall[d]
  BY IdleTyped, QuotaTypes
<1>4. \A d \in QCalls : LimitKnown(d)'
  BY <1>3 DEF QInv, LimitKnown
<1>5. GrantLeft(m)'
  BY <1>1, <1>2 DEF GrantLeft, GrantOf
<1>6. ASSUME NEW n \in Meters \ {m} PROVE GrantLeft(n)'
  BY <1>1, <1>2 DEF QInv, GrantLeft
<1>7. Q!TypeOK'
  BY <1>2, <1>3 DEF QInv, Q!TypeOK
<1>8. \A n \in Meters : qmeter'[n].start <= Q!WindowStart' /\ qmeter'[n].day <= Q!dayKey'
  BY <1>1, <1>2 DEF QInv
<1> QED BY <1>4, <1>5, <1>6, <1>7, <1>8 DEF QInv

\* The meters that show the promise: the day's spending, and what was paid.
spentToday == [m \in Meters |-> Q!UsedToday(qmeter[m])]
paidFor    == [m \in Meters |-> qmeter[m].idem]

\* One meter's spending of the day, and its operations, change.
LEMMA SpentChanges ==
    ASSUME Q!SkeletonAssumption, QInv, NEW m \in Meters, NEW y \in Q!MeterState,
           qmeter' = [qmeter EXCEPT ![m] = y], UNCHANGED qnow
    PROVE  /\ spentToday' = [spentToday EXCEPT ![m] = Q!UsedToday(y)]
           /\ paidFor' = [paidFor EXCEPT ![m] = y.idem]
<1>u. PICK u, i : u = Q!UsedToday(y) /\ i = y.idem
  OBVIOUS
<1>1. Q!dayKey' = Q!dayKey
  BY DEF Q!dayKey
<1>2. qmeter'[m] = y /\ \A n \in Meters \ {m} : qmeter'[n] = qmeter[n]
  BY QuotaTypes
<1>3. \A n \in Meters : spentToday'[n] = IF n = m THEN u ELSE spentToday[n]
  BY <1>u, <1>1, <1>2 DEF spentToday, Q!UsedToday
<1>4. spentToday' = [n \in Meters |-> spentToday'[n]] /\ DOMAIN spentToday = Meters
  BY DEF spentToday
<1>5. paidFor' = [n \in Meters |-> paidFor'[n]] /\ DOMAIN paidFor = Meters
  BY DEF paidFor
<1>6. \A n \in Meters : paidFor'[n] = IF n = m THEN i ELSE paidFor[n]
  BY <1>u, <1>2 DEF paidFor
<1>7. [spentToday EXCEPT ![m] = u] = [n \in Meters |-> IF n = m THEN u ELSE spentToday[n]]
  BY <1>4
<1>8. [paidFor EXCEPT ![m] = i] = [n \in Meters |-> IF n = m THEN i ELSE paidFor[n]]
  BY <1>5
<1>9. spentToday' = [spentToday EXCEPT ![m] = u]
  BY <1>3, <1>4, <1>7
<1>10. paidFor' = [paidFor EXCEPT ![m] = i]
  BY <1>5, <1>6, <1>8
<1> QED BY <1>u, <1>9, <1>10

LEMMA PassStep ==
    ASSUME Q!SkeletonAssumption, QInv, NEW c \in QCalls, Q!checkAndConsume(c),
           Q!verdict(qcall[c], Found(c)) = "ok", ~Q!isRequestBound(qcall[c].cfg)
    PROVE  QInv' /\ Q!Budget!Next
<1>1. PICK m \in Meters, k \in OpKeys \cup {None} : m = qcall[c].meter /\ k = qcall[c].key
  BY QuotaTypes
<1>a. qmeter[m] \in Q!MeterState /\ qmeter[m].idem \cup ({k} \ {None}) \in SUBSET OpKeys
  BY QuotaTypes
<1>b. PICK y \in Q!MeterState : y = [qmeter[m] EXCEPT !.idem = @ \cup ({k} \ {None})]
  BY <1>a DEF Q!MeterState
<1>2. /\ qcall[c].pc = "consume" /\ qcall' = [qcall EXCEPT ![c] = Q!Idle]
      /\ UNCHANGED <<qplan, overrides, qnow, winTotal>>
      /\ qmeter' = [qmeter EXCEPT ![m] = y]
      /\ k \notin qmeter[m].idem
  <2>1. Found(c).idem = qmeter[m].idem /\ qcall[c].pc = "consume"
    BY <1>1, Refilled DEF Q!checkAndConsume
  <2> QED BY <1>1, <1>b, <2>1 DEF Q!checkAndConsume, Q!Put, Q!kv, Q!verdict, Q!cached, Found
<1>3. qcall[c].cfg \in Q!ConfigsOf(m) /\ qcall[c].cfg.rate = -1 /\ qcall[c].cfg.cap = -1
  BY <1>1, <1>2, Refilled DEF Q!isRequestBound, Q!Undefined
<1>4. m \notin MinuteMeters
  BY <1>3 DEF MinuteMeters
<1>5. /\ y \in Q!MeterState /\ y.start = qmeter[m].start /\ y.day = qmeter[m].day
      /\ y.used = qmeter[m].used /\ y.idem = qmeter[m].idem \cup ({k} \ {None})
  BY <1>a, <1>b DEF Q!MeterState
<1>6. winTotal' = [winTotal EXCEPT ![m] = winTotal[m]] /\ winTotal[m] \in Int
  BY <1>2, QuotaTypes
<1>7. QInv'
  BY <1>1, <1>2, <1>4, <1>5, <1>6, MeterPut DEF QInv, GrantOf
<1>8. /\ spentToday' = [spentToday EXCEPT ![m] = Q!UsedToday(y)]
      /\ paidFor' = [paidFor EXCEPT ![m] = y.idem]
  BY <1>2, <1>5, SpentChanges
<1>9. Q!UsedToday(y) = spentToday[m] /\ y.idem = paidFor[m] \cup ({k} \ {None})
  BY <1>5 DEF Q!UsedToday, spentToday, paidFor
<1>10. spentToday' = spentToday
  BY <1>8, <1>9 DEF spentToday
<1>11. Q!Budget!Accept(m, k)
  BY <1>2, <1>4, <1>8, <1>9, <1>10
     DEF Q!Budget!Accept, Q!Budget!Keep, spentToday, paidFor, MinuteMeters
<1>12. Q!Budget!Next
  BY <1>11 DEF Q!Budget!Next
<1> QED BY <1>7, <1>12

LEMMA DebitStep ==
    ASSUME Q!SkeletonAssumption, QInv, NEW c \in QCalls, Q!checkAndConsume(c),
           Q!verdict(qcall[c], Found(c)) = "ok", Q!isRequestBound(qcall[c].cfg)
    PROVE  QInv' /\ Q!Budget!Next
<1>1. PICK m \in Meters, k \in OpKeys \cup {None}, q \in Quantities, f \in Q!Config :
          m = qcall[c].meter /\ k = qcall[c].key /\ q = qcall[c].qty /\ f = qcall[c].cfg
  BY QuotaTypes
<1>2. PICK st \in Q!MeterState : st = Found(c)
  BY Refilled DEF Q!checkAndConsume
<1> DEFINE u == Q!UsedToday(st)
           z == [st EXCEPT !.tokens = @ - q, !.day = Q!dayKey, !.used = u + q]
           x == [z EXCEPT !.idem = @ \cup ({k} \ {None})]
<1>3. /\ qcall[c].pc = "consume" /\ qcall' = [qcall EXCEPT ![c] = Q!Idle]
      /\ UNCHANGED <<qplan, overrides, qnow>>
      /\ qmeter' = [qmeter EXCEPT ![m] = x]
      /\ winTotal' = [winTotal EXCEPT ![m] = @ + q]
  BY <1>1, <1>2 DEF Q!checkAndConsume, Q!Put, Q!kv, Found
<1>4. ~(q > st.tokens) /\ k \notin st.idem /\ ~Q!OverCap(st, f, q)
  <2>1. st.tokens \in Nat /\ q \in Int
    BY <1>1, <1>2, <1>3, Refilled, QuotaTypes
  <2> QED BY <1>1, <1>2, <2>1 DEF Q!verdict, Q!cached
<1>5. /\ st.tokens \in Nat /\ st.start \in Nat /\ st.start <= Q!WindowStart
      /\ st.day = qmeter[m].day /\ st.used = qmeter[m].used /\ st.idem = qmeter[m].idem
      /\ f \in Q!ConfigsOf(m)
      /\ m \in MinuteMeters =>
           /\ st.start = Q!WindowStart
           /\ \E g \in Q!ConfigsOf(m) : winTotal[m] + st.tokens = Q!Lower(g.rate, g.burst)
  BY <1>1, <1>2, <1>3, Refilled
<1>6. /\ q \in Int /\ winTotal[m] \in Int /\ Q!WindowStart \in Nat /\ Q!dayKey \in Nat
      /\ st.used \in Int /\ winTotal \in [Meters -> Int]
  BY <1>1, <1>5, QuotaTypes
<1>7. u \in Int /\ st.tokens - q \in Nat /\ u + q \in Int
  <2>1. u \in Int
    BY <1>6 DEF Q!UsedToday
  <2> QED BY <1>4, <1>5, <1>6, <2>1
<1> HIDE DEF u
<1>8. PICK t \in Nat, v \in Int, d \in Int : t = st.tokens - q /\ v = u + q /\ d = Q!dayKey
  BY <1>6, <1>7
<1>b. st.idem \cup ({k} \ {None}) \in SUBSET OpKeys
  BY DEF Q!MeterState
<1>z. PICK z0 \in Q!MeterState :
          /\ z0 = [st EXCEPT !.tokens = t, !.day = d, !.used = v]
          /\ z0.start = st.start /\ z0.tokens = t /\ z0.day = d /\ z0.used = v /\ z0.idem = st.idem
  <2>1. PICK z1 \in Q!MeterState : z1 = [st EXCEPT !.tokens = t]
    BY DEF Q!MeterState
  <2>2. PICK z2 \in Q!MeterState : z2 = [z1 EXCEPT !.day = d]
    BY DEF Q!MeterState
  <2>3. PICK z3 \in Q!MeterState : z3 = [z2 EXCEPT !.used = v]
    BY DEF Q!MeterState
  <2>4. z3 = [st EXCEPT !.tokens = t, !.day = d, !.used = v]
    BY <2>1, <2>2, <2>3 DEF Q!MeterState
  <2>5. z3.start = st.start /\ z3.tokens = t /\ z3.day = d /\ z3.used = v /\ z3.idem = st.idem
    BY <2>1, <2>2, <2>3 DEF Q!MeterState
  <2> QED BY <2>4, <2>5
<1>c. PICK y \in Q!MeterState : y = [z0 EXCEPT !.idem = @ \cup ({k} \ {None})]
  BY <1>b, <1>z DEF Q!MeterState
<1>d. qmeter' = [qmeter EXCEPT ![m] = y]
  BY <1>3, <1>8, <1>c, <1>z
<1>9. /\ y.start = st.start /\ y.tokens = st.tokens - q
      /\ y.day = Q!dayKey /\ y.used = u + q /\ y.idem = st.idem \cup ({k} \ {None})
  BY <1>8, <1>c, <1>z DEF Q!MeterState
<1> HIDE DEF z, x
<1>10. PICK w \in Int : w = winTotal[m] + q /\ winTotal' = [winTotal EXCEPT ![m] = w]
  <2>1. winTotal[m] + q \in Int
    BY <1>6
  <2> QED BY <1>3, <1>6, <2>1
<1>11. m \in MinuteMeters =>
         \E g \in Q!ConfigsOf(m) : w + y.tokens = Q!Lower(g.rate, g.burst)
  <2>1. w + y.tokens = winTotal[m] + st.tokens
    BY <1>5, <1>6, <1>9, <1>10
  <2> QED BY <1>5, <2>1
<1>12. y.day <= Q!dayKey
  BY <1>6, <1>9
<1>13. QInv'
  <2>1. GrantOf(m, y, w)
    BY <1>5, <1>9, <1>11 DEF GrantOf
  <2>2. y.start <= Q!WindowStart /\ y.day <= Q!dayKey /\ m = qcall[c].meter
    BY <1>1, <1>5, <1>9, <1>12
  <2>3. qmeter' = [qmeter EXCEPT ![m] = y] /\ winTotal' = [winTotal EXCEPT ![m] = w]
    BY <1>d, <1>10
  <2> QED BY <1>3, <2>1, <2>2, <2>3, MeterPut
<1>14. Q!UsedToday(y) = u + q /\ u = spentToday[m] /\ paidFor[m] = st.idem
  BY <1>5, <1>9 DEF Q!UsedToday, u, spentToday, paidFor
<1>15. /\ spentToday' = [spentToday EXCEPT ![m] = @ + q]
       /\ paidFor' = [paidFor EXCEPT ![m] = @ \cup ({k} \ {None})]
  <2>1. /\ spentToday' = [spentToday EXCEPT ![m] = Q!UsedToday(y)]
        /\ paidFor' = [paidFor EXCEPT ![m] = y.idem]
    BY <1>3, <1>d, SpentChanges
  <2>2. Q!UsedToday(y) = spentToday[m] + q /\ y.idem = paidFor[m] \cup ({k} \ {None})
    BY <1>9, <1>14
  <2> QED BY <2>1, <2>2
<1>16. m \in MinuteMeters => \E g \in Q!ConfigsOf(m) : winTotal[m] + q <= Q!Lower(g.rate, g.burst)
  <2> SUFFICES ASSUME m \in MinuteMeters
               PROVE  \E g \in Q!ConfigsOf(m) : winTotal[m] + q <= Q!Lower(g.rate, g.burst)
    OBVIOUS
  <2>1. PICK g \in Q!ConfigsOf(m) : winTotal[m] + st.tokens = Q!Lower(g.rate, g.burst)
    BY <1>5
  <2>2. winTotal[m] + q <= winTotal[m] + st.tokens
    BY <1>4, <1>5, <1>6
  <2> QED BY <2>1, <2>2
<1>17. f.cap # -1 => u + q <= f.cap
  <2>1. f.cap \in Nat \cup {-1}
    BY DEF Q!Config, Q!Limit, Q!Undefined
  <2> QED BY <1>4, <1>6, <1>7, <2>1 DEF Q!OverCap, Q!Undefined, u
<1>18. Q!Budget!Spend(m, q, k)
  <2>1. m \in MinuteMeters => \E g \in {Q!Lower(h.rate, h.burst) : h \in Q!ConfigsOf(m)} : winTotal[m] + q <= g
    BY <1>16
  <2>2. (\A h \in Q!ConfigsOf(m) : h.cap # -1) => \E g \in {h.cap : h \in Q!ConfigsOf(m)} : spentToday[m] + q <= g
    BY <1>5, <1>14, <1>17
  <2>3. k \notin paidFor[m]
    BY <1>4, <1>14
  <2> QED BY <1>3, <1>15, <2>1, <2>2, <2>3
       DEF Q!Budget!Spend, Q!Budget!Keep, spentToday, paidFor, MinuteMeters, Q!Undefined
<1>19. Q!Budget!Next
  BY <1>18 DEF Q!Budget!Next
<1> QED BY <1>13, <1>19

\* What is refused, or was paid before, changes no meter.
LEMMA RefusedStep ==
    ASSUME Q!SkeletonAssumption, QInv, NEW c \in QCalls, Q!checkAndConsume(c),
           Q!verdict(qcall[c], Found(c)) # "ok"
    PROVE  QInv' /\ UNCHANGED <<qnow, qmeter, winTotal>>
<1>1. /\ qcall' = [qcall EXCEPT ![c] = Q!Idle]
      /\ UNCHANGED <<qplan, overrides, qnow, qmeter, winTotal>>
  BY DEF Q!checkAndConsume, Q!kv, Found
<1> QED BY <1>1, IdleTyped, CallBecomes

LEMMA QuotaQuiet ==
    ASSUME UNCHANGED <<qnow, qmeter, winTotal>>
    PROVE  UNCHANGED Q!Budget!vars
BY DEF Q!Budget!vars, Q!dayKey, Q!UsedToday

LEMMA TickBudget ==
    ASSUME Q!SkeletonAssumption, QInv, Q!Tick
    PROVE  Q!Budget!Next \/ UNCHANGED Q!Budget!vars
<1>1. /\ Q!dayKey \in Nat /\ Q!dayKey' \in Nat /\ Q!dayKey <= Q!dayKey'
      /\ UNCHANGED qmeter /\ winTotal' \in {winTotal, [m \in Meters |-> 0]}
  BY TickStepQ DEF Q!Tick
<1>2. paidFor' = paidFor
  BY <1>1 DEF paidFor
<1>3. CASE Q!dayKey' = Q!dayKey
  <2>1. spentToday' = spentToday
    BY <1>1, <1>3 DEF spentToday, Q!UsedToday
  <2> QED BY <1>1, <1>2, <2>1 DEF Q!Budget!Next, Q!Budget!NewMinute, Q!Budget!vars, spentToday, paidFor
<1>4. CASE Q!dayKey' # Q!dayKey
  <2>1. ASSUME NEW m \in Meters PROVE qmeter'[m].day # Q!dayKey'
    <3>1. qmeter[m].day \in Int /\ qmeter[m].day <= Q!dayKey
      BY QuotaTypes DEF QInv
    <3> QED BY <1>1, <1>4, <3>1
  <2>2. spentToday' = [m \in Meters |-> 0]
    BY <2>1 DEF spentToday, Q!UsedToday
  <2> QED BY <1>1, <1>2, <2>2 DEF Q!Budget!Next, Q!Budget!NewDay, spentToday, paidFor
<1> QED BY <1>3, <1>4

LEMMA QuotaStep ==
    ASSUME Q!SkeletonAssumption, QInv, [Q!Next]_Q!vars
    PROVE  QInv' /\ (Q!Budget!Next \/ UNCHANGED Q!Budget!vars)
<1>1. CASE UNCHANGED Q!vars
  <2>1. UNCHANGED <<qplan, overrides, qnow, qmeter, qcall, winTotal>>
    BY <1>1 DEF Q!vars
  <2>2. QInv'
    BY <2>1, MetersStay DEF QInv, Q!TypeOK, LimitKnown
  <2> QED BY <2>1, <2>2, QuotaQuiet
<1>2. CASE Q!Configure
  <2>1. UNCHANGED <<qnow, qmeter, qcall, winTotal>> /\ qplan' \in Plans /\ overrides' \in Overrides
    BY <1>2 DEF Q!Configure
  <2>2. QInv'
    BY <2>1, MetersStay DEF QInv, Q!TypeOK, LimitKnown
  <2> QED BY <2>1, <2>2, QuotaQuiet
<1>3. CASE Q!Restart
  <2>1. UNCHANGED <<qplan, overrides, qnow, qmeter, winTotal>> /\ qcall' = [c \in QCalls |-> Q!Idle]
    BY <1>3 DEF Q!Restart, Q!kv
  <2>2. QInv'
    BY <2>1, IdleTyped, MetersStay DEF QInv, Q!TypeOK, LimitKnown
  <2> QED BY <2>1, <2>2, QuotaQuiet
<1>4. CASE Q!Tick
  BY <1>4, TickStepQ, TickBudget
<1>5. ASSUME NEW c \in QCalls,
             \/ Q!getPlan(c) \/ Q!effectiveLimits(c)
             \/ \E m \in Meters, q \in Quantities, k \in OpKeys \cup {None} : Q!Request(c, m, q, k)
      PROVE  QInv' /\ UNCHANGED Q!Budget!vars
  <2>1. UNCHANGED <<qnow, qmeter, winTotal>>
    BY <1>5 DEF Q!getPlan, Q!effectiveLimits, Q!Request
  <2> QED BY <1>5, <2>1, ReadStepQ, QuotaQuiet
<1>6. ASSUME NEW c \in QCalls, Q!checkAndConsume(c)
      PROVE  QInv' /\ (Q!Budget!Next \/ UNCHANGED Q!Budget!vars)
  <2>1. CASE Q!verdict(qcall[c], Found(c)) # "ok"
    BY <1>6, <2>1, RefusedStep, QuotaQuiet
  <2>2. CASE Q!verdict(qcall[c], Found(c)) = "ok"
    BY <1>6, <2>2, PassStep, DebitStep
  <2> QED BY <2>1, <2>2
<1> QED BY <1>1, <1>2, <1>3, <1>4, <1>5, <1>6 DEF Q!Next

\* An operation paid for is found, whatever the refill does.
LEMMA PaidForStep ==
    ASSUME Q!SkeletonAssumption, QInv, [Q!Next]_Q!vars, NEW c \in QCalls,
           qcall[c].pc = "consume", qcall'[c].pc = "idle",
           qcall[c].key \in qmeter[qcall[c].meter].idem
    PROVE  UNCHANGED <<qmeter, winTotal>>
<1>1. qcall[c].key # None
  BY QuotaTypes DEF Q!SkeletonAssumption
<1>2. Q!verdict(qcall[c], Found(c)) = "cached"
  BY Refilled DEF Q!verdict, Q!cached
<1>3. ASSUME NEW d \in QCalls, d # c,
             \/ Q!getPlan(d) \/ Q!effectiveLimits(d) \/ Q!checkAndConsume(d)
             \/ \E m \in Meters, q \in Quantities, k \in OpKeys \cup {None} : Q!Request(d, m, q, k)
      PROVE  FALSE
  <2>1. qcall'[c] = qcall[c]
    BY <1>3, QuotaTypes DEF Q!getPlan, Q!effectiveLimits, Q!checkAndConsume, Q!Request
  <2> QED BY <2>1
<1>4. CASE Q!checkAndConsume(c)
  BY <1>2, <1>4, RefusedStep
<1>5. CASE \/ Q!getPlan(c) \/ Q!effectiveLimits(c)
           \/ \E m \in Meters, q \in Quantities, k \in OpKeys \cup {None} : Q!Request(c, m, q, k)
  BY <1>5 DEF Q!getPlan, Q!effectiveLimits, Q!Request
<1>6. CASE Q!Configure \/ Q!Tick
  BY <1>6 DEF Q!Configure, Q!Tick
<1>7. CASE Q!Restart \/ UNCHANGED Q!vars
  BY <1>7 DEF Q!Restart, Q!vars
<1> QED BY <1>3, <1>4, <1>5, <1>6, <1>7 DEF Q!Next

LEMMA QuotaStart ==
    ASSUME Q!SkeletonAssumption, Q!Init
    PROVE  QInv /\ Q!Budget!Init
<1>1. /\ Epoch \in Nat /\ MaxTime \in Nat /\ Epoch <= MaxTime /\ Window \in Nat \ {0}
      /\ Day \in Nat \ {0} /\ qnow = Epoch /\ Window <= qnow
  BY DEF Q!SkeletonAssumption, Q!Init
<1>2. \A m \in Meters : qmeter[m] = [start |-> 0, tokens |-> 0, day |-> -1, used |-> 0, idem |-> {}]
  BY DEF Q!Init, Q!Undefined
<1>3. Q!dayKey \in Nat /\ qnow \div Window \in Nat \ {0}
  BY <1>1 DEF Q!dayKey
<1>4. Q!WindowStart \in Nat /\ 0 < Q!WindowStart
  <2>1. ASSUME NEW a \in Nat \ {0} PROVE a * Window \in Nat /\ 0 < a * Window
    BY <1>1
  <2> QED BY <1>3, <2>1 DEF Q!WindowStart
<1>5. [start |-> 0, tokens |-> 0, day |-> -1, used |-> 0, idem |-> {}] \in Q!MeterState
  BY DEF Q!MeterState
<1>6. Q!TypeOK
  BY <1>1, <1>5, IdleTyped DEF Q!Init, Q!TypeOK, Q!Undefined
<1>7. \A c \in QCalls : LimitKnown(c)
  BY IdleTyped DEF Q!Init, LimitKnown
<1>8. ASSUME NEW m \in Meters
      PROVE  qmeter[m].start <= Q!WindowStart /\ qmeter[m].day <= Q!dayKey /\ GrantLeft(m)
  <2>1. qmeter[m].start = 0 /\ qmeter[m].day = -1 /\ winTotal[m] = 0
    BY <1>2 DEF Q!Init
  <2> QED BY <1>3, <1>4, <2>1 DEF GrantLeft
<1>9. spentToday = [m \in Meters |-> 0] /\ paidFor = [m \in Meters |-> {}]
  <2>1. \A m \in Meters : qmeter[m].day # Q!dayKey /\ qmeter[m].idem = {}
    BY <1>2, <1>3
  <2> QED BY <2>1 DEF spentToday, paidFor, Q!UsedToday
<1>10. Q!Budget!Init
  BY <1>9 DEF Q!Budget!Init, Q!Init, spentToday, paidFor
<1> QED BY <1>6, <1>7, <1>8, <1>10 DEF QInv

LEMMA QuotaInductive ==
    ASSUME Q!SkeletonAssumption PROVE Q!Spec => []QInv
<1>1. Q!Init => QInv
  BY QuotaStart
<1>2. QInv /\ [Q!Next]_Q!vars => QInv'
  BY QuotaStep
<1> QED BY <1>1, <1>2, PTL DEF Q!Spec

LEMMA SkeletonKeepsBudget ==
    ASSUME Q!SkeletonAssumption PROVE Q!Spec => Q!KeepsTheBudget
<1>1. Q!Init => Q!Budget!Init
  BY QuotaStart
<1>2. QInv /\ [Q!Next]_Q!vars => [Q!Budget!Next]_(Q!Budget!vars)
  BY QuotaStep
<1> QED BY <1>1, <1>2, QuotaInductive, PTL DEF Q!Spec, Q!KeepsTheBudget, Q!Budget!Spec

LEMMA PaidOnceKept ==
    ASSUME Q!SkeletonAssumption PROVE Q!Spec => Q!PaidOnce
<1>1. QInv /\ [Q!Next]_Q!vars =>
        [\A c \in QCalls :
           (/\ qcall[c].pc = "consume" /\ qcall'[c].pc = "idle"
            /\ qcall[c].key \in qmeter[qcall[c].meter].idem) => UNCHANGED <<qmeter, winTotal>>]_Q!vars
  BY PaidForStep
<1> QED BY <1>1, QuotaInductive, PTL DEF Q!Spec, Q!PaidOnce
-----------------------------------------------------------------------------
(***************************************************************************)
(* LlmRouter.  The policy always picks one provider, and with it what it   *)
(* needs: a lab needs nothing, a premium one has its key.                  *)
(***************************************************************************)

Paid == env.premium /\ (env.openai \/ env.anthropic)

LEMMA OnePicked ==
    ASSUME env \in L!Envs, NEW mode \in L!Modes
    PROVE  \E p \in L!Lab \cup L!Premium :
             /\ L!pickProvider(mode) = {p}
             /\ p \in L!Premium => env[p]
             /\ p \in L!Premium <=> mode = "default" /\ Paid
<1>1. CASE mode = "adult"
  <2>1. L!prefer(mode) = <<"lab_adult", "lab_default">>
    BY <1>1 DEF L!prefer
  <2>2. L!usable(mode) = {1, 2}
    BY <1>1, <2>1 DEF L!usable, L!mayUse, L!Lab
  <2>3. {i \in L!usable(mode) : \A j \in L!usable(mode) : i <= j} = {1}
    BY <2>2
  <2>4. L!pickProvider(mode) = {"lab_adult"}
    BY <2>1, <2>3 DEF L!pickProvider
  <2> QED BY <1>1, <2>4 DEF L!Lab, L!Premium
<1>2. CASE mode = "default"
  <2>1. /\ L!prefer(mode) = <<"openai", "anthropic", "lab_default">>
        /\ L!prefer(mode)[1] = "openai" /\ L!prefer(mode)[2] = "anthropic"
        /\ L!prefer(mode)[3] = "lab_default" /\ DOMAIN L!prefer(mode) = {1, 2, 3}
    BY <1>2 DEF L!prefer
  <2>2. \A i : i \in L!usable(mode) <=>
                  \/ i = 1 /\ env.premium /\ env.openai
                  \/ i = 2 /\ env.premium /\ env.anthropic
                  \/ i = 3
    BY <1>2, <2>1 DEF L!usable, L!mayUse, L!Premium
  <2> DEFINE first == {i \in L!usable(mode) : \A j \in L!usable(mode) : i <= j}
  <2>3. L!pickProvider(mode) = {L!prefer(mode)[i] : i \in first}
    BY DEF L!pickProvider
  <2>4. CASE env.premium /\ env.openai
    <3>1. first = {1}
      BY <2>2, <2>4
    <3> HIDE DEF first
    <3>2. L!pickProvider(mode) = {"openai"}
      BY <2>1, <2>3, <3>1
    <3> QED BY <1>2, <2>4, <3>2 DEF Paid, L!Premium
  <2>5. CASE env.premium /\ ~env.openai /\ env.anthropic
    <3>1. first = {2}
      BY <2>2, <2>5
    <3> HIDE DEF first
    <3>2. L!pickProvider(mode) = {"anthropic"}
      BY <2>1, <2>3, <3>1
    <3> QED BY <1>2, <2>5, <3>2 DEF Paid, L!Premium
  <2>6. CASE ~Paid
    <3>1. first = {3}
      BY <2>2, <2>6 DEF Paid
    <3> HIDE DEF first
    <3>2. L!pickProvider(mode) = {"lab_default"}
      BY <2>1, <2>3, <3>1
    <3> QED BY <1>2, <2>6, <3>2 DEF Paid, L!Premium, L!Lab
  <2> QED BY <2>4, <2>5, <2>6 DEF Paid
<1> QED BY <1>1, <1>2 DEF L!Modes

LInv == L!TypeOK /\ L!EveryPromptRouted

LEMMA GenerateStep ==
    ASSUME L!LlmAssumption, LInv, NEW mode \in L!Modes, NEW model \in Models \cup {None},
           L!handleGenerate(mode, model)
    PROVE  LInv'
<1>1. env \in L!Envs /\ env' = env
  BY DEF LInv, L!TypeOK, L!handleGenerate
<1>2. PICK p \in L!Lab \cup L!Premium :
        /\ L!pickProvider(mode) = {p}
        /\ p \in L!Premium => env[p]
        /\ p \in L!Premium <=> mode = "default" /\ Paid
  BY <1>1, OnePicked
<1> DEFINE x == L!upstreamReq(p, model)
<1>3. x.to = p /\ x \in L!Sent
  BY <1>2 DEF L!upstreamReq, L!Sent
<1>4. x # None
  BY <1>3 DEF L!LlmAssumption
<1> HIDE DEF x
<1>5. L!outcomes(L!pickProvider(mode), model) = {x} \X {200, 502}
  BY <1>2, <1>4 DEF L!outcomes, x
<1>6. PICK o \in {x} \X {200, 502} :
        prompt' = [mode |-> mode, met |-> env, sent |-> o[1], status |-> o[2]]
  BY <1>5 DEF L!handleGenerate
<1>7. prompt'.mode = mode /\ prompt'.met = env /\ prompt'.sent = x /\ prompt'.status \in {200, 502}
  BY <1>6
<1>8. L!TypeOK'
  BY <1>1, <1>7 DEF L!TypeOK
<1>9. L!EveryPromptRouted'
  BY <1>2, <1>3, <1>4, <1>7 DEF L!EveryPromptRouted, Paid
<1> QED BY <1>8, <1>9 DEF LInv

LEMMA LlmInductive ==
    ASSUME L!LlmAssumption PROVE L!Spec => []LInv
<1>1. L!Init => LInv
  BY DEF L!Init, LInv, L!TypeOK, L!EveryPromptRouted
<1>2. LInv /\ [L!Next]_L!vars => LInv'
  <2> SUFFICES ASSUME LInv, [L!Next]_L!vars PROVE LInv'
    OBVIOUS
  <2>1. CASE UNCHANGED L!vars
    BY <2>1 DEF L!vars, LInv, L!TypeOK, L!EveryPromptRouted
  <2>2. ASSUME NEW e \in L!Envs, L!Deploy(e) PROVE LInv'
    BY <2>2 DEF L!Deploy, LInv, L!TypeOK, L!EveryPromptRouted
  <2> QED BY <2>1, <2>2, GenerateStep DEF L!Next
<1> QED BY <1>1, <1>2, PTL DEF L!Spec
-----------------------------------------------------------------------------
(***************************************************************************)
(* Registry.  The list a post has read holds what was acknowledged then;   *)
(* what was acknowledged since is dropped by its put, and crossed it.      *)
(***************************************************************************)

\* A list without repetitions, all of it acknowledged.
Sound(list) ==
    /\ \A i, j \in DOMAIN list : list[i] = list[j] => i = j
    /\ \A i \in DOMAIN list : post[list[i]].pc = "ok"

\* It misses none of the servers of known but those a later put dropped.
Complete(list, known) ==
    \A p \in known : \/ \E i \in DOMAIN list : list[i] = p
                     \/ \E q \in Posts : <<p, q>> \in crossed

GInv == /\ G!TypeOK
        /\ Sound(curated) /\ Complete(curated, G!Acknowledged)
        /\ \A p \in Posts : post[p].pc = "push" =>
             Sound(post[p].list) /\ Complete(post[p].list, post[p].known)

LEMMA RegistryTypes ==
    ASSUME GInv
    PROVE  /\ curated \in Seq(Posts) /\ post \in [Posts -> G!Post]
           /\ crossed \subseteq Posts \X Posts /\ G!Acknowledged \subseteq Posts
           /\ \A p \in Posts : /\ post[p] \in G!Post /\ post[p].list \in Seq(Posts)
                               /\ post[p].known \subseteq Posts
BY DEF GInv, G!TypeOK, G!Post, G!Acknowledged

\* A list stays sound while no server stops being acknowledged, and complete while
\* nothing is asked of it that was not.
LEMMA SoundStays ==
    ASSUME NEW list \in Seq(Posts), Sound(list),
           \A p \in Posts : post[p].pc = "ok" => post'[p].pc = "ok"
    PROVE  Sound(list)'
<1>1. \A i \in DOMAIN list : list[i] \in Posts
  OBVIOUS
<1> QED BY <1>1 DEF Sound

LEMMA CompleteStays ==
    ASSUME NEW list, NEW known, Complete(list, known), crossed \subseteq crossed'
    PROVE  Complete(list, known)'
BY DEF Complete

\* Post p, not acknowledged before, becomes x, and is not acknowledged; the list
\* stays.
LEMMA PostBecomes ==
    ASSUME GInv, NEW p \in Posts, post[p].pc # "ok", NEW x \in G!Post, x.pc # "ok",
           post' = [post EXCEPT ![p] = x],
           x.pc = "push" => Sound(x.list) /\ Complete(x.list, x.known),
           UNCHANGED <<curated, crossed, listed>>
    PROVE  GInv'
<1>1. /\ curated \in Seq(Posts) /\ post \in [Posts -> G!Post]
      /\ \A q \in Posts : post[q].list \in Seq(Posts) /\ post[q].known \subseteq Posts
      /\ x.list \in Seq(Posts) /\ x.known \subseteq Posts
  BY RegistryTypes DEF G!Post
<1>2. post' \in [Posts -> G!Post] /\ post'[p] = x /\ \A q \in Posts \ {p} : post'[q] = post[q]
  BY <1>1
<1>3. G!Acknowledged' = G!Acknowledged
  BY <1>1, <1>2 DEF G!Acknowledged
<1>4. \A l \in Seq(Posts) : Sound(l) => Sound(l)'
  BY <1>2, SoundStays
<1>5. \A l, k : Complete(l, k) => Complete(l, k)'
  BY CompleteStays
<1>6. Sound(curated)' /\ Complete(curated, G!Acknowledged)'
  <2>1. Sound(curated)'
    BY <1>1, <1>4 DEF GInv
  <2>2. Complete(curated, G!Acknowledged)'
    BY <1>3 DEF GInv, Complete
  <2> QED BY <2>1, <2>2
<1>7. ASSUME NEW q \in Posts, post'[q].pc = "push"
      PROVE  Sound(post[q].list)' /\ Complete(post[q].list, post[q].known)'
  <2>1. PICK l \in Seq(Posts), k \in SUBSET Posts : l = post'[q].list /\ k = post'[q].known
    BY <1>1, <1>2
  <2>2. Sound(l) /\ Complete(l, k)
    BY <1>2, <1>7, <2>1 DEF GInv
  <2>3. Sound(l)' /\ Complete(l, k)'
    BY <1>4, <1>5, <2>2
  <2>4. Sound(post[q].list)'
    BY <2>1, <2>3 DEF Sound
  <2>5. Complete(post[q].list, post[q].known)'
    BY <2>1, <2>3 DEF Complete
  <2> QED BY <2>4, <2>5
<1>8. G!TypeOK'
  BY <1>2 DEF GInv, G!TypeOK
<1> QED BY <1>6, <1>7, <1>8 DEF GInv

LEMMA PostStep ==
    ASSUME GInv, NEW p \in Posts, G!postServer(p) PROVE GInv'
<1> DEFINE x == [post[p] EXCEPT !.pc = "read"]
<1>0. post[p] \in G!Post
  BY RegistryTypes
<1>1. x \in G!Post /\ x.pc = "read"
  BY <1>0 DEF G!Post
<1>2. post[p].pc = "new" /\ post' = [post EXCEPT ![p] = x] /\ UNCHANGED <<curated, crossed, listed>>
  BY RegistryTypes DEF G!postServer
<1> HIDE DEF x
<1> QED BY <1>1, <1>2, PostBecomes

LEMMA ReadCuratedStep ==
    ASSUME GInv, NEW p \in Posts, G!readCurated(p) PROVE GInv'
<1> DEFINE x == [post[p] EXCEPT !.pc = "push", !.list = curated, !.known = G!Acknowledged]
<1>0. post[p] \in G!Post /\ curated \in Seq(Posts) /\ G!Acknowledged \in SUBSET Posts
  BY RegistryTypes
<1>1. x \in G!Post /\ x.pc = "push" /\ x.list = curated /\ x.known = G!Acknowledged
  BY <1>0 DEF G!Post
<1>2. post[p].pc = "read" /\ post' = [post EXCEPT ![p] = x] /\ UNCHANGED <<curated, crossed, listed>>
  BY RegistryTypes DEF G!readCurated
<1> HIDE DEF x
<1>3. Sound(x.list) /\ Complete(x.list, x.known)
  BY <1>1 DEF GInv
<1> QED BY <1>1, <1>2, <1>3, PostBecomes

LEMMA FailStep ==
    ASSUME GInv, NEW p \in Posts, G!fail(p) PROVE GInv'
<1> DEFINE x == [post[p] EXCEPT !.pc = "error", !.list = << >>, !.known = {}]
<1>1. post[p] \in G!Post /\ << >> \in Seq(Posts) /\ {} \in SUBSET Posts
  BY RegistryTypes
<1>2. x \in G!Post /\ x.pc = "error"
  BY <1>1 DEF G!Post
<1>3. /\ post[p].pc \in {"read", "push"} /\ post' = [post EXCEPT ![p] = x]
      /\ UNCHANGED <<curated, crossed, listed>>
  BY RegistryTypes DEF G!fail, G!InFlight
<1> HIDE DEF x
<1> QED BY <1>2, <1>3, PostBecomes

\* The list put is the one read, and the server posted after it.
LEMMA PutStep ==
    ASSUME GInv, NEW p \in Posts, G!putCurated(p) PROVE GInv'
<1>1. /\ curated \in Seq(Posts) /\ post \in [Posts -> G!Post] /\ crossed \subseteq Posts \X Posts
      /\ G!Acknowledged \subseteq Posts /\ \A q \in Posts : post[q].list \in Seq(Posts)
      /\ \A q \in Posts : post[q].known \subseteq Posts
  BY RegistryTypes
<1>2. PICK l \in Seq(Posts), known \in SUBSET Posts : l = post[p].list /\ known = post[p].known
  BY <1>1
<1>3. /\ post' \in [Posts -> G!Post] /\ post'[p].pc = "ok" /\ post[p].pc = "push"
      /\ \A q \in Posts \ {p} : post'[q] = post[q]
      /\ curated' = Append(l, p)
      /\ crossed' = crossed \cup (G!Acknowledged \ known) \X {p}
      /\ UNCHANGED listed
  <2> DEFINE x == [post[p] EXCEPT !.pc = "ok", !.list = << >>, !.known = {}]
  <2>1. post[p] \in G!Post /\ << >> \in Seq(Posts) /\ {} \in SUBSET Posts
    BY <1>1
  <2>2. x \in G!Post /\ x.pc = "ok"
    BY <2>1 DEF G!Post
  <2>3. post' = [post EXCEPT ![p] = x] /\ post[p].pc = "push"
    BY <1>1 DEF G!putCurated
  <2>4. /\ curated' = Append(l, p) /\ UNCHANGED listed
        /\ crossed' = crossed \cup (G!Acknowledged \ known) \X {p}
    BY <1>2 DEF G!putCurated
  <2> HIDE DEF x
  <2> QED BY <1>1, <2>2, <2>3, <2>4
<1>4. Sound(l) /\ Complete(l, known)
  BY <1>2, <1>3 DEF GInv
<1>5. /\ DOMAIN curated' = 1..(Len(l) + 1) /\ DOMAIN l = 1..Len(l) /\ Len(l) \in Nat
      /\ \A i \in 1..Len(l) : curated'[i] = l[i] /\ l[i] \in Posts
      /\ curated'[Len(l) + 1] = p /\ curated' \in Seq(Posts)
  BY <1>3
<1>6. Sound(curated)'
  <2>1. \A i \in DOMAIN l : l[i] # p /\ post'[l[i]].pc = "ok"
    BY <1>3, <1>4, <1>5 DEF Sound
  <2>2. \A i, j \in DOMAIN curated' : curated'[i] = curated'[j] => i = j
    BY <1>4, <1>5, <2>1 DEF Sound
  <2>3. \A i \in DOMAIN curated' : post'[curated'[i]].pc = "ok"
    BY <1>3, <1>5, <2>1
  <2> QED BY <2>2, <2>3 DEF Sound
<1>7. Complete(curated, G!Acknowledged)'
  <2> SUFFICES ASSUME NEW q \in G!Acknowledged'
               PROVE  \/ \E i \in DOMAIN curated' : curated'[i] = q
                      \/ \E r \in Posts : <<q, r>> \in crossed'
    BY DEF Complete
  <2>1. q \in Posts /\ (q = p \/ q \in G!Acknowledged)
    BY <1>3 DEF G!Acknowledged
  <2>2. CASE q = p
    BY <1>5, <2>2
  <2>3. CASE q \in known
    <3>1. CASE \E i \in DOMAIN l : l[i] = q
      BY <1>5, <3>1
    <3>2. CASE \E r \in Posts : <<q, r>> \in crossed
      BY <1>3, <3>2
    <3> QED BY <1>4, <2>3, <3>1, <3>2 DEF Complete
  <2>4. CASE q \in G!Acknowledged /\ q \notin known
    <3>1. <<q, p>> \in (G!Acknowledged \ known) \X {p}
      BY <2>4
    <3>2. <<q, p>> \in crossed'
      BY <1>3, <3>1
    <3> QED BY <3>2
  <2> QED BY <2>1, <2>2, <2>3, <2>4
<1>8. ASSUME NEW q \in Posts, post'[q].pc = "push"
      PROVE  Sound(post[q].list)' /\ Complete(post[q].list, post[q].known)'
  <2>1. q # p /\ post'[q] = post[q] /\ post[q].pc = "push"
    BY <1>3, <1>8
  <2>2. PICK k \in Seq(Posts), n \in SUBSET Posts : k = post[q].list /\ n = post[q].known
    BY <1>1
  <2>3. Sound(k) /\ Complete(k, n)
    BY <2>1, <2>2 DEF GInv
  <2>4. Sound(k)'
    BY <1>3, <2>3, SoundStays
  <2>5. Complete(k, n)'
    BY <1>3, <2>3, CompleteStays
  <2>6. Sound(post[q].list)'
    BY <2>1, <2>2, <2>4 DEF Sound
  <2>7. Complete(post[q].list, post[q].known)'
    BY <2>1, <2>2, <2>5 DEF Complete
  <2> QED BY <2>6, <2>7
<1>9. G!TypeOK'
  BY <1>1, <1>3, <1>5 DEF GInv, G!TypeOK
<1> QED BY <1>6, <1>7, <1>8, <1>9 DEF GInv

LEMMA RegistryInductive == G!Spec => []GInv
<1>1. G!Init => GInv
  BY DEF G!Init, GInv, G!TypeOK, G!Post, Sound, Complete, G!Acknowledged
<1>2. GInv /\ [G!Next]_G!vars => GInv'
  <2> SUFFICES ASSUME GInv, [G!Next]_G!vars PROVE GInv'
    OBVIOUS
  <2>1. CASE UNCHANGED G!vars
    BY <2>1 DEF G!vars, GInv, G!TypeOK, Sound, Complete, G!Acknowledged
  <2>2. CASE G!getServers
    <3>1. UNCHANGED <<curated, post, crossed>>
      BY <2>2 DEF G!getServers
    <3>2. G!TypeOK'
      BY <2>2 DEF G!getServers, G!fetchUpstream, G!ToSet, GInv, G!TypeOK
    <3> QED BY <3>1, <3>2 DEF GInv, Sound, Complete, G!Acknowledged
  <2> QED BY <2>1, <2>2, PostStep, ReadCuratedStep, PutStep, FailStep DEF G!Next
<1> QED BY <1>1, <1>2, PTL DEF G!Spec

LEMMA RegistryStays == ASSUME GInv PROVE G!AcknowledgedStays
<1>1. \A p \in G!Acknowledged : p \in G!ToSet(curated) \/ \E q \in Posts : <<p, q>> \in crossed
  BY DEF GInv, Complete, G!ToSet
<1>2. G!IsInjective(curated)
  BY DEF GInv, Sound, G!IsInjective
<1>3. G!ToSet(curated) \subseteq G!Acknowledged
  BY RegistryTypes DEF GInv, Sound, G!ToSet, G!Acknowledged
<1> QED BY <1>1, <1>2, <1>3 DEF G!AcknowledgedStays
-----------------------------------------------------------------------------
(* The twelve together *)

\* A behaviour of all is one of each: a scene steps its own part only.
LEMMA PartsStart ==
    Init => /\ U!Init /\ S!Init /\ R!Init /\ W!Init /\ P!Init /\ H!Init
            /\ D!Init /\ I!Init /\ Q!Init /\ M!Init /\ L!Init /\ G!Init
BY DEF Init

LEMMA PartsUSR == Spec => U!Spec /\ S!Spec /\ R!Spec
<1>1. [Next]_vars => [U!Next]_U!vars /\ [S!Next]_S!vars /\ [R!Next]_R!vars
  BY DEF Next, vars, uvars, svars, rvars, U!vars, S!vars, R!vars
<1> QED BY <1>1, PartsStart, PTL DEF Spec, U!Spec, S!Spec, R!Spec

LEMMA PartsWPH == Spec => W!Spec /\ P!Spec /\ H!Spec
<1>1. [Next]_vars => [W!Next]_W!vars /\ [P!Next]_P!vars /\ [H!Next]_H!vars
  BY DEF Next, vars, wvars, pvars, hvars, W!vars, P!vars, H!vars
<1> QED BY <1>1, PartsStart, PTL DEF Spec, W!Spec, P!Spec, H!Spec

LEMMA PartsDIQ == Spec => D!Spec /\ I!Spec /\ Q!Spec
<1>1. [Next]_vars => [D!Next]_D!vars
  BY DEF Next, vars, dvars, D!vars
<1>2. [Next]_vars => [I!Next]_I!vars
  BY DEF Next, vars, ivars, I!vars, I!files
<1>3. [Next]_vars => [Q!Next]_Q!vars
  BY DEF Next, vars, qvars, Q!vars
<1> QED BY <1>1, <1>2, <1>3, PartsStart, PTL DEF Spec, D!Spec, I!Spec, Q!Spec

LEMMA PartsMLG == Spec => M!Spec /\ L!Spec /\ G!Spec
<1>1. [Next]_vars => [M!Next]_M!vars /\ [L!Next]_L!vars /\ [G!Next]_G!vars
  BY DEF Next, vars, mvars, lvars, gvars, M!vars, L!vars, G!vars
<1> QED BY <1>1, PartsStart, PTL DEF Spec, M!Spec, L!Spec, G!Spec

LEMMA SceneStays == Spec => [](scene \in Scenes)
<1>1. Init => scene \in Scenes
  BY DEF Init
<1>2. scene \in Scenes /\ [Next]_vars => (scene \in Scenes)'
  BY DEF Next, vars, Scenes
<1> QED BY <1>1, <1>2, PTL DEF Spec

\* Whatever overlaps, fails or is sent again, the rows, objects, sockets, counters
\* and caches of the services keep their types (worker.ts of the media API, room.ts
\* of the RTC worker, proxy.rs, server.ts and the others).
THEOREM TypesOKHolds == Spec => []TypesOK
<1> USE WorkersAssumption DEF WorkersAssumption
<1>1. /\ UInv => U!TypeOK
      /\ MInv => S!TypeOK
      /\ RInv => R!TypeOK
      /\ WInv => W!TypeOK
      /\ PInv => P!TypeOK
      /\ HInv => H!TypeOK
  BY DEF UInv, MInv, RInv, WInv, PInv, HInv
<1>2. /\ DeskInv => D!TypeOK
      /\ XInv => I!TypeOK
      /\ QInv => Q!TypeOK
      /\ CInv => M!TypeOK
      /\ LInv => L!TypeOK
      /\ GInv => G!TypeOK
  BY DEF DeskInv, XInv, QInv, CInv, LInv, GInv
<1>3. /\ scene \in Scenes
      /\ U!TypeOK /\ S!TypeOK /\ R!TypeOK /\ W!TypeOK /\ P!TypeOK /\ H!TypeOK
      /\ D!TypeOK /\ I!TypeOK /\ Q!TypeOK /\ M!TypeOK /\ L!TypeOK /\ G!TypeOK
      => TypesOK
  BY DEF TypesOK, Scenes
<1>4. Spec => []U!TypeOK /\ []S!TypeOK /\ []R!TypeOK
  BY <1>1, PartsUSR, UploadsInductive, StreamsInductive, RoomInductive, PTL
<1>5. Spec => []W!TypeOK /\ []P!TypeOK /\ []H!TypeOK
  BY <1>1, PartsWPH, WebhooksInductive, ProxyInductive, HandoversInductive, PTL
<1>6. Spec => []D!TypeOK /\ []I!TypeOK /\ []Q!TypeOK
  BY <1>2, PartsDIQ, DeskInductive, IndexInductive, QuotaInductive, PTL
<1>7. Spec => []M!TypeOK /\ []L!TypeOK /\ []G!TypeOK
  BY <1>2, PartsMLG, GatewayInductive, LlmInductive, RegistryInductive, PTL
<1> QED BY <1>3, <1>4, <1>5, <1>6, <1>7, SceneStays, PTL

\* However many commits and deliveries overlap, whichever of their calls fail and
\* are tried again, a medium is announced at most once (commit of the media API,
\* whose insert names the id), and no event is processed again by a delivery with
\* its id whose lookup finds the mark (handleWebhook).
THEOREM HandledOnceHolds == Spec => []HandledOnce
<1> USE WorkersAssumption DEF WorkersAssumption
<1>1. UInv /\ WInv => HandledOnce
  BY NotAgain DEF UInv, HandledOnce
<1> QED BY <1>1, PartsUSR, PartsWPH, UploadsInductive, WebhooksInductive, PTL

\* A session's end announces a replay when the last go_live it came after asked
\* for a recording, and only then, unless handlers of the session overlapped
\* (handleEnd puts back the whole record it read).
THEOREM ReplayFollowsRecordingHolds == Spec => []ReplayFollowsRecording
<1> USE WorkersAssumption DEF WorkersAssumption
<1>1. MInv => ReplayFollowsRecording
  BY ReplayFollows DEF ReplayFollowsRecording
<1> QED BY <1>1, PartsUSR, StreamsInductive, PTL

\* A client that has read all it was sent shows the number of sockets the room
\* has, or one that another client sent it since, however joins, leaves, closes
\* and messages interleave (RoomDO).
THEOREM CountsAgreeHolds == Spec => []CountsAgree
<1> USE WorkersAssumption DEF WorkersAssumption
<1>1. \A v, n : Knows(<<>>, v, n) => v \in {n, R!Claimed}
  BY DEF Knows, LastSays, Right
<1>2. \A A : R!Cardinality(A) = Cardinality(A)
  BY DEF R!Cardinality, Cardinality
<1>3. RInv => CountsAgree
  BY <1>1, <1>2 DEF RInv, Members, CountsAgree, R!CountsAgree
<1> QED BY <1>3, PartsUSR, RoomInductive, PTL

\* The counters of the proxy add up whenever they are read: no decision is counted
\* without its outcome, whatever requests run at the same time (metrics of the
\* policy proxy).
THEOREM MetricsAddUpHolds == Spec => []MetricsAddUp
<1> USE WorkersAssumption DEF WorkersAssumption
<1>1. PInv => MetricsAddUp
  BY ProxyAddsUp DEF MetricsAddUp
<1> QED BY <1>1, PartsWPH, ProxyInductive, PTL

\* Once it is indexed every line of a file has one anchor, and a vector when the
\* job had its bindings, with them missing at first as deployed; the counts a
\* session has consumed, less the negative ones, stay in its budget; every prompt
\* is routed to a provider that may be used; and a server whose post was
\* acknowledged is listed, or was dropped by a post that had read the list before
\* (indexFile, consumeTokens, pickProvider and the post of the registry).
THEOREM BooksKeptHolds == Spec => []BooksKept
<1> USE WorkersAssumption DEF WorkersAssumption
<1>1. XInv /\ DeskInv /\ LInv /\ GInv => BooksKept
  BY AnchorsAreCovered, RegistryStays DEF DeskInv, LInv, BooksKept
<1> QED BY <1>1, PartsDIQ, PartsMLG, IndexInductive, DeskInductive, LlmInductive,
           RegistryInductive, PTL

\* The handover an entity is told of is the newest one that is stored, unless two
\* were stored in the same millisecond (latest of the handovers).
THEOREM HandoverKnownHolds == Spec => HandoverKnown
<1> USE WorkersAssumption DEF WorkersAssumption
<1> QED BY HandoversKnown, PartsWPH, PTL DEF HandoverKnown

\* An operation whose result is cached is not run again in its socket, nor is one
\* that was paid paid again; and the skeleton of the quota object keeps the promise
\* of QuotaBudget (handle of the gateway, checkAndConsume of the skeleton).
THEOREM NotDoneAgainHolds == Spec => NotDoneAgain
<1> USE WorkersAssumption DEF WorkersAssumption
<1>1. Spec => M!RunOncePerSocket
  BY RunsOnce, PartsMLG, PTL
<1>2. Spec => Q!PaidOnce
  BY PaidOnceKept, PartsDIQ, PTL
<1>3. Spec => Q!KeepsTheBudget
  BY SkeletonKeepsBudget, PartsDIQ, PTL
<1> QED BY <1>1, <1>2, <1>3 DEF NotDoneAgain
=============================================================================
