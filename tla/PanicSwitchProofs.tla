------------------------- MODULE PanicSwitchProofs -------------------------
(***************************************************************************)
(* Proofs about PanicSwitch, for any calls and any times to live.  What a  *)
(* request was promised is, while it is in flight, what is still held, and *)
(* what is held is true of the keys (HeldIsTrue); it is held only while no *)
(* switch call is in flight.  A switch call that ran alone so far knows    *)
(* what it has written.  Sound says it of one call.                        *)
(***************************************************************************)
EXTENDS PanicSwitch, TLAPS

InFlight(q) == q.pc \notin {"idle", "done"}
Puts  == {"put_active", "put_expires", "put_reason"}
Dels  == {"del_active", "del_expires", "del_reason"}
Reads == {"read_active", "read_expires"}

\* Where a call is tells what it does.
Placed(q) == /\ q.pc \in Puts => q.op = "on"
             /\ q.pc \in Dels => q.op = "off"
             /\ q.pc \in Reads => q.op = "request"
             /\ q.pc = "put_active" => q.left <= q.ttl
             /\ q.pc # "done" => q.out = "none"

\* What a call in flight relies on, given the keys and what is held.
Relies(q, act, exp, hld) ==
    /\ InFlight(q) /\ q.promise.says # "nothing" =>
         q.promise = hld /\ q.op = "request"
    /\ q.alone /\ q.pc \in {"put_expires", "put_reason"} => act >= q.left
    /\ q.alone /\ q.pc = "put_reason" => exp.left = q.left
    /\ q.alone /\ q.pc \in {"del_expires", "del_reason"} => act = 0
    /\ q.pc = "read_expires" =>
         /\ q.promise.says = "on" /\ q.promise.left > 0 => q.flag
         /\ q.promise.says = "off" => ~q.flag

\* The answers keep the promises.
Kept(q) == /\ q.out = "normal" => ~(q.promise.says = "on" /\ q.promise.left > 0)
           /\ q.out = "panic" => q.promise.says # "off"

Sound(q, act, exp, hld) == Placed(q) /\ Relies(q, act, exp, hld) /\ Kept(q)

IsSwitching(q) == InFlight(q) /\ q.op \in Switches

\* A call marked alone is the only switch call in flight.
AloneIsAlone ==
    \A c, d \in Calls : IsSwitching(call[c]) /\ call[c].alone /\ IsSwitching(call[d])
                          => c = d

HeldIsQuiet == held.says # "nothing" => \A c \in Calls : ~IsSwitching(call[c])

HeldIsTrue == /\ held.says = "on" => active >= held.left /\ expires.left = held.left
              /\ held.says = "off" => active = 0

IInv == /\ TypeOK
        /\ AloneIsAlone /\ HeldIsQuiet /\ HeldIsTrue
        /\ \A c \in Calls : Sound(call[c], active, expires, held)
-----------------------------------------------------------------------------
(* Types *)

LEMMA BlankTyped ==
    ASSUME NEW op \in Switches \cup {"request"}
    PROVE  Blank(op) \in Call
  BY DEF Blank, Call, Pcs, Promise, Nothing

LEMMA CallNumbers ==
    ASSUME NEW q \in Call
    PROVE  q.ttl \in Nat /\ q.left \in Nat /\ q.promise \in Promise
<1>1. q.ttl \in Ttls \cup {0} /\ q.left \in Nat /\ q.promise \in Promise
  BY DEF Call
<1>2. \A n \in Ttls : n \in Nat
  BY PanicAssumption
<1>3. q.ttl \in Nat
  BY <1>1, <1>2
<1>. QED
  BY <1>1, <1>3

LEMMA LessTyped ==
    ASSUME NEW n \in Nat
    PROVE  Less(n) \in Nat
  BY DEF Less

\* A call that has ended.
Ended(q, out) == [Blank(q.op) EXCEPT !.pc = "done", !.promise = q.promise,
                                     !.out = out]

LEMMA EndedTyped ==
    ASSUME NEW q \in Call, NEW out \in {"ok", "failed", "panic", "normal"}
    PROVE  /\ Ended(q, out) \in Call
           /\ Ended(q, out).pc = "done"
           /\ Ended(q, out).out = out
           /\ Ended(q, out).promise = q.promise
<1>1. Blank(q.op) \in Call
  BY BlankTyped DEF Call
<1>2. q.promise \in Promise
  BY DEF Call
<1>. DEFINE b == Blank(q.op)
<1>3. Ended(q, out) = [b EXCEPT !.pc = "done", !.promise = q.promise, !.out = out]
  BY DEF Ended
<1>. HIDE DEF b
<1>. QED
  BY <1>1, <1>2, <1>3 DEF b, Call, Pcs

LEMMA EndedSound ==
    ASSUME NEW q \in Call, NEW out \in {"ok", "failed", "panic", "normal"},
           Kept(Ended(q, out)), NEW act, NEW exp, NEW hld
    PROVE  Sound(Ended(q, out), act, exp, hld)
  BY EndedTyped DEF Sound, Placed, Relies, InFlight, Puts, Dels, Reads

LEMMA InitInv == Init => IInv
<1>. SUFFICES ASSUME Init PROVE IInv
  OBVIOUS
<1>1. TypeOK
  BY BlankTyped DEF Init, TypeOK, Over, Promise
<1>2. \A c \in Calls : call[c].pc = "idle" /\ call[c].out = "none"
  BY DEF Init, Blank
<1>. QED
  BY <1>1, <1>2 DEF Init, IInv, AloneIsAlone, HeldIsQuiet, HeldIsTrue, Sound,
     Placed, Relies, Kept, IsSwitching, InFlight, Over, Puts, Dels, Reads
-----------------------------------------------------------------------------
(* A step that changes one call *)

\* While a switch call is in flight no other call relies on anything.
LEMMA NobodyRelies ==
    ASSUME IInv, NEW c \in Calls, IsSwitching(call[c]),
           NEW d \in Calls \ {c}, NEW act, NEW exp, NEW hld
    PROVE  Sound(call[d], act, exp, hld)
<1>1. held.says = "nothing"
  BY DEF IInv, HeldIsQuiet
<1>2. InFlight(call[d]) => call[d].promise.says = "nothing"
  BY <1>1 DEF IInv, Sound, Relies
<1>3. IsSwitching(call[d]) => ~call[d].alone
  BY DEF IInv, AloneIsAlone
<1>4. call[d].pc \in Puts \cup Dels => IsSwitching(call[d])
  BY DEF IInv, Sound, Placed, IsSwitching, InFlight, Puts, Dels, Switches
<1>5. Placed(call[d]) /\ Kept(call[d])
  BY DEF IInv, Sound
<1>. QED
  BY <1>2, <1>3, <1>4, <1>5 DEF Sound, Relies, InFlight, Puts, Dels

LEMMA OneCall ==
    ASSUME IInv, NEW c \in Calls, NEW n \in Call,
           call' = [call EXCEPT ![c] = n],
           active' \in Nat, expires' \in [key : Nat, left : Nat],
           held' \in Promise,
           IsSwitching(n) => IsSwitching(call[c]) /\ n.alone = call[c].alone,
           held' = held \/ (IsSwitching(call[c]) /\ call[c].alone /\ ~IsSwitching(n)),
           \/ IsSwitching(call[c])
           \/ UNCHANGED <<active, expires, held>>,
           HeldIsTrue',
           Sound(n, active', expires', held')
    PROVE  IInv'
<1>1. call \in [Calls -> Call]
  BY DEF IInv, TypeOK
<1>2. call'[c] = n /\ \A d \in Calls \ {c} : call'[d] = call[d]
  BY <1>1
<1>3. TypeOK'
  BY <1>1 DEF TypeOK
<1>4. AloneIsAlone'
  BY <1>2 DEF IInv, AloneIsAlone
<1>5. HeldIsQuiet'
  BY <1>2 DEF IInv, HeldIsQuiet, AloneIsAlone
<1>6. ASSUME NEW d \in Calls \ {c}
      PROVE  Sound(call[d], active', expires', held')
  <2>1. CASE IsSwitching(call[c])
    BY <2>1, NobodyRelies
  <2>2. CASE UNCHANGED <<active, expires, held>>
    BY <2>2 DEF IInv
  <2>. QED
    BY <2>1, <2>2
<1>7. \A d \in Calls : Sound(call'[d], active', expires', held')
  BY <1>2, <1>6
<1>. QED
  BY <1>3, <1>4, <1>5, <1>7 DEF IInv

\* A step that moves a call on and writes nothing.
LEMMA Moved ==
    ASSUME IInv, NEW c \in Calls, NEW n \in Call,
           call' = [call EXCEPT ![c] = n],
           UNCHANGED <<active, expires, held>>,
           IsSwitching(n) => IsSwitching(call[c]) /\ n.alone = call[c].alone,
           Sound(n, active, expires, held)
    PROVE  IInv'
<1>1. TypeOK /\ HeldIsTrue
  BY DEF IInv
<1>2. HeldIsTrue'
  BY <1>1 DEF HeldIsTrue
<1>. QED
  BY <1>1, <1>2, OneCall DEF TypeOK

LEMMA FailStep ==
    ASSUME IInv, NEW c \in Calls, fail(c)
    PROVE  IInv'
<1>. DEFINE n == Ended(call[c], "failed")
<1>1. call[c] \in Call
  BY DEF IInv, TypeOK
<1>2. n \in Call /\ n.pc = "done" /\ n.out = "failed"
  BY <1>1, EndedTyped
<1>3. Sound(n, active, expires, held)
  BY <1>1, <1>2, EndedSound DEF Kept
<1>4. call' = [call EXCEPT ![c] = n] /\ UNCHANGED <<active, expires, held>>
  BY DEF fail, Finish, Ended
<1>. HIDE DEF n
<1>5. ~IsSwitching(n)
  BY <1>2 DEF IsSwitching, InFlight
<1>. QED
  BY <1>2, <1>3, <1>4, <1>5, Moved
-----------------------------------------------------------------------------
(* A request *)

LEMMA ArriveStep ==
    ASSUME IInv, NEW c \in Calls, arrive(c)
    PROVE  IInv'
<1>. DEFINE b == Blank("request")
            n == [b EXCEPT !.pc = "read_active", !.promise = held]
<1>1. b \in Call /\ held \in Promise /\ b.out = "none" /\ b.op = "request"
  BY BlankTyped DEF IInv, TypeOK, Blank
<1>2. call' = [call EXCEPT ![c] = n] /\ UNCHANGED <<active, expires, held>>
  BY DEF arrive
<1>. HIDE DEF b
<1>3. n \in Call
  BY <1>1 DEF Call, Pcs
<1>4. Sound(n, active, expires, held) /\ ~IsSwitching(n)
  BY <1>1 DEF Sound, Placed, Relies, Kept, IsSwitching, Puts, Dels, Reads,
     Switches, Call
<1>. QED
  BY <1>2, <1>3, <1>4, Moved

LEMMA ReadActiveStep ==
    ASSUME IInv, NEW c \in Calls, readActive(c)
    PROVE  IInv'
<1>. DEFINE q == call[c]
            n == [q EXCEPT !.pc = "read_expires", !.flag = active > 0]
<1>1. /\ q \in Call /\ q.pc = "read_active" /\ Sound(q, active, expires, held)
      /\ HeldIsTrue /\ active \in Nat /\ held \in Promise
  BY DEF IInv, TypeOK, readActive, At
<1>2. call' = [call EXCEPT ![c] = n] /\ UNCHANGED <<active, expires, held>>
  BY DEF readActive
<1>. HIDE DEF q
<1>3. n \in Call
  <2>1. (active > 0) \in BOOLEAN
    BY <1>1
  <2>. QED
    BY <1>1, <2>1 DEF Call, Pcs
<1>4. q.op = "request" /\ q.out = "none"
  BY <1>1 DEF Sound, Placed, Reads
<1>5. q.promise.says # "nothing" => q.promise = held
  BY <1>1 DEF Sound, Relies, InFlight
<1>6. /\ q.promise.says = "on" /\ q.promise.left > 0 => active > 0
      /\ q.promise.says = "off" => ~(active > 0)
  BY <1>1, <1>5 DEF HeldIsTrue, Promise
<1>7. Sound(n, active, expires, held) /\ ~IsSwitching(n)
  BY <1>1, <1>4, <1>5, <1>6 DEF Sound, Placed, Relies, Kept, IsSwitching, Puts,
     Dels, Reads, Switches, Call
<1>. QED
  BY <1>2, <1>3, <1>7, Moved DEF q

LEMMA DecideStep ==
    ASSUME IInv, NEW c \in Calls, decide(c)
    PROVE  IInv'
<1>. DEFINE q == call[c]
            out == IF Panics(q.flag) THEN "panic" ELSE "normal"
            n == Ended(q, out)
<1>1. /\ q \in Call /\ q.pc = "read_expires" /\ Sound(q, active, expires, held)
      /\ HeldIsTrue /\ held \in Promise /\ expires \in [key : Nat, left : Nat]
  BY DEF IInv, TypeOK, decide, At
<1>2. call' = [call EXCEPT ![c] = n] /\ UNCHANGED <<active, expires, held>>
  BY DEF decide, Finish, Ended
<1>3. n \in Call /\ n.pc = "done" /\ n.out = out /\ n.promise = q.promise
  BY <1>1, EndedTyped
<1>4. q.promise.says # "nothing" => q.promise = held
  BY <1>1 DEF Sound, Relies, InFlight
<1>5. Kept(n)
  <2>1. ASSUME q.promise.says = "on", q.promise.left > 0
        PROVE  Panics(q.flag)
    <3>1. q.flag
      BY <1>1, <2>1 DEF Sound, Relies
    <3>2. expires.left > 0
      BY <1>1, <1>4, <2>1 DEF HeldIsTrue
    <3>. QED
      BY <3>1, <3>2 DEF Panics
  <2>2. ASSUME q.promise.says = "off"
        PROVE  ~Panics(q.flag)
    BY <1>1, <2>2 DEF Sound, Relies, Panics
  <2>. QED
    BY <1>3, <2>1, <2>2 DEF Kept
<1>6. Sound(n, active, expires, held)
  BY <1>1, <1>5, EndedSound
<1>7. ~IsSwitching(n)
  BY <1>3 DEF IsSwitching, InFlight
<1>. HIDE DEF n
<1>. QED
  BY <1>2, <1>3, <1>6, <1>7, Moved
-----------------------------------------------------------------------------
(* A switch call *)

\* Beginning makes every other call in flight rely on nothing.
LEMMA BeginStep ==
    ASSUME IInv, NEW c \in Calls, NEW q \in Call, Begin(c, q),
           q.op \in Switches, InFlight(q), Placed(q), q.promise = Nothing,
           q.pc \in {"put_active", "del_active"}
    PROVE  IInv'
<1>. DEFINE alone == \A d \in Calls : ~Switching(d)
            new(d) == IF d = c THEN [q EXCEPT !.alone = alone]
                      ELSE IF Free(d) THEN call[d]
                      ELSE [call[d] EXCEPT !.alone = FALSE, !.promise = Nothing]
<1>1. /\ call' = [d \in Calls |-> new(d)] /\ held' = Nothing
      /\ UNCHANGED <<active, expires>>
  BY DEF Begin
<1>2. call \in [Calls -> Call] /\ TypeOK
  BY DEF IInv, TypeOK
<1>3. \A d \in Calls : Switching(d) <=> IsSwitching(call[d])
  BY DEF Switching, IsSwitching, Free, InFlight
<1>4. new(c) \in Call /\ Sound(new(c), active, expires, Nothing)
      /\ new(c).alone = alone /\ new(c).op \in Switches
  <2>. DEFINE m == [q EXCEPT !.alone = alone]
  <2>1. new(c) = m
    OBVIOUS
  <2>2. alone \in BOOLEAN
    OBVIOUS
  <2>. HIDE DEF alone
  <2>3. /\ m \in Call /\ m.alone = alone /\ m.pc = q.pc /\ m.op = q.op
        /\ m.left = q.left /\ m.ttl = q.ttl /\ m.out = q.out
        /\ m.promise = Nothing
    BY <2>2 DEF Call
  <2>. HIDE DEF m
  <2>4. Placed(m)
    BY <2>3 DEF Placed
  <2>5. Relies(m, active, expires, Nothing) /\ Kept(m)
    BY <2>3 DEF Relies, Kept, Nothing
  <2>. QED
    BY <2>1, <2>3, <2>4, <2>5 DEF Sound
<1>5. ASSUME NEW d \in Calls \ {c}
      PROVE  /\ new(d) \in Call
             /\ Sound(new(d), active, expires, Nothing)
             /\ IsSwitching(new(d)) <=> IsSwitching(call[d])
             /\ IsSwitching(new(d)) => ~new(d).alone
  <2>1. call[d] \in Call /\ Sound(call[d], active, expires, held)
    BY <1>2 DEF IInv
  <2>2. CASE Free(d)
    BY <2>1, <2>2 DEF Sound, Relies, Free, IsSwitching, InFlight
  <2>3. CASE ~Free(d)
    <3>. DEFINE m == [call[d] EXCEPT !.alone = FALSE, !.promise = Nothing]
    <3>1. new(d) = m
      BY <2>3
    <3>2. /\ m \in Call /\ m.alone = FALSE /\ m.promise = Nothing
          /\ m.pc = call[d].pc /\ m.op = call[d].op /\ m.out = call[d].out
          /\ m.left = call[d].left /\ m.ttl = call[d].ttl
      BY <2>1 DEF Call, Promise, Nothing
    <3>3. Placed(m)
      BY <2>1, <3>2 DEF Sound, Placed
    <3>4. Relies(m, active, expires, Nothing) /\ Kept(m)
      BY <3>2 DEF Relies, Kept, Nothing
    <3>. HIDE DEF m
    <3>. QED
      BY <3>1, <3>2, <3>3, <3>4 DEF Sound, IsSwitching, InFlight
  <2>. QED
    BY <2>2, <2>3
<1>6. \A d \in Calls : call'[d] = new(d)
  BY <1>1
<1>. HIDE DEF new
<1>7. TypeOK'
  BY <1>1, <1>2, <1>4, <1>5 DEF TypeOK, Promise, Nothing
<1>8. AloneIsAlone'
  BY <1>3, <1>4, <1>5, <1>6 DEF AloneIsAlone
<1>9. HeldIsQuiet' /\ HeldIsTrue'
  BY <1>1 DEF HeldIsQuiet, HeldIsTrue, Nothing
<1>10. \A d \in Calls : Sound(call'[d], active', expires', held')
  BY <1>1, <1>4, <1>5, <1>6
<1>. QED
  BY <1>7, <1>8, <1>9, <1>10 DEF IInv

LEMMA SwitchStep ==
    ASSUME IInv, NEW c \in Calls,
           panicOff(c) \/ \E ttl \in Ttls : panicOn(c, ttl)
    PROVE  IInv'
<1>1. CASE panicOff(c)
  <2>. DEFINE b == Blank("off")
              q == [b EXCEPT !.pc = "del_active"]
  <2>1. b \in Call /\ b.op = "off" /\ b.out = "none" /\ b.promise = Nothing
    BY BlankTyped DEF Blank, Switches
  <2>2. Begin(c, q)
    BY <1>1 DEF panicOff
  <2>. HIDE DEF b
  <2>3. /\ q \in Call /\ q.op \in Switches /\ InFlight(q) /\ Placed(q)
        /\ q.promise = Nothing /\ q.pc = "del_active"
    BY <2>1 DEF Call, Pcs, Switches, InFlight, Placed, Puts, Dels, Reads
  <2>. QED
    BY <2>2, <2>3, BeginStep
<1>2. ASSUME NEW ttl \in Ttls, panicOn(c, ttl)
      PROVE  IInv'
  <2>. DEFINE b == Blank("on")
              q == [b EXCEPT !.pc = "put_active", !.ttl = ttl, !.left = ttl]
  <2>1. b \in Call /\ b.op = "on" /\ b.out = "none" /\ b.promise = Nothing
    BY BlankTyped DEF Blank, Switches
  <2>2. Begin(c, q)
    BY <1>2 DEF panicOn
  <2>. HIDE DEF b
  <2>3. ttl \in Nat
    BY PanicAssumption
  <2>5. ttl \in Ttls \cup {0}
    OBVIOUS
  <2>6. q \in Call
    BY <2>1, <2>3, <2>5 DEF Call, Pcs
  <2>4. /\ q \in Call /\ q.op \in Switches /\ InFlight(q) /\ Placed(q)
        /\ q.promise = Nothing /\ q.pc = "put_active"
    BY <2>1, <2>3, <2>6 DEF Call, Switches, InFlight, Placed, Puts, Dels, Reads
  <2>. QED
    BY <2>2, <2>4, BeginStep
<1>. QED
  BY <1>1, <1>2

\* The first two puts and deletions go on to the next.
LEMMA WriteStep ==
    ASSUME IInv, NEW c \in Calls,
           putActive(c) \/ putExpires(c) \/ delActive(c) \/ delExpires(c)
    PROVE  IInv'
<1>. DEFINE q == call[c]
<1>1. /\ q \in Call /\ Sound(q, active, expires, held) /\ IsSwitching(q)
      /\ active \in Nat /\ expires \in [key : Nat, left : Nat] /\ held \in Promise
  BY DEF IInv, TypeOK, putActive, putExpires, delActive, delExpires, At, Sound,
     Placed, IsSwitching, InFlight, Switches, Puts, Dels
<1>2. PICK pc \in {"put_expires", "put_reason", "del_expires", "del_reason"} :
         /\ Move(c, pc) /\ UNCHANGED held
         /\ \/ /\ pc = "put_expires" /\ q.pc = "put_active"
               /\ active' = q.ttl /\ UNCHANGED expires
            \/ /\ pc = "put_reason" /\ q.pc = "put_expires"
               /\ expires' = [key |-> q.ttl, left |-> q.left] /\ UNCHANGED active
            \/ /\ pc = "del_expires" /\ q.pc = "del_active"
               /\ active' = 0 /\ UNCHANGED expires
            \/ /\ pc = "del_reason" /\ q.pc = "del_expires"
               /\ expires' = [key |-> 0, left |-> 0] /\ UNCHANGED active
  BY DEF putActive, putExpires, delActive, delExpires, At
<1>. DEFINE n == [q EXCEPT !.pc = pc]
<1>3. call' = [call EXCEPT ![c] = n]
  BY <1>2 DEF Move
<1>4. q.ttl \in Nat /\ q.left \in Nat
  BY <1>1, CallNumbers
<1>5. active' \in Nat /\ expires' \in [key : Nat, left : Nat]
  BY <1>1, <1>2, <1>4
<1>6. held.says = "nothing"
  BY <1>1 DEF IInv, HeldIsQuiet
<1>7. HeldIsTrue'
  BY <1>2, <1>6 DEF HeldIsTrue
<1>. HIDE DEF q
<1>8. /\ n \in Call /\ n.pc = pc /\ n.op = q.op /\ n.alone = q.alone
      /\ n.left = q.left /\ n.out = q.out /\ n.promise = q.promise
  BY <1>1 DEF Call, Pcs
<1>9. IsSwitching(n)
  BY <1>1, <1>8 DEF IsSwitching, InFlight
<1>10. Placed(n)
  BY <1>1, <1>2, <1>8 DEF Sound, Placed, Puts, Dels, Reads
<1>11. Relies(n, active', expires', held')
  <2>1. q.promise.says # "nothing" => q.op = "request"
    BY <1>1 DEF Sound, Relies, IsSwitching
  <2>2. q.promise.says = "nothing"
    BY <1>1, <2>1 DEF IsSwitching, Switches
  <2>. QED
    BY <1>1, <1>2, <1>4, <1>8, <2>2 DEF Sound, Placed, Relies
<1>12. Kept(n)
  BY <1>1, <1>8 DEF Sound, Kept
<1>. HIDE DEF n
<1>. QED
  BY <1>1, <1>2, <1>3, <1>5, <1>7, <1>8, <1>9, <1>10, <1>11, <1>12, OneCall
     DEF Sound, q

\* The last put or deletion answers, and fixes what holds from now on.
LEMMA LastStep ==
    ASSUME IInv, NEW c \in Calls, putReason(c) \/ delReason(c)
    PROVE  IInv'
<1>. DEFINE q == call[c]
            n == Ended(q, "ok")
<1>1. /\ q \in Call /\ Sound(q, active, expires, held) /\ IsSwitching(q)
      /\ TypeOK /\ HeldIsTrue
  BY DEF IInv, TypeOK, putReason, delReason, At, Sound, Placed, IsSwitching,
     InFlight, Switches, Puts, Dels
<1>2. call' = [call EXCEPT ![c] = n] /\ UNCHANGED <<active, expires>>
  BY DEF putReason, delReason, Finish, Ended
<1>3. n \in Call /\ n.pc = "done" /\ n.out = "ok"
  BY <1>1, EndedTyped
<1>4. \/ held' = held
      \/ /\ q.alone /\ q.pc = "put_reason"
         /\ held' = [says |-> "on", left |-> q.left]
      \/ q.alone /\ q.pc = "del_reason" /\ held' = Over
  BY DEF putReason, delReason, At
<1>5. HeldIsTrue' /\ held' \in Promise
  <2>1. q.left \in Nat
    BY <1>1 DEF Call
  <2>2. held \in Promise
    BY <1>1 DEF TypeOK
  <2>. QED
    BY <1>1, <1>2, <1>4, <2>1, <2>2
       DEF HeldIsTrue, Sound, Relies, Over, Promise
<1>6. Sound(n, active', expires', held')
  BY <1>1, <1>3, EndedSound DEF Kept
<1>7. ~IsSwitching(n)
  BY <1>3 DEF IsSwitching, InFlight
<1>8. active' \in Nat /\ expires' \in [key : Nat, left : Nat]
  BY <1>1, <1>2 DEF TypeOK
<1>. HIDE DEF n
<1>. QED
  BY <1>1, <1>2, <1>3, <1>4, <1>5, <1>6, <1>7, <1>8, OneCall
-----------------------------------------------------------------------------
(* Time *)

LEMMA LessFacts ==
    ASSUME NEW m \in Nat, NEW n \in Nat
    PROVE  /\ Less(n) \in Nat /\ Less(n) <= n
           /\ n = 0 => Less(n) = 0
           /\ m >= n => Less(m) >= Less(n)
           /\ Less(n) > 0 => n > 0
  BY DEF Less

\* What is left of every deadline shrinks alike.
LEMMA TickStep ==
    ASSUME IInv, Tick
    PROVE  IInv'
<1>1. /\ active \in Nat /\ expires \in [key : Nat, left : Nat]
      /\ call \in [Calls -> Call] /\ held \in Promise
  BY DEF IInv, TypeOK
<1>2. /\ active' = Less(active)
      /\ expires' = [key |-> Less(expires.key), left |-> Less(expires.left)]
      /\ held' = [held EXCEPT !.left = Less(@)]
  BY DEF Tick
<1>3. /\ active' \in Nat /\ expires' \in [key : Nat, left : Nat]
      /\ held' \in Promise
      /\ held'.says = held.says /\ held'.left = Less(held.left)
      /\ expires'.left = Less(expires.left)
  BY <1>1, <1>2, LessTyped DEF Promise
<1>4. ASSUME NEW c \in Calls
      PROVE  /\ call'[c] \in Call
             /\ Sound(call'[c], active', expires', held')
             /\ IsSwitching(call'[c]) <=> IsSwitching(call[c])
             /\ call'[c].alone = call[c].alone
  <2>. DEFINE q == call[c]
              n == [q EXCEPT !.left = Less(@), !.promise.left = Less(@)]
  <2>1. q \in Call /\ Sound(q, active, expires, held)
    BY <1>1 DEF IInv
  <2>2. CASE Free(c)
    <3>1. call'[c] = q
      BY <1>1, <2>2 DEF Tick
    <3>2. ~InFlight(q)
      BY <2>2 DEF Free, InFlight
    <3>. QED
      BY <2>1, <3>1, <3>2 DEF Sound, Relies, InFlight, IsSwitching
  <2>3. CASE ~Free(c)
    <3>1. call'[c] = n
      BY <1>1, <2>3 DEF Tick
    <3>. HIDE DEF q
    <3>2. q.promise \in Promise /\ q.left \in Nat /\ q.ttl \in Nat
      BY <2>1, CallNumbers
    <3>3. Less(q.left) \in Nat /\ Less(q.promise.left) \in Nat
      BY <3>2, LessTyped DEF Promise
    <3>4. /\ n \in Call /\ n.pc = q.pc /\ n.op = q.op /\ n.alone = q.alone
          /\ n.flag = q.flag /\ n.out = q.out /\ n.ttl = q.ttl
          /\ n.left = Less(q.left)
          /\ n.promise = [q.promise EXCEPT !.left = Less(q.promise.left)]
      BY <2>1, <3>2, <3>3 DEF Call, Promise
    <3>5. n.promise.says = q.promise.says /\ n.promise.left = Less(q.promise.left)
      BY <3>2, <3>4 DEF Promise
    <3>. HIDE DEF n
    <3>6. Placed(n)
      BY <2>1, <3>2, <3>4, LessFacts DEF Sound, Placed
    <3>7. q.promise = held => n.promise = held'
      BY <1>2, <3>4
    <3>8. /\ active >= q.left => active' >= n.left
          /\ expires.left = q.left => expires'.left = n.left
          /\ active = 0 => active' = 0
      BY <1>1, <1>2, <1>3, <3>2, <3>4, LessFacts
    <3>9. n.promise.left > 0 => q.promise.left > 0
      BY <3>2, <3>5, LessFacts DEF Promise
    <3>10. Relies(n, active', expires', held')
      BY <2>1, <3>4, <3>5, <3>7, <3>8, <3>9 DEF Sound, Relies, InFlight
    <3>11. q.out = "none"
      BY <2>1, <2>3 DEF Sound, Placed, Free, q
    <3>12. Kept(n)
      BY <3>4, <3>11 DEF Kept
    <3>. QED
      BY <3>1, <3>4, <3>6, <3>10, <3>12 DEF Sound, IsSwitching, InFlight, q
  <2>. QED
    BY <2>2, <2>3
<1>5. call' \in [Calls -> Call]
  <2>1. call' = [c \in Calls |-> call'[c]]
    BY DEF Tick
  <2>. QED
    BY <1>4, <2>1
<1>6. TypeOK'
  BY <1>3, <1>5 DEF TypeOK
<1>7. AloneIsAlone' /\ HeldIsQuiet'
  BY <1>3, <1>4 DEF IInv, AloneIsAlone, HeldIsQuiet
<1>8. HeldIsTrue'
  <2>1. held.left \in Nat /\ expires.left \in Nat
    BY <1>1 DEF Promise
  <2>. QED
    BY <1>1, <1>2, <1>3, <2>1, LessFacts DEF IInv, HeldIsTrue
<1>. QED
  BY <1>4, <1>6, <1>7, <1>8 DEF IInv
-----------------------------------------------------------------------------
(* The theorems *)

LEMMA NextInv == IInv /\ [Next]_vars => IInv'
<1>. SUFFICES ASSUME IInv, [Next]_vars PROVE IInv'
  OBVIOUS
<1>1. CASE UNCHANGED vars
  BY <1>1 DEF vars, IInv, TypeOK, AloneIsAlone, HeldIsQuiet, HeldIsTrue
<1>2. CASE Tick
  BY <1>2, TickStep
<1>3. ASSUME NEW c \in Calls,
             panicOff(c) \/ \E ttl \in Ttls : panicOn(c, ttl)
      PROVE  IInv'
  BY <1>3, SwitchStep
<1>4. ASSUME NEW c \in Calls, Step(c)
      PROVE  IInv'
  BY <1>4, WriteStep, LastStep, ReadActiveStep, DecideStep DEF Step
<1>5. ASSUME NEW c \in Calls, arrive(c) \/ fail(c)
      PROVE  IInv'
  BY <1>5, ArriveStep, FailStep
<1>. QED
  BY <1>1, <1>2, <1>3, <1>4, <1>5 DEF Next

\* The strengthened invariant holds in every reachable state.
THEOREM Invariance == Spec => []IInv
  BY InitInv, NextInv, PTL DEF Spec

\* The keys and the calls keep their types for any times to live.
THEOREM TypeCorrect == Spec => []TypeOK
<1>1. IInv => TypeOK
  BY DEF IInv
<1>. QED
  BY <1>1, Invariance, PTL

\* After an undisturbed /panic/on every request is decided under panic until
\* the deadline that was answered.
THEOREM PanicObeyedHolds == Spec => []PanicObeyed
<1>1. IInv => PanicObeyed
  BY DEF IInv, Sound, Kept, PanicObeyed
<1>. QED
  BY <1>1, Invariance, PTL

\* After an undisturbed /panic/off no request is decided under panic.
THEOREM PanicLiftedHolds == Spec => []PanicLifted
<1>1. IInv => PanicLifted
  BY DEF IInv, Sound, Kept, PanicLifted
<1>. QED
  BY <1>1, Invariance, PTL
=============================================================================
