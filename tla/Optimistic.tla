----------------------------- MODULE Optimistic -----------------------------
(***************************************************************************)
(* Optimistic updates of a list (hooks/useOptimistic.ts): each update is a *)
(* copy of the whole list with one change, made on what was shown at the   *)
(* time.  The last pending copy is shown; confirming one makes its copy    *)
(* the confirmed list; a revert, or 30 s without an answer, drops it.      *)
(***************************************************************************)
EXTENDS Naturals, Sequences, FiniteSets, SequencesExt

CONSTANTS Items, Ops     \* bound: updates made

VARIABLES confirmed,     \* confirmedData: the items of the list
          pendingUpdates,\* the copies, in the order they were applied
          op,            \* the mutation behind each update
          stored,        \* server: the list
          overlap        \* one was settled while not alone, or given up too early

vars == <<confirmed, pendingUpdates, op, stored, overlap>>

Update == [id : Ops, optimisticData : SUBSET Items]
Op     == [pc : {"unused", "calling", "stored", "settled"}, add : BOOLEAN, item : Items]

Init == /\ confirmed \in SUBSET Items /\ stored = confirmed
        /\ pendingUpdates = << >>
        /\ \E i \in Items : op = [o \in Ops |-> [pc |-> "unused", add |-> TRUE, item |-> i]]
        /\ overlap = FALSE
-----------------------------------------------------------------------------
Change(list, o) == IF o.add THEN list \cup {o.item} ELSE list \ {o.item}

\* Mutant: the oldest copy is shown.
data_First == IF pendingUpdates = << >> THEN confirmed ELSE Head(pendingUpdates).optimisticData
data == IF pendingUpdates = << >> THEN confirmed ELSE Last(pendingUpdates).optimisticData

\* mutate: the copy is shown and the call made.  addItem, removeItem, updateItem
\* (as an item taken out or put in).
applyOptimistic(o, add, i) ==
    /\ op[o].pc = "unused"
    /\ op' = [op EXCEPT ![o] = [pc |-> "calling", add |-> add, item |-> i]]
    /\ pendingUpdates' = Append(pendingUpdates,
         [id |-> o, optimisticData |-> Change(data, op'[o])])
    /\ UNCHANGED <<confirmed, stored, overlap>>

\* External: the server carries the call out.
store(o) == /\ op[o].pc = "calling" /\ op' = [op EXCEPT ![o].pc = "stored"]
            /\ stored' = Change(stored, op[o])
            /\ UNCHANGED <<confirmed, pendingUpdates, overlap>>

Pending(o)  == {i \in DOMAIN pendingUpdates : pendingUpdates[i].id = o}
\* An update has one copy at most.
Without(o)  == IF Pending(o) = {} THEN pendingUpdates
               ELSE RemoveAt(pendingUpdates, CHOOSE i \in Pending(o) : TRUE)
Settle(o)   == op' = [op EXCEPT ![o].pc = "settled"]
Alone(o)    == \A p \in Ops \ {o} : op[p].pc \in {"unused", "settled"}

\* Nothing is done for an update that timed out before.
confirmUpdate(o) ==
    /\ op[o].pc = "stored" /\ Settle(o)
    /\ \/ \E i \in Pending(o) : confirmed' = pendingUpdates[i].optimisticData
       \/ Pending(o) = {} /\ UNCHANGED confirmed
    /\ pendingUpdates' = Without(o)
    /\ overlap' = (overlap \/ ~Alone(o))
    /\ UNCHANGED stored

\* The call failed; its answer may be what was lost.
revertUpdate(o) ==
    /\ op[o].pc \in {"calling", "stored"} /\ Settle(o)
    /\ pendingUpdates' = Without(o)
    /\ overlap' = (overlap \/ op[o].pc = "stored" \/ ~Alone(o))
    /\ UNCHANGED <<confirmed, stored>>

timeout(o) == /\ Pending(o) # {} /\ pendingUpdates' = Without(o) /\ overlap' = TRUE
              /\ UNCHANGED <<confirmed, op, stored>>

Next == \E o \in Ops : \/ \E i \in Items, add \in BOOLEAN : applyOptimistic(o, add, i)
                       \/ store(o) \/ confirmUpdate(o) \/ revertUpdate(o) \/ timeout(o)

Spec == Init /\ [][Next]_vars
-----------------------------------------------------------------------------
(* Properties                                                              *)

TypeOK == /\ confirmed \subseteq Items /\ stored \subseteq Items /\ op \in [Ops -> Op]
          /\ pendingUpdates \in Seq(Update) /\ overlap \in BOOLEAN

\* Every update on its way is part of what is shown, as the last word on its
\* item, also when several are under way; and once all are settled, each on its
\* own and none given up though carried out, the page shows the server's list.
ShowsWhatIsAsked ==
    /\ ~overlap => \A o \in Ops : Pending(o) # {} =>
         \/ op[o].item \in data <=> op[o].add
         \/ \E p \in Ops \ {o} : Pending(p) # {} /\ op[p].item = op[o].item
    /\ ~overlap /\ (\A o \in Ops : op[o].pc \in {"unused", "settled"}) => data = stored
=============================================================================
