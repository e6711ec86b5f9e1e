------------------------------- MODULE Ticket -------------------------------
(***************************************************************************)
(* What one-time codes promise: whoever asks after a code was spent gets   *)
(* nothing for it.  Those who asked before may all be served; the promise  *)
(* is at most once up to overlap, which is what a store without            *)
(* transactions can give.                                                  *)
(***************************************************************************)
CONSTANTS Codes, Askers

VARIABLES spent,   \* the codes that were used, or expired
          answer   \* what each asker's last request is for and stands at

vars == <<spent, answer>>

Stand(c, is) == [code |-> c, is |-> is]
Nobody       == [is |-> "none"]

Init == spent = {} /\ answer = [a \in Askers |-> Nobody]

Holds(a) == answer[a].is = "holds"

Ask(a, c) == /\ ~Holds(a)
             /\ \E is \in {"holds", "no"} :
                  /\ is = "holds" => c \notin spent
                  /\ answer' = [answer EXCEPT ![a] = Stand(c, is)]
             /\ UNCHANGED spent

Redeem(a) == /\ Holds(a)
             /\ answer' = [answer EXCEPT ![a].is = "yes"]
             /\ spent' = spent \cup {answer[a].code}

Refuse(a) == /\ Holds(a)
             /\ answer' = [answer EXCEPT ![a].is = "no"]
             /\ spent' \in {spent, spent \cup {answer[a].code}}

Expire(c) == spent' = spent \cup {c} /\ UNCHANGED answer

Next == \/ \E c \in Codes : Expire(c) \/ \E a \in Askers : Ask(a, c)
        \/ \E a \in Askers : Redeem(a) \/ Refuse(a)

Spec == Init /\ [][Next]_vars
=============================================================================
