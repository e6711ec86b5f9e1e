----------------------------- MODULE MCIdentity -----------------------------
(* Instances of Identity for TLC.                                          *)
EXTENDS Identity, TLC

CONSTANTS r1, r2

\* The options carry the challenge they are made with, as the code would have it,
\* or one that is not stored, as deployed.
Stored      == [c \in Challenges |-> c]
NeverStored == [c \in Challenges |-> Stranger]

Alike == Permutations({r1, r2})
=============================================================================
