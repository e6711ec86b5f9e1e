------------------------------ MODULE Identity ------------------------------
(***************************************************************************)
(* Who may speak for whom: the auth worker's passkeys and device flow, the *)
(* device flow of the ID kit, and the edge's copy of the keys, side by     *)
(* side.  They share no row, so each behaviour exercises one of them, its  *)
(* scene; the others rest in an initial state.                             *)
(***************************************************************************)
EXTENDS Naturals, FiniteSets

CONSTANTS Challenges, Stranger, Offered, Counting, Requests,  \* of Passkeys
          UserIds, SessionIds, None,
          Codes, Subjects, DSessions, Approvals,              \* of DeviceFlow
          KitCalls,                                           \* of IdKit
          Keys, Fetches, TTL, MaxAge, Patience                \* of JwksCache

VARIABLES scene,
          challenge, signed, device, users, passkey, session, finish,
          code, opened, approval, told, raced,
          record, lookup, call, given,
          served, steady, fetched, default, jcall

pvars == <<challenge, signed, device, users, passkey, session, finish>>
dvars == <<code, opened, approval, told, raced>>
kvars == <<record, lookup, call, given>>
jvars == <<served, steady, fetched, default, jcall>>

P == INSTANCE Passkeys
D == INSTANCE DeviceFlow WITH Users <- UserIds
K == INSTANCE IdKit WITH Calls <- KitCalls
J == INSTANCE JwksCache WITH Calls <- Fetches, Failed <- None, call <- jcall

ASSUME IdentityAssumption ==
    P!PasskeyAssumption /\ D!DeviceAssumption /\ Codes # {} /\ J!JwksAssumption

Init == /\ scene \in {"passkeys", "device", "kit", "jwks"}
        /\ P!Init /\ D!Init /\ K!Init
        /\ J!Init /\ (scene # "jwks" => served = CHOOSE k \in Keys : TRUE)

Next == /\ UNCHANGED scene
        /\ \/ scene = "passkeys" /\ P!Next /\ UNCHANGED <<dvars, kvars, jvars>>
           \/ scene = "device"   /\ D!Next /\ UNCHANGED <<pvars, kvars, jvars>>
           \/ scene = "kit"      /\ K!Next /\ UNCHANGED <<pvars, dvars, jvars>>
           \/ scene = "jwks"     /\ J!Next /\ UNCHANGED <<pvars, dvars, kvars>>

vars == <<scene, pvars, dvars, kvars, jvars>>

Spec == Init /\ [][Next]_vars

\* Every part keeps its types.
TypesOK == CASE scene = "passkeys" -> P!TypeOK [] scene = "device" -> D!TypeOK
             [] scene = "kit" -> K!TypeOK [] scene = "jwks" -> J!TypeOK

\* The properties of the parts, under their names there: each session is its
\* owner's, and a challenge is a one-time code.
SessionsAreOwned  == P!SessionsAreOwned
ChallengeIsTicket == P!ChallengeIsTicket
\* What a passkey client may expect, were the challenge it is offered the stored one.
HonestFinishFindsChallenge == P!HonestFinishFindsChallenge
\* A device keeps the session it was given, and a poll after the tokens of the
\* kit were given gets none.
DevicesPairOnce   == D!DeviceKeepsSession /\ K!LatePollRefused
\* The edge verifies with keys served not long before.
RotationReaches == J!RotationReaches
=============================================================================
