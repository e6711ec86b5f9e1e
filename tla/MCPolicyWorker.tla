--------------------------- MODULE MCPolicyWorker ---------------------------
(* Instances of PolicyWorker for TLC.                                      *)
EXTENDS PolicyWorker, TLC

CONSTANTS ubl, vvz, v1, v2, bad, r1, r2, e1, e2

Signed(p)   == [blake3 |-> p, signed |-> TRUE]

KeysOf(active, next, legacy) ==
    [k \in Keys |-> CASE k = "active" -> active
                      [] k = "next"   -> next
                      [] k = "legacy" -> legacy]

\* ubl is still served from the legacy keys; vvz has an active and a next.
MCPacks == {(ubl :> KeysOf(NoPack, Signed(v2), Signed(v1)))
            @@ (vvz :> KeysOf(Signed(v1), Signed(v2), NoPack))}
MCYamls == {(ubl :> KeysOf(NoDoc, v2, v1))
            @@ (vvz :> KeysOf(v1, v2, NoDoc))}

NextOfVvz == {<<vvz, "next">>}
StagesOfVvz == {vvz} \X Stages

Slots == Permutations(Requests)
=============================================================================
