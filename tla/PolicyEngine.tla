---------------------------- MODULE PolicyEngine ----------------------------
(***************************************************************************)
(* The policy engine (crates/policy-engine/src/lib.rs): what a chip, read  *)
(* from YAML, decides of a context.  A chip is a wiring of bits and the    *)
(* outputs its wires trigger, tried in order; the three policies of the    *)
(* repository are values of it.  The chain that explains a decision is     *)
(* left out.                                                               *)
(***************************************************************************)
EXTENDS Naturals, Sequences

Contexts == [tls13 : BOOLEAN, device : BOOLEAN, passkey : BOOLEAN, admins : BOOLEAN,
             panic_mode : BOOLEAN, admin_path : BOOLEAN,
             rate : {"absent", "ok", "exceeded"}, webhook : {"absent", "verified", "not"},
             legacy_jwt : {"absent", "valid", "expired", "invalid"}]

\* A bit that has no case here is false: so is the name of a wire.
bit_eval(id, ctx) ==
    \/ id = "P_Transport_Secure" /\ ctx.tls13
    \/ id = "P_Device_Identity"  /\ ctx.device
    \/ id = "P_User_Passkey"     /\ ctx.passkey
    \/ id = "P_Role_Admin"       /\ ctx.admins
    \/ id = "P_Circuit_Breaker"  /\ ctx.panic_mode
    \/ id = "P_Is_Admin_Path"    /\ ctx.admin_path
    \/ id = "P_Rate_Bucket_OK"   /\ ctx.rate # "exceeded"
    \/ id = "P_Webhook_Verified" /\ ctx.webhook = "verified"
    \/ id = "P_Legacy_JWT"       /\ ctx.legacy_jwt = "valid"

sequence(ids)        == [kind |-> "sequence", ids |-> ids]
parallel(ids, aggregator) == [kind |-> aggregator, ids |-> ids]

\* A sequence follows wires, a parallel reads bits only, and a name that is no
\* wire is false at the top of a trigger, also when it is a bit.
eval_wire(chip, trigger, ctx) ==
    LET wires == DOMAIN chip.wiring
        Ids(w) == {chip.wiring[w].ids[i] : i \in DOMAIN chip.wiring[w].ids}
        eval[w \in wires] ==
            CASE chip.wiring[w].kind = "sequence" ->
                   \A x \in Ids(w) : IF x \in wires THEN eval[x] ELSE bit_eval(x, ctx)
              [] chip.wiring[w].kind = "ANY" -> \E x \in Ids(w) : bit_eval(x, ctx)
              [] chip.wiring[w].kind = "ALL" -> \A x \in Ids(w) : bit_eval(x, ctx)
    IN  trigger \in wires /\ eval[trigger]

On(name, trigger)    == [name |-> name, trigger |-> trigger, negated |-> FALSE]
OnNot(name, trigger) == [name |-> name, trigger |-> trigger, negated |-> TRUE]

fires(chip, out, ctx) == eval_wire(chip, out.trigger, ctx) # out.negated

\* The first output that fires.
decide(chip, ctx) ==
    LET fired == {i \in DOMAIN chip.outputs : fires(chip, chip.outputs[i], ctx)}
    IN  IF fired = {} THEN "deny_invalid_access"
        ELSE chip.outputs[CHOOSE i \in fired : \A j \in fired : i <= j].name

Denies == {"deny_invalid_access", "deny_rate_limit"}
-----------------------------------------------------------------------------
(* The policies                                                            *)

Zero      == <<"P_Transport_Secure", "P_Device_Identity", "P_User_Passkey">>
ZeroRate  == Append(Zero, "P_Rate_Bucket_OK")
Override  == parallel(<<"W_ZeroTrust_Standard", "P_Circuit_Breaker">>, "ANY")
AdminRole == sequence(<<"W_ZeroTrust_Standard", "P_Is_Admin_Path", "P_Role_Admin">>)
Invalid   == OnNot("deny_invalid_access", "W_ZeroTrust_Standard")

ubl_core_v1 ==
    [wiring |-> [W_ZeroTrust_Standard  |-> sequence(Zero),
                 W_Admin_Access        |-> sequence(<<"W_ZeroTrust_Standard", "P_Role_Admin">>),
                 W_Emergency_Override  |-> Override,
                 W_Admin_Path_And_Role |-> AdminRole],
     outputs |-> <<On("allow_admin_write", "W_Admin_Path_And_Role"),
                   On("allow_standard_access", "W_ZeroTrust_Standard"), Invalid>>]

ubl_core_v3 ==
    [wiring |-> [W_ZeroTrust_Standard  |-> sequence(ZeroRate),
                 W_Admin_Path_And_Role |-> AdminRole,
                 W_Webhook_Trusted     |-> sequence(<<"P_Webhook_Verified">>),
                 W_Public_Warmup       |-> sequence(<< >>),
                 W_Emergency_Override  |-> Override],
     outputs |-> <<OnNot("deny_rate_limit", "P_Rate_Bucket_OK"),
                   On("allow_admin_write", "W_Admin_Path_And_Role"),
                   On("allow_webhook", "W_Webhook_Trusted"),
                   On("allow_standard_access", "W_ZeroTrust_Standard"),
                   On("allow_public_warmup", "W_Public_Warmup"), Invalid>>]

vvz_core_v1 ==
    [wiring |-> [W_ZeroTrust_Standard |-> sequence(ZeroRate),
                 W_App_ZeroTrust      |-> sequence(<<"W_ZeroTrust_Standard", "P_Is_App_Origin">>),
                 W_MCP_Access         |-> sequence(<<"W_ZeroTrust_Standard", "P_Is_MCP">>),
                 W_Admin_Access       |-> sequence(<<"W_ZeroTrust_Standard", "P_Is_Admin_Path">>),
                 W_Public_Warmup      |-> sequence(<< >>),
                 W_Emergency_Override |-> Override],
     outputs |-> <<OnNot("deny_rate_limit", "P_Rate_Bucket_OK"),
                   On("allow_mcp", "W_MCP_Access"), On("allow_app_access", "W_App_ZeroTrust"),
                   On("allow_admin_access", "W_Admin_Access"),
                   On("allow_standard_access", "W_ZeroTrust_Standard"),
                   On("allow_public_warmup", "W_Public_Warmup"), Invalid>>]
=============================================================================
