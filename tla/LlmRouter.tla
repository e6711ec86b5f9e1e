----------------------------- MODULE LlmRouter -----------------------------
(***************************************************************************)
(* The office's LLM router (workers/office-llm/src/index.ts): a prompt     *)
(* goes to the first provider of its policy that may be used; deployments  *)
(* and secrets change between requests, and an upstream may fail.          *)
(***************************************************************************)
EXTENDS Naturals, Sequences

CONSTANTS Models,   \* models a request may name
          None

VARIABLES env,      \* [premium, openai, anthropic]: ALLOW_PREMIUM_DEFAULT, the keys
          prompt    \* the last prompt: its mode and the env it met, the upstream
                    \* request made of it, and the status it was answered

vars == <<env, prompt>>

Modes   == {"default", "adult"}
Lab     == {"lab_default", "lab_adult"}
Premium == {"openai", "anthropic"}
Envs    == [premium : BOOLEAN, openai : BOOLEAN, anthropic : BOOLEAN]

\* DEFAULT_POLICY_YAML_TEMPLATE: who is preferred, and each one's own model.
prefer(mode) == IF mode = "adult" THEN <<"lab_adult", "lab_default">>
                                  ELSE <<"openai", "anthropic", "lab_default">>
ownModel(p)  == CASE p = "openai" -> "gpt-4o-mini"
                  [] p = "anthropic" -> "claude-3-5-sonnet-latest"
                  [] OTHER -> "llama3:8b-instruct"
Sent == [to : Lab \cup Premium,
         model : Models \cup {ownModel(p) : p \in Lab \cup Premium}]

LlmAssumption == None \notin Sent

Init == env \in Envs /\ prompt = None
-----------------------------------------------------------------------------
\* Mutant: a provider without its key is not skipped.
mayUse_NoKey(p, mode) == IF mode = "adult" THEN p \in Lab
                         ELSE p \in Premium => env.premium
mayUse(p, mode) ==
    IF mode = "adult" THEN p \in Lab
    ELSE p \in Premium => env.premium /\ env[p]

\* The first of those preferred that may be used; none when there is none.
usable(mode)       == {i \in DOMAIN prefer(mode) : mayUse(prefer(mode)[i], mode)}
pickProvider(mode) == {prefer(mode)[i] : i \in {i \in usable(mode) : \A j \in usable(mode) : i <= j}}

\* The request of the provider; a model the prompt names goes to whichever
\* provider is picked, a lab too.  Without the key it is not built.
upstreamReq(p, model) ==
    IF p \in Premium /\ ~env[p] THEN None
    ELSE [to |-> p, model |-> IF model = None THEN ownModel(p) ELSE model]

\* The answers a prompt may get: 503 without a provider, 400 when its request
\* is not built, 502 when the upstream fails (no other is tried).
outcomes(picked, model) ==
    IF picked = {} THEN {<<None, 503>>}
    ELSE UNION {IF upstreamReq(p, model) = None THEN {<<None, 400>>}
                ELSE {upstreamReq(p, model)} \X {200, 502} : p \in picked}

handleGenerate(mode, model) ==
    /\ \E o \in outcomes(pickProvider(mode), model) :
         prompt' = [mode |-> mode, met |-> env, sent |-> o[1], status |-> o[2]]
    /\ UNCHANGED env

Deploy(e) == env' = e /\ UNCHANGED prompt

Next == \/ \E mode \in Modes, model \in Models \cup {None} : handleGenerate(mode, model)
        \/ \E e \in Envs : Deploy(e)

Spec == Init /\ [][Next]_vars
-----------------------------------------------------------------------------
(* Properties                                                              *)

TypeOK == /\ env \in Envs
          /\ prompt # None => prompt.mode \in Modes /\ prompt.status \in {200, 400, 502, 503}

\* A prompt always finds a provider whose request can be built, whatever keys
\* are set: an adult one in the lab, and any other with a premium provider
\* exactly when one is allowed and has its key.
EveryPromptRouted ==
    prompt # None =>
        LET premium == prompt.met.premium /\ (prompt.met.openai \/ prompt.met.anthropic)
        IN  /\ prompt.sent # None
            /\ prompt.sent.to \in Premium <=> prompt.mode = "default" /\ premium
=============================================================================
