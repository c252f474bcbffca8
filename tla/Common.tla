------------------------------- MODULE Common -------------------------------
(***************************************************************************)
(* What every module of the router shares: the absent value, the bound on  *)
(* the model clock, and the vocabulary of model aliases                    *)
(* (config/litellm-config.yaml) with the predicates the code sorts them by.*)
(***************************************************************************)
EXTENDS Integers

CONSTANTS
    None,     \* Python's None
    MaxTime   \* bound: the clock stops here

ASSUME MaxTimeAssumption == MaxTime \in Nat

\* Targets of the [haiku] / [sonnet] / [opus] / [fable] task tags.
OverrideAliases ==
    {"claude-haiku-4-5", "claude-sonnet-5", "claude-opus-4-8", "claude-fable-5"}

ClaudeAliases == {"claude-code"} \cup OverrideAliases

TurboModels == {"local-turbo-256k", "local-turbo-512k"}

NonToolNative == {"local-coder-14b", "local-coder-32b"}

LocalAliases == {"local-long", "local-agent"} \cup NonToolNative

\* _model_to_tier(): every Claude alias is the "claude" tier, all else local.
TierOf(model) == IF model \in ClaudeAliases THEN "claude" ELSE "local-long"

\* DEFAULT_OFFLINE_FALLBACK
Fallback == "local-long"
=============================================================================
