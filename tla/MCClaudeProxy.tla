---------------------------- MODULE MCClaudeProxy ----------------------------
\* ClaudeProxy on small instances.
EXTENDS ClaudeProxy, TLC

Post(endpoint, large, stream, auth) ==
    [endpoint |-> endpoint, large |-> large, stream |-> stream, auth |-> auth, json |-> TRUE]

MCAsks == {Post("subscription", FALSE, TRUE, FALSE), Post("apikey", FALSE, FALSE, FALSE), Post("health", FALSE, FALSE, FALSE),
           Post("messages", TRUE, TRUE, TRUE), Post("messages", FALSE, FALSE, FALSE),
           [Post("subscription", FALSE, FALSE, FALSE) EXCEPT !.json = FALSE]}

\* The defaults with a key in the environment, and both modes on a key that
\* the environment lacks.
MCConfigs == {[largeCtx |-> "passthrough", authMode |-> "subscription", envKey |-> TRUE],
              [largeCtx |-> "apikey", authMode |-> "apikey", envKey |-> FALSE]}

Symmetric == Permutations(Tokens) \cup Permutations(Requests)
============================================================================
