----------------------------- MODULE MCTableReach -----------------------------
(***************************************************************************)
(* Two questions that need a long clock: the sticky table alone, a turn a  *)
(* step, with a task of every kind; and the hook with the asks that reach  *)
(* Claude, each by another check.  Each behaviour asks one of them.        *)
(***************************************************************************)
EXTENDS MCPreCallHook

CONSTANT complex

VARIABLE part

EachKind == {plain, tagged, local, complex}
EachKindOf == [t \in EachKind |->
    CASE t = plain -> "plain"
      [] t = tagged -> "claude-opus-4-8"
      [] t = local -> "local"
      [] t = complex -> "complex"]

\* MaxTime is what the hook needs.
TableTime == 4

AllVars == <<hookVars, part>>

TableReachInit ==
    /\ part \in {"table", "hook"}
    /\ HookInit
    /\ part = "table" => setting = "auto" /\ network

TableReachNext ==
    \/ /\ part = "table" /\ Next /\ now' <= TableTime
       /\ UNCHANGED <<world, cache, keyCache, proxyKey, req, loop, part>>
    \/ part = "hook" /\ HookNext /\ UNCHANGED part

TableReachSpec == TableReachInit /\ [][TableReachNext]_AllVars
=============================================================================
