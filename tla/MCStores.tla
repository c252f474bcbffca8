------------------------------- MODULE MCStores -------------------------------
(***************************************************************************)
(* The files and tables that several threads or processes share.  They are *)
(* independent of each other, and each behaviour moves one of them: which, *)
(* is chosen at the start, so their state spaces add up.                   *)
(***************************************************************************)
EXTENDS ActiveRegistry, Ledger, GortexMonitor, BackendSwitch, TLC

CONSTANTS c1, c2, c3, loop, named1, named2, nameless

VARIABLE part

ThreeCalls == {c1, c2, c3}
OneWriter == {loop}

\* Two turns of one task, and one of no task for which LiteLLM gives no id.
MCTurns == {named1, named2, nameless}
MCTaskOf == [t \in Turns |-> IF t = nameless THEN None ELSE "task"]
MCWindows == <<0, 1, 9>>

Symmetric == Permutations({named1, named2})

Parts == {"registry", "ledger", "gortex", "switch", "status"}

\* MaxTime is what the gortex cache needs; the clocks of the others stop earlier.
LedgerTime == 2
SwitchTime == 2

AllVars == <<vars, ledgerVars, gortexVars, switchVars, part>>

StoresInit ==
    /\ part \in Parts
    /\ Init /\ LedgerInit /\ SwitchInit
    /\ GortexInit /\ (part # "gortex" => daemon = None)

StoresNext ==
    \/ part = "registry" /\ Next
          /\ UNCHANGED <<ledgerVars, gortexVars, switchVars, part>>
    \/ part = "ledger" /\ LedgerNext /\ seconds' <= LedgerTime
          /\ UNCHANGED <<vars, gortexVars, switchVars, part>>
    \/ part = "gortex" /\ GortexNext
          /\ UNCHANGED <<vars, ledgerVars, switchVars, part>>
    \/ part = "switch" /\ (ManagerNext \/ SwitchTick) /\ tock' <= SwitchTime
          /\ UNCHANGED <<vars, ledgerVars, gortexVars, part>>
    \/ part = "status" /\ (ApiNext \/ SwitchTick) /\ tock' <= SwitchTime
          /\ UNCHANGED <<vars, ledgerVars, gortexVars, part>>

StoresSpec == StoresInit /\ [][StoresNext]_AllVars

\* The files, tables and rows have the form that the code gives them, those that an
\* interrupted call leaves too: no row without its transaction, and no write lock that
\* nobody holds, nor a transaction whose lock is lost, after a commit that failed.
StoresTypeOK == TypeOK /\ LedgerTypeOK
=============================================================================
