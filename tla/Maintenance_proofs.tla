-------------------------- MODULE Maintenance_proofs ---------------------------
(***************************************************************************)
(* Proofs about what runs beside the proxy: the ledger's migration, the    *)
(* installation of a key, the downloads of a model and the workspace file, *)
(* for any number of connections, columns, keys, layers, tags, runs and    *)
(* writers; the price table and its check; the grading of a bug hunt, for  *)
(* answers and reports of any number; the loop of an agent that is told    *)
(* what its code failed, for any answers and turns; and the report of a    *)
(* benchmark's arm, for any replies, bills and pulls.                      *)
(***************************************************************************)
EXTENDS MCMaintenance, SequenceTheorems, FiniteSetTheorems, WellFoundedInduction, TLAPS

----------------------------------------------------------------------------
(* SchemaMigration *)

ConnShape ==
    [at : {"pragma", "alter", "script", "index", "open", "raised", "killed"},
     read : SUBSET Columns, next : 1..(Len(Added) + 1)]

\* A connection that migrates an older table has seen to the first columns; one that
\* runs the script has them all, or finds no table and makes a whole one.
ConnOK(c) ==
    /\ c.at = "pragma" => c.next = 1
    /\ c.at = "alter" => /\ table.exists /\ c.read \subseteq table.cols
                         /\ \A i \in 1..(c.next - 1) : Added[i] \in table.cols
    /\ c.at = "script" => ~table.exists \/ table = FullTable
    /\ c.at = "index" => table = FullTable
    /\ c.at = "open" => table = FullTable /\ extras

MigrationIInv ==
    /\ table \in [exists : BOOLEAN, cols : SUBSET Columns]
    /\ conn \in [Conns -> ConnShape]
    /\ \A c \in Conns : ConnOK(conn[c])

LEMMA MigrationConstants ==
  /\ Added \in Seq(STRING) /\ Len(Added) \in Nat \ {0} /\ DOMAIN Added = 1..Len(Added)
  /\ Columns = {Added[i] : i \in 1..Len(Added)} /\ FullTable = [exists |-> TRUE, cols |-> Columns]
  /\ FullTable \in [exists : BOOLEAN, cols : SUBSET Columns] /\ FullTable.exists /\ FullTable.cols = Columns
<1>1. Added \in Seq(STRING) /\ Added # <<>>
  BY MigrationAssumption
<1>2. Len(Added) \in Nat \ {0} /\ DOMAIN Added = 1..Len(Added)
  BY <1>1
<1>3. QED
  BY <1>1, <1>2 DEF Columns, FullTable

LEMMA NewConn == New \in ConnShape /\ New.at = "pragma" /\ New.next = 1 /\ ConnOK(New)
<1>1. 1 \in 1..(Len(Added) + 1)
  BY MigrationConstants
<1>2. QED
  BY <1>1 DEF New, ConnShape, ConnOK

LEMMA InitMigrationIInv == MigrationInit => MigrationIInv
<1> SUFFICES ASSUME MigrationInit PROVE MigrationIInv
  OBVIOUS
<1>1. table \in [exists : BOOLEAN, cols : SUBSET Columns]
  <2>1. CASE table = [exists |-> FALSE, cols |-> {}]
    BY <2>1
  <2>2. ASSUME NEW n \in 0..Len(Added), table = [exists |-> TRUE, cols |-> {Added[i] : i \in 1..n}]
        PROVE  table \in [exists : BOOLEAN, cols : SUBSET Columns]
    <3>1. {Added[i] : i \in 1..n} \in SUBSET Columns
      BY MigrationConstants
    <3>2. QED
      BY <2>2, <3>1
  <2>3. QED
    BY <2>1, <2>2 DEF MigrationInit
<1>2. conn = [c \in Conns |-> New]
  BY DEF MigrationInit
<1>3. QED
  BY <1>1, <1>2, NewConn DEF MigrationIInv

\* The table only grows, and one connection moves.
LEMMA OneConnMoves ==
  ASSUME MigrationIInv, NEW c \in Conns, NEW q \in ConnShape, conn' = [conn EXCEPT ![c] = q],
         \/ UNCHANGED table
         \/ ~table.exists /\ table' = FullTable
         \/ \E col \in Columns : table.exists /\ table' = [table EXCEPT !.cols = table.cols \cup {col}],
         UNCHANGED extras \/ extras' = TRUE,
         ConnOK(q)'
  PROVE  MigrationIInv'
<1>1. table \in [exists : BOOLEAN, cols : SUBSET Columns] /\ conn \in [Conns -> ConnShape]
  BY DEF MigrationIInv
<1>2. /\ table' \in [exists : BOOLEAN, cols : SUBSET Columns] /\ table.cols \subseteq table'.cols
      /\ table.exists => table'.exists
      /\ table = FullTable => table' = FullTable
      /\ ~table'.exists => ~table.exists
      /\ ~table.exists => ~table'.exists \/ table' = FullTable
  <2>1. CASE UNCHANGED table
    BY <1>1, <2>1
  <2>2. CASE ~table.exists /\ table' = FullTable
    BY <1>1, <2>2, MigrationConstants
  <2>3. ASSUME NEW col \in Columns, table.exists, table' = [table EXCEPT !.cols = table.cols \cup {col}]
        PROVE  /\ table' \in [exists : BOOLEAN, cols : SUBSET Columns] /\ table.cols \subseteq table'.cols
               /\ table'.exists
               /\ table = FullTable => table' = FullTable
    <3>1. table' \in [exists : BOOLEAN, cols : SUBSET Columns] /\ table'.cols = table.cols \cup {col}
          /\ table'.exists = table.exists
      BY <1>1, <2>3
    <3>2. table = FullTable => table'.cols = table.cols
      BY <3>1, MigrationConstants
    <3>3. QED
      BY <1>1, <2>3, <3>1, <3>2
  <2>4. QED
    BY <2>1, <2>2, <2>3
<1>3. conn' \in [Conns -> ConnShape] /\ conn'[c] = q /\ \A d \in Conns \ {c} : conn'[d] = conn[d]
  BY <1>1
<1>4. ASSUME NEW d \in Conns PROVE ConnOK(conn[d])'
  <2>1. CASE d = c
    BY <1>3, <2>1 DEF ConnOK
  <2>2. CASE d # c
    <3>1. conn'[d] = conn[d] /\ ConnOK(conn[d])
      BY <1>3, <2>2 DEF MigrationIInv
    <3>2. QED
      BY <1>2, <3>1 DEF ConnOK
  <2>3. QED
    BY <2>1, <2>2
<1>5. QED
  BY <1>2, <1>3, <1>4 DEF MigrationIInv

LEMMA MovedConn ==
  ASSUME NEW q \in ConnShape, NEW to \in {"pragma", "alter", "script", "index", "open", "raised", "killed"}
  PROVE  [q EXCEPT !.at = to] \in ConnShape /\ [q EXCEPT !.at = to].at = to
  BY DEF ConnShape

\* A connection whose `at` alone changes.
LEMMA ConnGoes ==
  ASSUME conn \in [Conns -> ConnShape], NEW c \in Conns,
         NEW to \in {"pragma", "alter", "script", "index", "open", "raised", "killed"}, Goes(c, to)
  PROVE  \E q \in ConnShape : q = [conn[c] EXCEPT !.at = to] /\ q.at = to /\ conn' = [conn EXCEPT ![c] = q]
<1>1. [conn[c] EXCEPT !.at = to] \in ConnShape /\ [conn[c] EXCEPT !.at = to].at = to
  BY MovedConn
<1>2. conn' = [conn EXCEPT ![c] = [conn[c] EXCEPT !.at = to]]
  BY DEF Goes
<1>3. QED
  BY <1>1, <1>2

LEMMA PragmaKeeps ==
  ASSUME MigrationIInv, NEW c \in Conns, Pragma(c)
  PROVE  MigrationIInv'
<1>1. table \in [exists : BOOLEAN, cols : SUBSET Columns] /\ conn[c] \in ConnShape /\ ConnOK(conn[c])
  BY DEF MigrationIInv
<1>2. PICK to \in {"alter", "script"} : to = IF table.exists THEN "alter" ELSE "script"
  OBVIOUS
<1>3. PICK q \in ConnShape : q = [at |-> to, read |-> table.cols, next |-> conn[c].next]
  BY <1>1 DEF ConnShape
<1>4. conn' = [conn EXCEPT ![c] = q]
  BY <1>1, <1>2, <1>3 DEF Pragma, ConnShape, MigrationIInv
<1>5. ConnOK(q)'
  BY <1>1, <1>2, <1>3 DEF Pragma, ConnOK
<1>6. QED
  BY <1>3, <1>4, <1>5, OneConnMoves DEF Pragma

LEMMA AlterKeeps ==
  ASSUME MigrationIInv, NEW c \in Conns, Alter(c)
  PROVE  MigrationIInv'
<1> DEFINE col == Added[conn[c].next]
<1>1. table \in [exists : BOOLEAN, cols : SUBSET Columns] /\ conn[c] \in ConnShape /\ ConnOK(conn[c])
      /\ conn \in [Conns -> ConnShape]
  BY DEF MigrationIInv
<1>2. table.exists /\ conn[c].read \subseteq table.cols /\ conn[c].next \in 1..Len(Added)
      /\ \A i \in 1..(conn[c].next - 1) : Added[i] \in table.cols
  BY <1>1, MigrationConstants DEF Alter, ConnOK, ConnShape
<1>3. PICK turn \in ConnShape : /\ turn = [conn[c] EXCEPT !.next = conn[c].next + 1]
                                /\ turn.at = "alter" /\ turn.read = conn[c].read
                                /\ turn.next = conn[c].next + 1
  <2>1. conn[c].next + 1 \in 1..(Len(Added) + 1) /\ conn[c].at = "alter"
    BY <1>2, MigrationConstants DEF Alter
  <2>2. [conn[c] EXCEPT !.next = conn[c].next + 1] \in ConnShape
    BY <1>1, <2>1 DEF ConnShape
  <2>3. QED
    BY <1>1, <2>1, <2>2 DEF ConnShape
<1>4. col \in Columns
  BY <1>2, MigrationConstants
<1>5. CASE col \in conn[c].read
  <2>1. conn' = [conn EXCEPT ![c] = turn] /\ UNCHANGED <<table, extras>>
    BY <1>3, <1>5 DEF Alter
  <2>2. ConnOK(turn)'
    BY <1>2, <1>3, <1>5, <2>1 DEF ConnOK
  <2>3. QED
    BY <1>3, <2>1, <2>2, OneConnMoves
<1>6. CASE col \notin conn[c].read /\ col \in table.cols
  <2>1. Goes(c, "raised") /\ UNCHANGED <<table, extras>>
    BY <1>6 DEF Alter
  <2>2. PICK q \in ConnShape : q.at = "raised" /\ conn' = [conn EXCEPT ![c] = q]
    BY <1>1, <2>1, ConnGoes
  <2>3. QED
    BY <2>1, <2>2, OneConnMoves DEF ConnOK
<1>7. CASE col \notin conn[c].read /\ col \notin table.cols
  <2>1. conn' = [conn EXCEPT ![c] = turn] /\ UNCHANGED extras
        /\ table' = [table EXCEPT !.cols = table.cols \cup {col}]
    BY <1>3, <1>7 DEF Alter
  <2>2. table'.exists /\ table'.cols = table.cols \cup {col}
    BY <1>1, <1>2, <2>1
  <2>3. ConnOK(turn)'
    <3>1. \A i \in 1..conn[c].next : Added[i] \in table'.cols
      BY <1>2, <2>2
    <3>2. QED
      BY <1>2, <1>3, <2>2, <3>1 DEF ConnOK
  <2>4. QED
    BY <1>2, <1>3, <1>4, <2>1, <2>3, OneConnMoves
<1>8. QED
  BY <1>5, <1>6, <1>7

\* Past the last column, every column has been seen to.
LEMMA MigratedKeeps ==
  ASSUME MigrationIInv, NEW c \in Conns, Migrated(c)
  PROVE  MigrationIInv'
<1>1. table \in [exists : BOOLEAN, cols : SUBSET Columns] /\ conn[c] \in ConnShape /\ ConnOK(conn[c])
      /\ conn \in [Conns -> ConnShape]
  BY DEF MigrationIInv
<1>2. table = FullTable
  <2>1. table.exists /\ \A i \in 1..Len(Added) : Added[i] \in table.cols
    BY <1>1, MigrationConstants DEF Migrated, ConnOK, ConnShape
  <2>2. table.cols = Columns
    BY <1>1, <2>1, MigrationConstants
  <2>3. QED
    BY <1>1, <2>1, <2>2, MigrationConstants
<1>3. Goes(c, "script") /\ UNCHANGED <<table, extras>>
  BY DEF Migrated
<1>4. PICK q \in ConnShape : q.at = "script" /\ conn' = [conn EXCEPT ![c] = q]
  BY <1>1, <1>3, ConnGoes
<1>5. QED
  BY <1>2, <1>3, <1>4, OneConnMoves DEF ConnOK

LEMMA CreateTableKeeps ==
  ASSUME MigrationIInv, NEW c \in Conns, CreateTable(c)
  PROVE  MigrationIInv'
<1>1. conn[c] \in ConnShape /\ ConnOK(conn[c]) /\ conn \in [Conns -> ConnShape]
  BY DEF MigrationIInv
<1>2. table' = FullTable /\ (UNCHANGED table \/ ~table.exists)
  BY <1>1 DEF CreateTable, ConnOK
<1>3. Goes(c, "index") /\ UNCHANGED extras
  BY DEF CreateTable
<1>4. PICK q \in ConnShape : q.at = "index" /\ conn' = [conn EXCEPT ![c] = q]
  BY <1>1, <1>3, ConnGoes
<1>5. ConnOK(q)'
  BY <1>2, <1>4 DEF ConnOK
<1>6. QED
  BY <1>2, <1>3, <1>4, <1>5, OneConnMoves

LEMMA CreateIndexesKeeps ==
  ASSUME MigrationIInv, NEW c \in Conns, CreateIndexes(c)
  PROVE  MigrationIInv'
<1>1. conn[c] \in ConnShape /\ ConnOK(conn[c]) /\ conn \in [Conns -> ConnShape]
  BY DEF MigrationIInv
<1>2. table = FullTable /\ UNCHANGED table
  BY <1>1 DEF CreateIndexes, ConnOK
<1>3. Added[1] \in table.cols
  BY <1>2, MigrationConstants
<1>4. Goes(c, "open") /\ extras' = TRUE
  BY <1>3 DEF CreateIndexes
<1>5. PICK q \in ConnShape : q.at = "open" /\ conn' = [conn EXCEPT ![c] = q]
  BY <1>1, <1>4, ConnGoes
<1>6. ConnOK(q)'
  BY <1>2, <1>4, <1>5 DEF ConnOK
<1>7. QED
  BY <1>2, <1>4, <1>5, <1>6, OneConnMoves

LEMMA DieKeeps ==
  ASSUME MigrationIInv, NEW c \in Conns, Die(c)
  PROVE  MigrationIInv'
<1>1. conn \in [Conns -> ConnShape] /\ Goes(c, "killed") /\ UNCHANGED <<table, extras>>
  BY DEF MigrationIInv, Die
<1>2. PICK q \in ConnShape : q.at = "killed" /\ conn' = [conn EXCEPT ![c] = q]
  BY <1>1, ConnGoes
<1>3. QED
  BY <1>1, <1>2, OneConnMoves DEF ConnOK

LEMMA RetryKeeps ==
  ASSUME MigrationIInv, NEW c \in Conns, Retry(c)
  PROVE  MigrationIInv'
<1>1. ConnOK(New)'
  BY NewConn DEF ConnOK
<1>2. QED
  BY <1>1, NewConn, OneConnMoves DEF Retry

LEMMA MigrationStepKeeps == MigrationIInv /\ [MigrationNext]_migrationVars => MigrationIInv'
<1> SUFFICES ASSUME MigrationIInv, [MigrationNext]_migrationVars PROVE MigrationIInv'
  OBVIOUS
<1>1. ASSUME NEW c \in Conns, Connect(c) \/ Die(c) PROVE MigrationIInv'
  BY <1>1, PragmaKeeps, AlterKeeps, MigratedKeeps, CreateTableKeeps, CreateIndexesKeeps, RetryKeeps, DieKeeps
     DEF Connect
<1>2. CASE UNCHANGED migrationVars
  BY <1>2 DEF migrationVars, MigrationIInv, ConnOK
<1>3. QED
  BY <1>1, <1>2 DEF MigrationNext

(* Whoever has opened the ledger finds the table with every column and the index on
   them, however many connections migrated it at once, raised or were killed in the
   middle (cost/ingest.py connect). *)
THEOREM OpenConnectionsSeeSchema == MigrationSpec => []OpenSeesSchema
<1>1. MigrationIInv => OpenSeesSchema
  BY DEF MigrationIInv, ConnOK, OpenSeesSchema
<1>2. QED
  BY InitMigrationIInv, MigrationStepKeeps, <1>1, PTL DEF MigrationSpec

----------------------------------------------------------------------------
(* KeyInstall *)

KeySteps == {"write", "fill", "bootout", "bootstrap", "verify", "restart", "waiting", "start", "ended", "failed"}
PortShape == [by : {"launchd", "hand"}, key : Keys \cup {None}, since : Nat]
SetupShape == [step : KeySteps, key : Keys \cup {None}, run : Nat, early : BOOLEAN]

\* The values the script passes on from one step to the next.
KeyPassedOn ==
    /\ setup.step \in {"bootout", "bootstrap"} => plist = setup.key
    /\ setup.step = "verify" => agent = setup.key /\ (job \/ env = setup.key)
    /\ setup.step \in {"restart", "waiting", "start"} \/ (setup.step = "ended" /\ setup.run > 0) =>
           setup.early \/ (env = setup.key /\ ~job)
    /\ setup.step \in {"waiting", "start"} => service # "healthy"
    /\ setup.step \notin SetupOver => setup.run > 0

\* Who is bound to the port: launchd's process belongs to a service that is healthy, and
\* one started by hand while a run is under way was there before it.
PortKnown ==
    port # None => /\ port \in PortShape /\ port.since <= setup.run
                   /\ port.by = "launchd" => service = "healthy"
                   /\ port.by = "hand" /\ setup.step \notin SetupOver => port.since < setup.run

KeyIInv ==
    /\ plist \in Keys \cup {None, "torn"} /\ agent \in Keys \cup {None} /\ env \in Keys \cup {None}
    /\ job \in BOOLEAN /\ service \in {"absent", "healthy", "flap"}
    /\ setup \in SetupShape
    /\ KeyPassedOn /\ PortKnown /\ StaleMeansStuck

LEMMA InitKeyIInv == KeyInit => KeyIInv
<1> SUFFICES ASSUME KeyInit PROVE KeyIInv
  OBVIOUS
<1>1. setup \in SetupShape /\ setup.step = "ended" /\ setup.run = 0
  BY DEF KeyInit, SetupShape, KeySteps
<1>2. QED
  BY <1>1 DEF KeyInit, KeyIInv, KeyPassedOn, PortKnown, StaleMeansStuck, SetupOver

\* A process that is started takes a port that is free or given up.
LEMMA StartsFacts ==
  ASSUME KeyIInv, NEW by \in {"launchd", "hand"}, NEW key \in Keys \cup {None}, NEW given \in BOOLEAN,
         Starts(by, key, given)
  PROVE  \/ port' \in PortShape /\ port'.by = by /\ port'.key = key /\ port'.since = setup.run
         \/ ~given /\ port # None /\ port' = port
<1>1. setup.run \in Nat
  BY DEF KeyIInv, SetupShape
<1>2. [by |-> by, key |-> key, since |-> setup.run] \in PortShape
  BY <1>1 DEF PortShape
<1>3. QED
  BY <1>2 DEF Starts

LEMMA SetupGoesFacts ==
  ASSUME KeyIInv, NEW from \in KeySteps, NEW to \in KeySteps, SetupGoes(from, to)
  PROVE  /\ setup' \in SetupShape /\ setup.step = from /\ setup'.step = to
         /\ setup'.key = setup.key /\ setup'.run = setup.run /\ setup'.early = setup.early
  BY DEF KeyIInv, SetupShape, SetupGoes

\* Whom launchd starts, what ends, and what somebody starts beforehand.
LEMMA LaunchKeeps ==
  ASSUME KeyIInv, LaunchService \/ LetGo \/ AgentJob \/ \E k \in Keys : StartedByHand(k)
  PROVE  KeyIInv'
<1>1. CASE LaunchService
  <2>1. Starts("launchd", env, FALSE) /\ env \in Keys \cup {None}
    BY <1>1 DEF LaunchService, KeyIInv
  <2>2. port' \in PortShape /\ port'.by = "launchd" /\ port'.key = env /\ port'.since = setup.run
    BY <1>1, <2>1, StartsFacts DEF LaunchService
  <2>3. QED
    BY <1>1, <2>2 DEF LaunchService, launchdVars, KeyIInv, KeyPassedOn, PortKnown, StaleMeansStuck, SetupOver,
       SetupShape
<1>2. CASE LetGo
  BY <1>2 DEF LetGo, launchdVars, KeyIInv, KeyPassedOn, PortKnown, StaleMeansStuck, SetupOver
<1>3. CASE AgentJob
  BY <1>3 DEF AgentJob, KeyIInv, KeyPassedOn, PortKnown, StaleMeansStuck, SetupOver
<1>4. ASSUME NEW k \in Keys, StartedByHand(k) PROVE KeyIInv'
  <2>1. port' \in PortShape /\ port'.by = "hand" /\ port'.key = k /\ port'.since = setup.run
    BY <1>4, StartsFacts DEF StartedByHand
  <2>2. QED
    BY <1>4, <2>1 DEF StartedByHand, launchdVars, KeyIInv, KeyPassedOn, PortKnown, StaleMeansStuck, SetupOver,
       SetupShape
<1>5. QED
  BY <1>1, <1>2, <1>3, <1>4

LEMMA AgentKeeps ==
  ASSUME KeyIInv, (\E k \in Keys : Paste(k)) \/ Truncate \/ Fill \/ BootOut \/ Bootstrap \/ Verify
  PROVE  KeyIInv'
<1> USE DEF KeySteps
<1>1. ASSUME NEW k \in Keys, Paste(k) PROVE KeyIInv'
  <2>1. setup' \in SetupShape /\ setup'.step = "write" /\ setup'.run = setup.run + 1 /\ setup.run \in Nat
    BY <1>1 DEF Paste, KeyIInv, SetupShape
  <2>2. QED
    BY <1>1, <2>1 DEF Paste, launchdVars, KeyIInv, KeyPassedOn, PortKnown, PortShape, StaleMeansStuck, SetupOver
<1>2. CASE Truncate
  BY <1>2, SetupGoesFacts DEF Truncate, launchdVars, KeyIInv, KeyPassedOn, PortKnown, StaleMeansStuck, SetupOver
<1>3. CASE Fill
  BY <1>3, SetupGoesFacts
     DEF Fill, launchdVars, KeyIInv, KeyPassedOn, PortKnown, StaleMeansStuck, SetupOver, SetupShape
<1>4. CASE BootOut
  BY <1>4, SetupGoesFacts DEF BootOut, KeyIInv, KeyPassedOn, PortKnown, StaleMeansStuck, SetupOver
<1>5. CASE Bootstrap
  BY <1>5, SetupGoesFacts
     DEF Bootstrap, KeyIInv, KeyPassedOn, PortKnown, StaleMeansStuck, SetupOver, SetupShape
<1>6. CASE Verify
  <2>1. /\ setup' \in SetupShape /\ setup'.step \in {"failed", "restart"} /\ setup'.early = job
        /\ setup'.key = setup.key /\ setup'.run = setup.run
    BY <1>6 DEF Verify, KeyIInv, SetupShape
  <2>2. QED
    BY <1>6, <2>1 DEF Verify, launchdVars, KeyIInv, KeyPassedOn, PortKnown, StaleMeansStuck, SetupOver
<1>7. QED
  BY <1>1, <1>2, <1>3, <1>4, <1>5, <1>6

\* The restart: launchd's process is replaced, one started by hand and not gone by now
\* was there before this run.
LEMMA RestartKeeps ==
  ASSUME KeyIInv, Kickstart \/ StopOthers \/ Waited \/ StartManually \/ StartFails
  PROVE  KeyIInv'
<1> USE DEF KeySteps
<1>1. CASE Kickstart
  <2>1. Starts("launchd", env, port # None /\ port.by = "launchd") /\ env \in Keys \cup {None}
    BY <1>1 DEF Kickstart, KeyIInv
  <2>2. \/ port' \in PortShape /\ port'.by = "launchd" /\ port'.key = env /\ port'.since = setup.run
        \/ port # None /\ port.by = "hand" /\ port' = port
    BY <2>1, StartsFacts DEF KeyIInv, PortKnown, PortShape
  <2>3. /\ setup' \in SetupShape /\ setup.step = "restart" /\ setup'.step = "ended"
        /\ setup'.key = setup.key /\ setup'.run = setup.run /\ setup'.early = setup.early
    BY <1>1, SetupGoesFacts DEF Kickstart
  <2>4. QED
    BY <1>1, <2>2, <2>3 DEF Kickstart, launchdVars, KeyIInv, KeyPassedOn, PortKnown, PortShape, StaleMeansStuck,
       SetupOver, SetupShape
<1>2. CASE StopOthers
  BY <1>2, SetupGoesFacts DEF StopOthers, KeyIInv, KeyPassedOn, PortKnown, PortShape, StaleMeansStuck, SetupOver
<1>3. CASE Waited
  BY <1>3, SetupGoesFacts DEF Waited, launchdVars, KeyIInv, KeyPassedOn, PortKnown, StaleMeansStuck, SetupOver
<1>4. CASE StartManually
  <2>1. Starts("hand", env, FALSE) /\ env \in Keys \cup {None}
    BY <1>4 DEF StartManually, KeyIInv
  <2>2. \/ port' \in PortShape /\ port'.by = "hand" /\ port'.key = env /\ port'.since = setup.run
        \/ port # None /\ port' = port
    BY <2>1, StartsFacts
  <2>3. /\ setup' \in SetupShape /\ setup.step = "start" /\ setup'.step = "ended"
        /\ setup'.key = setup.key /\ setup'.run = setup.run /\ setup'.early = setup.early
    BY <1>4, SetupGoesFacts DEF StartManually
  <2>4. QED
    BY <1>4, <2>2, <2>3 DEF StartManually, launchdVars, KeyIInv, KeyPassedOn, PortKnown, PortShape,
       StaleMeansStuck, SetupOver, SetupShape
<1>5. CASE StartFails
  BY <1>5, SetupGoesFacts DEF StartFails, launchdVars, KeyIInv, KeyPassedOn, PortKnown, StaleMeansStuck, SetupOver
<1>6. QED
  BY <1>1, <1>2, <1>3, <1>4, <1>5

\* The script is interrupted, or the machine starts again.
LEMMA EndsKeep ==
  ASSUME KeyIInv, Interrupt \/ Reboot
  PROVE  KeyIInv'
<1>1. setup' = [setup EXCEPT !.step = "failed"]
  BY DEF Interrupt, Reboot
<1>2. setup' \in SetupShape /\ setup'.step = "failed" /\ setup'.run = setup.run
  BY <1>1 DEF KeyIInv, SetupShape, KeySteps
<1>3. CASE Interrupt
  BY <1>2, <1>3 DEF Interrupt, launchdVars, KeyIInv, KeyPassedOn, PortKnown, StaleMeansStuck, SetupOver
<1>4. CASE Reboot
  <2>1. agent' \in Keys \cup {None} /\ job' \in BOOLEAN /\ env' = None /\ port' = None /\ UNCHANGED plist
    BY <1>4 DEF Reboot, KeyIInv
  <2>2. service' \in {"absent", "healthy", "flap"}
    BY <1>4 DEF Reboot, KeyIInv
  <2>3. QED
    BY <1>2, <2>1, <2>2 DEF KeyIInv, KeyPassedOn, PortKnown, StaleMeansStuck, SetupOver
<1>5. QED
  BY <1>3, <1>4

LEMMA KeyStepKeeps == KeyIInv /\ [KeyNext]_keyVars => KeyIInv'
<1> SUFFICES ASSUME KeyIInv, [KeyNext]_keyVars PROVE KeyIInv'
  OBVIOUS
<1>1. CASE KeyNext
  BY <1>1, LaunchKeeps, AgentKeeps, RestartKeeps, EndsKeep DEF KeyNext
<1>2. CASE UNCHANGED keyVars
  BY <1>2 DEF keyVars, KeyIInv, KeyPassedOn, PortKnown, StaleMeansStuck
<1>3. QED
  BY <1>1, <1>2

(* However often the script is interrupted, run again with another key or cut short by a
   reboot: when it ends well, the process on :4000 has the pasted key unless it was
   there before this run and never let go, or launchd had not yet run the agent's job
   when the script read the environment, in which case what the script itself starts may
   have an earlier key (setup-anthropic-key.sh). *)
THEOREM StaleKeyMeansStuck == KeySpec => []StaleMeansStuck
<1>1. KeyIInv => StaleMeansStuck
  BY DEF KeyIInv
<1>2. QED
  BY InitKeyIInv, KeyStepKeeps, <1>1, PTL DEF KeySpec

----------------------------------------------------------------------------
(* HfDownload *)

HfSteps == Over \cup {"download", "ok", "find", "modelfile", "render", "create", "env"}

\* What a step of the script has left behind for the next.
StepKnows ==
    /\ at \notin Over => want \in HfAsks
    /\ at \in {"modelfile", "render", "create", "env"} => gguf \in want.files \cap placed
    /\ at = "create" => modelfile[want.repo] = gguf
    /\ at = "env" => known[want.tag] = gguf

\* The watchdog knows of no growth that is not there, and of every growth older than
\* its last sample.
DogKnows ==
    /\ dog.changed <= clock /\ grew <= clock
    /\ at \in {"download", "ok"} => /\ dog.seen <= bytes[want.repo]
                                    /\ bytes[want.repo] = dog.seen => grew <= dog.changed

HfTypeOK ==
    /\ at \in HfSteps /\ clock \in Nat /\ grew \in Nat
    /\ chunks \in [GgufFiles -> Nat] /\ bytes \in [Repos -> Nat] /\ placed \subseteq GgufFiles
    /\ DOMAIN modelfile = Repos /\ DOMAIN known = Tags
    /\ dog \in [seen : Int, changed : Nat]

HfIInv == HfTypeOK /\ StepKnows /\ DogKnows /\ EnvNamesModel /\ StallMeansStalled

LEMMA AskHasParts ==
  ASSUME NEW ask \in HfAsks
  PROVE  ask.repo \in Repos /\ ask.tag \in Tags /\ ask.files \subseteq GgufFiles
  BY HfAssumption DEF Repos, Tags

LEMMA InitHfIInv == HfInit => HfIInv
<1> SUFFICES ASSUME HfInit PROVE HfIInv
  OBVIOUS
<1>1. /\ at = "done" /\ clock = 0 /\ grew = 0 /\ envTag = None /\ placed = {}
      /\ dog \in [seen : Int, changed : Nat] /\ dog.changed = 0
  BY DEF HfInit
<1>2. HfTypeOK
  BY <1>1 DEF HfInit, HfTypeOK, HfSteps, Over
<1>3. QED
  BY <1>1, <1>2 DEF HfIInv, Over, StepKnows, DogKnows, EnvNamesModel, StallMeansStalled

LEMMA BeginKeeps ==
  ASSUME HfIInv, NEW ask \in HfAsks, BeginDownload(ask)
  PROVE  HfIInv'
<1>1. dog' \in [seen : Int, changed : Nat] /\ dog'.seen = -1 /\ dog'.changed = 0
  BY DEF BeginDownload
<1>2. bytes'[ask.repo] \in Nat
  BY AskHasParts DEF BeginDownload, filesVars, HfIInv, HfTypeOK
<1>3. HfTypeOK'
  BY <1>1 DEF BeginDownload, filesVars, modelVars, HfIInv, HfTypeOK, HfSteps, Over
<1>4. QED
  BY <1>1, <1>2, <1>3 DEF BeginDownload, filesVars, modelVars, HfIInv, Over, StepKnows, DogKnows,
     EnvNamesModel, StallMeansStalled

LEMMA FileKeeps ==
  ASSUME HfIInv, NEW f \in GgufFiles, Grow(f) \/ Place(f)
  PROVE  HfIInv'
<1>1. at = "download" /\ at' = at /\ want \in HfAsks /\ UNCHANGED <<want, gguf, modelVars, dog, clock>>
  BY DEF Grow, Place, HfIInv, StepKnows, Over, watchVars
<1>2. /\ want.repo \in Repos /\ bytes[want.repo] \in Nat /\ dog.seen \in Int /\ dog.changed \in Nat
      /\ clock \in Nat /\ grew \in Nat
  BY <1>1, AskHasParts DEF HfIInv, HfTypeOK
<1>3. /\ HfTypeOK' /\ placed \subseteq placed'
      /\ \/ bytes'[want.repo] = bytes[want.repo] + 1 /\ grew' = clock
         \/ bytes' = bytes /\ grew' = grew
  <2>1. CASE Grow(f)
    <3>1. /\ bytes' = [bytes EXCEPT ![want.repo] = @ + 1] /\ chunks' = [chunks EXCEPT ![f] = @ + 1]
          /\ grew' = clock /\ placed' = placed
      BY <2>1 DEF Grow
    <3>2. chunks' \in [GgufFiles -> Nat]
      BY <3>1 DEF HfIInv, HfTypeOK
    <3>3. bytes' \in [Repos -> Nat] /\ bytes'[want.repo] = bytes[want.repo] + 1
      BY <1>2, <3>1 DEF HfIInv, HfTypeOK
    <3>4. QED
      BY <1>1, <1>2, <3>1, <3>2, <3>3 DEF HfIInv, HfTypeOK, modelVars
  <2>2. CASE Place(f)
    BY <1>1, <1>2, <2>2 DEF Place, HfIInv, HfTypeOK, modelVars, watchVars
  <2>3. QED
    BY <2>1, <2>2
<1>4. DogKnows'
  BY <1>1, <1>2, <1>3 DEF HfIInv, DogKnows
<1>5. QED
  BY <1>1, <1>3, <1>4 DEF HfIInv, StepKnows, EnvNamesModel, StallMeansStalled, Over, modelVars

\* The watchdog finds a stall only where its last sample saw all that is there, and
\* what is there had grown before it.
LEMMA WatchdogKeeps ==
  ASSUME HfIInv, WatchdogRound
  PROVE  HfIInv'
<1>1. want \in HfAsks
  BY DEF WatchdogRound, HfIInv, StepKnows, Over
<1>2. /\ bytes[want.repo] \in Nat /\ dog.seen \in Int /\ dog.changed \in Nat
      /\ clock \in Nat /\ grew \in Nat /\ grew <= clock /\ dog.changed <= clock
      /\ dog.seen <= bytes[want.repo] /\ bytes[want.repo] = dog.seen => grew <= dog.changed
  BY <1>1, AskHasParts DEF WatchdogRound, HfIInv, HfTypeOK, DogKnows
<1>3. /\ dog' \in [seen : Int, changed : Nat] /\ dog'.seen = bytes[want.repo] /\ dog'.changed <= clock + 1
      /\ grew <= dog'.changed
  BY <1>2 DEF WatchdogRound, AfterSample, HfIInv, HfTypeOK
<1>4. clock' = clock + 1 /\ UNCHANGED <<want, gguf, filesVars, modelVars, grew, runs>>
  BY DEF WatchdogRound
<1>5. /\ \/ at \in {"download", "ok"} /\ at' = at
         \/ at' \in {"stalled", "timeout"}
      /\ at' = "stalled" => clock' - dog'.changed > HfStallWindow
  BY DEF WatchdogRound
<1>6. StallMeansStalled'
  BY <1>2, <1>3, <1>4, <1>5, HfAssumption DEF StallMeansStalled
<1>7. DogKnows'
  BY <1>2, <1>3, <1>4 DEF DogKnows, filesVars
<1>8. StepKnows' /\ EnvNamesModel'
  BY <1>1, <1>4, <1>5 DEF StepKnows, EnvNamesModel, filesVars, modelVars, HfIInv, Over
<1>9. HfTypeOK'
  BY <1>2, <1>3, <1>4, <1>5 DEF HfIInv, HfTypeOK, HfSteps, Over, filesVars, modelVars
<1>10. QED
  BY <1>6, <1>7, <1>8, <1>9 DEF HfIInv

LEMMA MainKeeps ==
  ASSUME HfIInv, MainStep
  PROVE  HfIInv'
<1> USE DEF HfIInv, HfTypeOK, HfSteps, Over, StepKnows, DogKnows, EnvNamesModel, StallMeansStalled,
            filesVars, modelVars, watchVars
<1>0. want \in HfAsks /\ want.repo \in Repos /\ want.tag \in Tags
  BY AskHasParts DEF MainStep, DownloadReturns, PythonEnds, FindFile, WriteTemplate, Render, Create, WriteEnv, Steps
<1>1. CASE DownloadReturns
  BY <1>1 DEF DownloadReturns, Steps
<1>2. CASE PythonEnds
  BY <1>2 DEF PythonEnds, Steps
<1>3. CASE FindFile
  BY <1>3 DEF FindFile
<1>4. CASE WriteTemplate
  BY <1>4 DEF WriteTemplate, Steps
<1>5. CASE Render
  BY <1>0, <1>5 DEF Render, Steps
<1>6. CASE Create
  <2>1. at = "create" /\ modelfile[want.repo] = gguf /\ gguf \in want.files \cap placed
    BY <1>6 DEF Create
  <2>2. CASE at' = "env" /\ known' = [known EXCEPT ![want.tag] = modelfile[want.repo]]
    <3>1. known'[want.tag] = gguf /\ \A t \in Tags \ {want.tag} : known'[t] = known[t]
      BY <1>0, <2>1, <2>2
    <3>2. envTag' = want.tag => known'[envTag'] \in want.files \cap placed'
      BY <1>6, <2>1, <3>1 DEF Create
    <3>3. ASSUME envTag # None, envTag # want.tag PROVE EnvNamesModel'
      <4>1. PICK ask \in HfAsks : ask.tag = envTag /\ known[envTag] \in ask.files \cap placed
        BY <3>3
      <4>2. envTag' = envTag /\ placed' = placed /\ envTag \in Tags
        BY <1>6, <4>1, AskHasParts DEF Create
      <4>3. known'[envTag] = known[envTag]
        BY <3>1, <3>3, <4>2
      <4>4. QED
        BY <4>1, <4>2, <4>3
    <3>4. EnvNamesModel'
      BY <1>0, <1>6, <3>2, <3>3 DEF Create
    <3>5. HfTypeOK' /\ DogKnows' /\ StallMeansStalled'
      BY <1>6, <2>2 DEF Create
    <3>6. StepKnows'
      BY <1>6, <2>1, <2>2, <3>1 DEF Create
    <3>7. QED
      BY <3>4, <3>5, <3>6
  <2>3. CASE at' = "failed" /\ UNCHANGED known
    BY <1>6, <2>3 DEF Create
  <2>4. QED
    BY <1>6, <2>2, <2>3 DEF Create
<1>7. CASE WriteEnv
  BY <1>0, <1>7 DEF WriteEnv, Steps
<1>8. QED
  BY <1>1, <1>2, <1>3, <1>4, <1>5, <1>6, <1>7 DEF MainStep

LEMMA HfStepKeeps == HfIInv /\ [HfNext]_hfVars => HfIInv'
<1> SUFFICES ASSUME HfIInv, [HfNext]_hfVars PROVE HfIInv'
  OBVIOUS
<1>1. CASE DownloadRaises \/ InterruptHf
  BY <1>1 DEF DownloadRaises, InterruptHf, Steps, filesVars, modelVars, watchVars, HfIInv, HfTypeOK, HfSteps, Over,
     StepKnows, DogKnows, EnvNamesModel, StallMeansStalled
<1>2. CASE UNCHANGED hfVars
  BY <1>2 DEF hfVars, HfIInv, HfTypeOK, StepKnows, DogKnows, EnvNamesModel, StallMeansStalled
<1>3. QED
  BY <1>1, <1>2, BeginKeeps, FileKeeps, MainKeeps, WatchdogKeeps DEF HfNext, FileStep

LEMMA HfInvariant == HfSpec => []HfIInv
  BY InitHfIInv, HfStepKeeps, PTL DEF HfSpec

----------------------------------------------------------------------------
(* ModelPull *)

PullTypeOK ==
    /\ script \in {"resume", "heartbeat"} /\ pull \in {"pull", "failed", "sleep"} \cup Ended
    /\ attempt \in 1..AttemptsMax /\ layer \in Nat \ {0}
    /\ got \in Nat /\ lastSize \in Nat /\ minutes \in Nat /\ hung \in Nat /\ sizedIn \in 1..layer

\* Until a layer is done the sum of the partial files only grows.  While it is what it was
\* when last looked at, nothing came since the script's clock was set back, so that the
\* true silence is past the window when the clock is.
SilenceIsSeen ==
    layer = sizedIn =>
        /\ lastSize <= got
        /\ got = lastSize => minutes <= hung \/ hung > StallWindow

PullIInv == PullTypeOK /\ SilenceIsSeen /\ PullIsHonest /\ HungMeansHung

LEMMA InitPullIInv == PullInit => PullIInv
<1> SUFFICES ASSUME PullInit PROVE PullIInv
  OBVIOUS
<1>1. Layers[1] \in Nat \ {0}
  BY PullAssumption
<1>2. PullTypeOK /\ SilenceIsSeen
  BY <1>1, PullAssumption DEF PullInit, PullTypeOK, SilenceIsSeen, Allocated
<1>3. QED
  BY <1>2, PullAssumption DEF PullInit, PullIInv, PullTypeOK, PullIsHonest, HungMeansHung

LEMMA ReceiveKeeps == PullIInv /\ Receive => PullIInv'
<1> SUFFICES ASSUME PullIInv, Receive PROVE PullIInv'
  OBVIOUS
<1>1. /\ pull = "pull" /\ pull' = pull /\ hung' = 0
      /\ UNCHANGED <<script, attempt, lastSize, minutes>>
      /\ sizedIn' = sizedIn
      /\ (layer' = layer + 1 /\ got' = 0) \/ (layer' = layer /\ got' = got + 1)
  BY DEF Receive
<1>2. PullTypeOK'
  BY <1>1 DEF PullIInv, PullTypeOK
<1>3. SilenceIsSeen'
  BY <1>1 DEF PullIInv, PullTypeOK, SilenceIsSeen
<1>4. QED
  BY <1>1, <1>2, <1>3 DEF PullIInv, PullIsHonest, HungMeansHung

\* Time passes alike for the script's clock and for the silence, up to the window.
LEMMA TimePasses ==
  ASSUME PullIInv, NEW minute \in Nat, minutes' = Later(minutes, minute), hung' = Later(hung, minute),
         UNCHANGED <<layer, got, lastSize, sizedIn>>
  PROVE  minutes' \in Nat /\ hung' \in Nat /\ SilenceIsSeen'
<1>1. minutes' \in Nat /\ hung' \in Nat
  BY DEF PullIInv, PullTypeOK, Later
<1>2. minutes <= hung \/ hung > StallWindow => minutes' <= hung' \/ hung' > StallWindow
  BY PullAssumption DEF PullIInv, PullTypeOK, Later
<1>3. QED
  BY <1>1, <1>2 DEF PullIInv, SilenceIsSeen

LEMMA SilenceKeeps == PullIInv /\ Silence => PullIInv'
<1> SUFFICES ASSUME PullIInv, Silence PROVE PullIInv'
  OBVIOUS
<1>1. pull = "pull" /\ UNCHANGED <<script, pull, attempt, layer, got, lastSize, sizedIn>>
  BY DEF Silence
<1>2. minutes' \in Nat /\ hung' \in Nat /\ SilenceIsSeen'
  BY <1>1, TimePasses DEF Silence
<1>3. QED
  BY <1>1, <1>2 DEF PullIInv, PullTypeOK, PullIsHonest, HungMeansHung

LEMMA EndingKeeps == PullIInv /\ (Succeed \/ Break \/ ServerError \/ CountRetry) => PullIInv'
<1> SUFFICES ASSUME PullIInv, Succeed \/ Break \/ ServerError \/ CountRetry PROVE PullIInv'
  OBVIOUS
<1>1. UNCHANGED <<script, attempt, layer, got, lastSize, minutes, hung, sizedIn>>
  BY DEF Succeed, Break, ServerError, CountRetry, histories
<1>2. /\ pull' \in {"success", "failed", "fatal", "exhausted", "sleep"}
      /\ pull' = "success" => layer > Len(Layers)
      /\ pull' = "exhausted" => attempt >= AttemptsMax
  BY DEF Succeed, Break, ServerError, CountRetry, NextOrEnd, LastAttempt
<1>3. pull' = "exhausted" => attempt = AttemptsMax
  BY <1>2, PullAssumption DEF PullIInv, PullTypeOK
<1>4. QED
  BY <1>1, <1>2, <1>3 DEF PullIInv, PullTypeOK, SilenceIsSeen, PullIsHonest, HungMeansHung, Ended

LEMMA CheckKeeps == PullIInv /\ CheckProgress => PullIInv'
<1> SUFFICES ASSUME PullIInv, CheckProgress PROVE PullIInv'
  OBVIOUS
<1>1. /\ UNCHANGED <<script, attempt, layer, got, hung>>
      /\ lastSize' = (IF got > lastSize THEN got ELSE lastSize)
      /\ minutes' = (IF got > lastSize THEN 0 ELSE minutes)
      /\ pull' = (IF ~(got > lastSize) /\ minutes > StallWindow THEN "hung" ELSE "sleep")
      /\ sizedIn' = (IF got > lastSize THEN layer ELSE sizedIn)
  BY DEF CheckProgress, Grown, Since, Allocated
<1>2. PullTypeOK'
  BY <1>1 DEF PullIInv, PullTypeOK, Ended
<1>3. SilenceIsSeen'
  BY <1>1 DEF PullIInv, PullTypeOK, SilenceIsSeen
<1>4. pull' = "hung" /\ layer = sizedIn' => hung > StallWindow
  BY <1>1, PullAssumption DEF PullIInv, PullTypeOK, SilenceIsSeen
<1>5. QED
  BY <1>1, <1>2, <1>3, <1>4 DEF PullIInv, PullIsHonest, HungMeansHung

LEMMA SleepKeeps == PullIInv /\ Sleep => PullIInv'
<1> SUFFICES ASSUME PullIInv, Sleep PROVE PullIInv'
  OBVIOUS
<1>1. /\ minutes' = Later(minutes, SleepFor) /\ hung' = Later(hung, SleepFor)
      /\ UNCHANGED <<script, layer, got, lastSize, sizedIn>>
  BY DEF Sleep
<1>2. SleepFor \in Nat
  BY PullAssumption DEF SleepFor, PullIInv, PullTypeOK
<1>3. minutes' \in Nat /\ hung' \in Nat /\ SilenceIsSeen'
  BY <1>1, <1>2, TimePasses
<1>4. CASE LastAttempt
  <2>1. pull' = "exhausted" /\ attempt' = attempt /\ attempt = AttemptsMax
    BY <1>4, PullAssumption DEF Sleep, Again, LastAttempt, PullIInv, PullTypeOK
  <2>2. QED
    BY <1>1, <1>3, <2>1 DEF PullIInv, PullTypeOK, PullIsHonest, HungMeansHung, Ended
<1>5. CASE ~LastAttempt
  <2>1. pull' = "pull" /\ attempt' = attempt + 1 /\ attempt + 1 <= AttemptsMax
    BY <1>5, PullAssumption DEF Sleep, Again, LastAttempt, PullIInv, PullTypeOK
  <2>2. QED
    BY <1>1, <1>3, <2>1, PullAssumption DEF PullIInv, PullTypeOK, PullIsHonest, HungMeansHung, Ended
<1>6. QED
  BY <1>4, <1>5

LEMMA PullStepKeeps == PullIInv /\ [PullNext]_pullVars => PullIInv'
<1>1. PullIInv /\ UNCHANGED pullVars => PullIInv'
  BY DEF pullVars, PullIInv, PullTypeOK, SilenceIsSeen, PullIsHonest, HungMeansHung
<1>2. QED
  BY <1>1, ReceiveKeeps, SilenceKeeps, EndingKeeps, CheckKeeps, SleepKeeps DEF PullNext, PullStep, LoopStep

LEMMA PullInvariant == PullSpec => []PullIInv
  BY InitPullIInv, PullStepKeeps, PTL DEF PullSpec

(* What a download's exit says has happened, for any layers, limits, repositories, patterns,
   tags and numbers of runs.  A pull is given up as hung only when nothing came for longer
   than the window or a layer was done since the loop last saw the sum grow, and as
   exhausted after every attempt (resume-ollama.sh, pull_with_heartbeat.py); whatever was
   interrupted, detected.env names a tag whose model Ollama made from a whole file that a
   pattern given for that tag matches, and the watchdog says STALL only when nothing was
   written to the directory for longer than its window (download-ollama-from-hf.sh). *)
THEOREM DownloadsEndHonestly == DownloadsSpec => []DownloadsHonest
<1>1. HfIInv /\ PullIInv => DownloadsHonest
  BY DEF HfIInv, PullIInv, DownloadsHonest
<1>2. QED
  BY <1>1, HfInvariant, PullInvariant, PTL DEF DownloadsSpec

----------------------------------------------------------------------------
(* WorkspaceSync *)

FileShape == [kind : {"absent", "torn", "whole", "commented"}, folders : SUBSET Worktrees, settings : Preferences \cup {None}]
SyncShape == [step : {"idle", "read", "truncate", "fill"}, folders : SUBSET Worktrees, kept : FileShape,
              alone : BOOLEAN]

\* While nothing was cut or overlapped and every file was read that was there, at most one
\* process syncs, what it read is what the user saved last, and only it has the file half
\* written.
Undisturbed ==
    ~disturbed /\ ~unparsed =>
        /\ workspace.kind # "torn" => workspace.settings = chosen
        /\ workspace.kind = "torn" => \E s \in Syncs : syncing[s].step = "fill"
        /\ \A s \in Syncs : /\ syncing[s].step \in {"truncate", "fill"} => syncing[s].kept.settings = chosen
                            /\ syncing[s].step = "fill" => workspace.kind = "torn"
                            /\ \A t \in Syncs \ {s} : syncing[s].step = "idle" \/ syncing[t].step = "idle"

\* A process that is alone has git's list, and no other one is under way.
Alone ==
    \A s \in Syncs : syncing[s].alone /\ syncing[s].step # "idle" =>
        /\ syncing[s].folders = linked
        /\ syncing[s].step = "fill" => workspace.kind = "torn"
        /\ \A t \in Syncs \ {s} : syncing[t].step = "idle"

WorkspaceIInv ==
    /\ linked \subseteq Worktrees /\ workspace \in FileShape /\ syncing \in [Syncs -> SyncShape]
    /\ chosen \in Preferences \cup {None} /\ disturbed \in BOOLEAN /\ unparsed \in BOOLEAN
    /\ Undisturbed /\ Alone

LEMMA InitWorkspaceIInv == WorkspaceInit => WorkspaceIInv
<1> SUFFICES ASSUME WorkspaceInit PROVE WorkspaceIInv
  OBVIOUS
<1>1. Absent \in FileShape /\ Absent.kind = "absent" /\ Absent.settings = None
  BY DEF Absent, FileShape
<1>2. NotSyncing \in SyncShape /\ NotSyncing.step = "idle"
  BY <1>1 DEF NotSyncing, SyncShape
<1>3. QED
  BY <1>1, <1>2 DEF WorkspaceInit, WorkspaceIInv, Undisturbed, Alone

\* A record of the shape keeps it when one field changes.
LEMMA SyncShapeKept ==
  ASSUME NEW q \in SyncShape
  PROVE  /\ \A step \in {"idle", "read", "truncate", "fill"} : [q EXCEPT !.step = step] \in SyncShape
         /\ \A folders \in SUBSET Worktrees : [q EXCEPT !.folders = folders] \in SyncShape
         /\ \A kept \in FileShape : [q EXCEPT !.kept = kept] \in SyncShape
         /\ \A alone \in BOOLEAN : [q EXCEPT !.alone = alone] \in SyncShape
<1>1. ASSUME NEW step \in {"idle", "read", "truncate", "fill"} PROVE [q EXCEPT !.step = step] \in SyncShape
  BY DEF SyncShape
<1>2. ASSUME NEW folders \in SUBSET Worktrees PROVE [q EXCEPT !.folders = folders] \in SyncShape
  BY DEF SyncShape
<1>3. ASSUME NEW kept \in FileShape PROVE [q EXCEPT !.kept = kept] \in SyncShape
  BY DEF SyncShape
<1>4. ASSUME NEW alone \in BOOLEAN PROVE [q EXCEPT !.alone = alone] \in SyncShape
  BY DEF SyncShape
<1>5. QED
  BY <1>1, <1>2, <1>3, <1>4

\* Overlapped takes nothing from a process but that it is alone.
LEMMA OverlappedFacts ==
  ASSUME WorkspaceIInv
  PROVE  /\ Overlapped \in [Syncs -> SyncShape]
         /\ \A s \in Syncs : /\ Overlapped[s].step = syncing[s].step /\ Overlapped[s].kept = syncing[s].kept
                             /\ Overlapped[s].alone = FALSE
<1>1. ASSUME NEW s \in Syncs
      PROVE  /\ [syncing[s] EXCEPT !.alone = FALSE] \in SyncShape
             /\ [syncing[s] EXCEPT !.alone = FALSE].step = syncing[s].step
             /\ [syncing[s] EXCEPT !.alone = FALSE].kept = syncing[s].kept
             /\ [syncing[s] EXCEPT !.alone = FALSE].alone = FALSE
  BY DEF WorkspaceIInv, SyncShape
<1>2. QED
  BY <1>1 DEF Overlapped

LEMMA OutsideKeeps ==
  ASSUME WorkspaceIInv, ChangeWorktrees \/ \E p \in Preferences : SaveSettings(p)
  PROVE  WorkspaceIInv'
<1>1. CASE ChangeWorktrees
  BY <1>1, OverlappedFacts DEF ChangeWorktrees, WorkspaceIInv, Undisturbed, Alone
<1>2. ASSUME NEW p \in Preferences, SaveSettings(p) PROVE WorkspaceIInv'
  <2>1. workspace' \in FileShape /\ workspace'.kind # "torn" /\ workspace'.settings = p
    BY <1>2 DEF SaveSettings, WorkspaceIInv, FileShape
  <2>2. /\ ~disturbed' => ~disturbed /\ \A s \in Syncs : syncing[s].step = "idle"
        /\ unparsed' = unparsed
    BY <1>2 DEF SaveSettings, Syncing
  <2>3. QED
    BY <1>2, <2>1, <2>2, OverlappedFacts DEF SaveSettings, WorkspaceIInv, Undisturbed, Alone
<1>3. QED
  BY <1>1, <1>2

LEMMA ListKeeps ==
  ASSUME WorkspaceIInv, NEW s \in Syncs, ListWorktrees(s)
  PROVE  WorkspaceIInv'
<1>1. Absent \in FileShape
  BY DEF Absent, FileShape
<1>2. PICK q \in SyncShape : /\ q = [NotSyncing EXCEPT !.step = "read", !.folders = linked, !.alone = (Syncing = {})]
                             /\ q.step = "read" /\ q.folders = linked /\ q.alone = (Syncing = {})
  <2>1. linked \in SUBSET Worktrees /\ (Syncing = {}) \in BOOLEAN
    BY DEF WorkspaceIInv
  <2>2. NotSyncing \in SyncShape
    BY <1>1 DEF NotSyncing, SyncShape
  <2> DEFINE a == [NotSyncing EXCEPT !.step = "read"]
             b == [a EXCEPT !.folders = linked]
             c == [b EXCEPT !.alone = (Syncing = {})]
  <2>3. a \in SyncShape /\ a.step = "read"
    <3>1. a \in SyncShape
      BY <2>2, SyncShapeKept
    <3>2. QED
      BY <2>2, <3>1 DEF SyncShape
  <2>4. b \in SyncShape /\ b.step = a.step /\ b.folders = linked
    <3>1. b \in SyncShape
      BY <2>1, <2>3, SyncShapeKept
    <3>2. QED
      BY <2>3, <3>1 DEF SyncShape
  <2>5. c \in SyncShape /\ c.step = b.step /\ c.folders = b.folders /\ c.alone = (Syncing = {})
    <3>1. c \in SyncShape
      BY <2>1, <2>4, SyncShapeKept
    <3>2. QED
      BY <2>4, <3>1 DEF SyncShape
  <2>6. c = [NotSyncing EXCEPT !.step = "read", !.folders = linked, !.alone = (Syncing = {})]
    OBVIOUS
  <2> HIDE DEF a, b, c
  <2>7. QED
    BY <2>3, <2>4, <2>5, <2>6
<1>3. syncing' = [Overlapped EXCEPT ![s] = q]
  BY <1>2 DEF ListWorktrees
<1>4. /\ syncing' \in [Syncs -> SyncShape] /\ syncing'[s] = q
      /\ \A t \in Syncs \ {s} : /\ syncing'[t].step = syncing[t].step /\ syncing'[t].kept = syncing[t].kept
                                /\ syncing'[t].alone = FALSE
  BY <1>3, OverlappedFacts
<1>5. /\ ~disturbed' => ~disturbed /\ Syncing = {}
      /\ q.alone = TRUE => Syncing = {}
      /\ Syncing = {} => \A t \in Syncs : syncing[t].step = "idle"
      /\ disturbed' \in BOOLEAN
  BY <1>2 DEF ListWorktrees, Syncing, WorkspaceIInv
<1>6. Undisturbed'
  BY <1>2, <1>4, <1>5 DEF ListWorktrees, WorkspaceIInv, Undisturbed
<1>7. Alone'
  BY <1>2, <1>4, <1>5 DEF ListWorktrees, Alone
<1>8. QED
  BY <1>4, <1>5, <1>6, <1>7 DEF ListWorktrees, WorkspaceIInv

\* One process moves on, and the others stay where they are.
LEMMA SyncMoves ==
  ASSUME WorkspaceIInv, NEW s \in Syncs, NEW q \in SyncShape, syncing' = [syncing EXCEPT ![s] = q]
  PROVE  /\ syncing' \in [Syncs -> SyncShape] /\ syncing'[s] = q
         /\ \A t \in Syncs \ {s} : syncing'[t] = syncing[t]
  BY DEF WorkspaceIInv

LEMMA ReadKeeps ==
  ASSUME WorkspaceIInv, NEW s \in Syncs, ReadWorkspace(s)
  PROVE  WorkspaceIInv'
<1>1. syncing[s] \in SyncShape /\ workspace \in FileShape /\ Absent \in FileShape
  BY DEF WorkspaceIInv, Absent, FileShape
<1>2. PICK kept \in FileShape : kept = IF workspace.kind \in {"torn", "commented"} THEN Absent ELSE workspace
  BY <1>1
<1>3. PICK q \in SyncShape : /\ q = [syncing[s] EXCEPT !.step = "truncate", !.kept = kept]
                             /\ q.step = "truncate" /\ q.kept = kept
                             /\ q.folders = syncing[s].folders /\ q.alone = syncing[s].alone
  <2> DEFINE a == [syncing[s] EXCEPT !.step = "truncate"]
             b == [a EXCEPT !.kept = kept]
  <2>1. a \in SyncShape /\ a.step = "truncate" /\ a.folders = syncing[s].folders /\ a.alone = syncing[s].alone
    <3>1. a \in SyncShape
      BY <1>1, SyncShapeKept
    <3>2. QED
      BY <1>1, <3>1 DEF SyncShape
  <2>2. b \in SyncShape /\ b.step = a.step /\ b.kept = kept /\ b.folders = a.folders /\ b.alone = a.alone
    <3>1. b \in SyncShape
      BY <2>1, SyncShapeKept
    <3>2. QED
      BY <2>1, <3>1 DEF SyncShape
  <2>3. b = [syncing[s] EXCEPT !.step = "truncate", !.kept = kept]
    OBVIOUS
  <2> HIDE DEF a, b
  <2>4. QED
    BY <2>1, <2>2, <2>3
<1>4. syncing' = [syncing EXCEPT ![s] = q]
  <2>1. syncing' = [syncing EXCEPT ![s].step = "truncate", ![s].kept = kept]
    BY <1>2 DEF ReadWorkspace
  <2>2. syncing' = [syncing EXCEPT ![s] = [syncing[s] EXCEPT !.step = "truncate", !.kept = kept]]
    BY <2>1 DEF WorkspaceIInv
  <2>3. QED
    BY <1>3, <2>2
<1>5. /\ ~disturbed /\ ~unparsed' => ~unparsed /\ kept.settings = chosen
      /\ unparsed' \in BOOLEAN
  <2>1. ~disturbed /\ ~unparsed' => ~unparsed /\ workspace.kind \notin {"torn", "commented"}
    BY DEF ReadWorkspace, WorkspaceIInv, Undisturbed
  <2>2. QED
    BY <1>2, <2>1 DEF ReadWorkspace, WorkspaceIInv, Undisturbed
<1>6. /\ syncing' \in [Syncs -> SyncShape] /\ \A t \in Syncs \ {s} : syncing'[t] = syncing[t]
      /\ syncing'[s].step = "truncate" /\ syncing'[s].kept = kept
      /\ syncing'[s].folders = syncing[s].folders /\ syncing'[s].alone = syncing[s].alone
  BY <1>3, <1>4, SyncMoves
<1>7. Undisturbed'
  BY <1>5, <1>6 DEF ReadWorkspace, WorkspaceIInv, Undisturbed
<1>8. Alone'
  BY <1>6 DEF ReadWorkspace, WorkspaceIInv, Alone
<1>9. QED
  BY <1>6, <1>7, <1>8 DEF ReadWorkspace, WorkspaceIInv

LEMMA EmptyKeeps ==
  ASSUME WorkspaceIInv, NEW s \in Syncs, Empty(s)
  PROVE  WorkspaceIInv'
<1>1. workspace' \in FileShape /\ workspace'.kind = "torn"
  BY DEF Empty, Absent, FileShape
<1>2. [syncing[s] EXCEPT !.step = "fill"] \in SyncShape
  BY DEF SyncShape, WorkspaceIInv
<1>3. /\ syncing' \in [Syncs -> SyncShape] /\ \A t \in Syncs \ {s} : syncing'[t] = syncing[t]
      /\ syncing'[s] = [syncing[s] EXCEPT !.step = "fill"]
  BY <1>2 DEF Empty, WorkspaceIInv
<1>4. /\ syncing'[s].step = "fill" /\ syncing'[s].kept = syncing[s].kept
      /\ syncing'[s].folders = syncing[s].folders /\ syncing'[s].alone = syncing[s].alone
  BY <1>3 DEF SyncShape, WorkspaceIInv
<1>5. Undisturbed'
  BY <1>1, <1>3, <1>4 DEF Empty, WorkspaceIInv, Undisturbed
<1>6. Alone'
  BY <1>1, <1>3, <1>4 DEF Empty, WorkspaceIInv, Alone
<1>7. QED
  BY <1>1, <1>3, <1>5, <1>6 DEF Empty, WorkspaceIInv

\* The process that filled the file, or died, is idle again.
LEMMA EndKeeps ==
  ASSUME WorkspaceIInv, NEW s \in Syncs, FillWorkspace(s) \/ SyncDies(s)
  PROVE  WorkspaceIInv'
<1>1. NotSyncing \in SyncShape /\ NotSyncing.step = "idle" /\ syncing[s] \in SyncShape
  BY DEF NotSyncing, SyncShape, Absent, FileShape, WorkspaceIInv
<1>2. /\ syncing' \in [Syncs -> SyncShape] /\ \A t \in Syncs \ {s} : syncing'[t] = syncing[t]
      /\ syncing'[s] = NotSyncing
  BY <1>1, SyncMoves DEF FillWorkspace, SyncDies
<1>3. CASE FillWorkspace(s)
  <2>1. /\ workspace' \in FileShape /\ workspace'.kind = "whole"
        /\ workspace'.settings = syncing[s].kept.settings
    <3>1. syncing[s].kept \in FileShape /\ syncing[s].folders \in SUBSET Worktrees
      BY <1>1 DEF SyncShape
    <3>2. QED
      BY <1>3, <3>1 DEF FillWorkspace, MergedFile, FileShape
  <2>2. Undisturbed'
    BY <1>1, <1>2, <1>3, <2>1 DEF FillWorkspace, WorkspaceIInv, Undisturbed
  <2>3. Alone'
    BY <1>1, <1>2, <1>3, <2>1 DEF FillWorkspace, WorkspaceIInv, Alone
  <2>4. QED
    BY <1>2, <1>3, <2>1, <2>2, <2>3 DEF FillWorkspace, WorkspaceIInv
<1>4. CASE SyncDies(s)
  <2>1. Undisturbed'
    <3>1. ~disturbed' => ~disturbed /\ syncing[s].step # "fill"
      BY <1>4 DEF SyncDies
    <3>2. UNCHANGED <<workspace, chosen, unparsed>>
      BY <1>4 DEF SyncDies
    <3>3. QED
      BY <1>1, <1>2, <3>1, <3>2 DEF WorkspaceIInv, Undisturbed
  <2>2. Alone'
    BY <1>1, <1>2, <1>4 DEF SyncDies, WorkspaceIInv, Alone
  <2>3. QED
    BY <1>2, <1>4, <2>1, <2>2 DEF SyncDies, WorkspaceIInv
<1>5. QED
  BY <1>3, <1>4

LEMMA WorkspaceStepKeeps == WorkspaceIInv /\ [WorkspaceNext]_workspaceVars => WorkspaceIInv'
<1> SUFFICES ASSUME WorkspaceIInv, [WorkspaceNext]_workspaceVars PROVE WorkspaceIInv'
  OBVIOUS
<1>1. CASE UNCHANGED workspaceVars
  BY <1>1 DEF workspaceVars, WorkspaceIInv, Undisturbed, Alone
<1>2. QED
  BY <1>1, OutsideKeeps, ListKeeps, ReadKeeps, EmptyKeeps, EndKeeps DEF WorkspaceNext

\* A process that was alone and ends with a whole file has filled it with git's list.
LEMMA RepairingStep ==
  WorkspaceIInv /\ [WorkspaceNext]_workspaceVars =>
      \A s \in Syncs : syncing[s].step = "fill" /\ syncing[s].alone /\ syncing'[s].step = "idle"
            /\ workspace'.kind = "whole" => workspace'.folders = linked
<1> SUFFICES ASSUME WorkspaceIInv, WorkspaceNext, NEW s \in Syncs, syncing[s].step = "fill", syncing[s].alone,
                    syncing'[s].step = "idle", workspace'.kind = "whole"
             PROVE  workspace'.folders = linked
  BY DEF workspaceVars
<1>1. syncing[s] \in SyncShape /\ workspace.kind = "torn" /\ syncing[s].folders = linked
      /\ \A t \in Syncs \ {s} : syncing[t].step = "idle"
  BY DEF WorkspaceIInv, Alone
<1>2. PICK t \in Syncs : FillWorkspace(t)
  BY <1>1 DEF WorkspaceNext, ChangeWorktrees, SaveSettings, ListWorktrees, ReadWorkspace, Empty, SyncDies, Absent
<1>3. t = s
  BY <1>1, <1>2 DEF FillWorkspace
<1>4. QED
  BY <1>1, <1>2, <1>3 DEF FillWorkspace, MergedFile, SyncShape, FileShape

(* Whatever terminals sync at once, die or are overlapped by the user's own writes: unless
   two writers met, one was cut while it wrote or a sync read a file with comments the
   user's settings survive, and a sync that had the file to itself leaves git's list in
   it, even after all of those (workspace-sync.py, install-worktree-sync.sh). *)
THEOREM WorkspaceSurvives == WorkspaceSpec => WorkspaceKept
<1>1. WorkspaceIInv => (~disturbed /\ ~unparsed /\ workspace.kind # "torn" => workspace.settings = chosen)
  BY DEF WorkspaceIInv, Undisturbed
<1>2. WorkspaceIInv /\ [WorkspaceNext]_workspaceVars =>
        [\A s \in Syncs : syncing[s].step = "fill" /\ syncing[s].alone /\ syncing'[s].step = "idle"
            /\ workspace'.kind = "whole" => workspace'.folders = linked]_<<workspace, syncing>>
  BY RepairingStep
<1>3. QED
  BY InitWorkspaceIInv, WorkspaceStepKeeps, <1>1, <1>2, PTL DEF WorkspaceSpec, WorkspaceKept, SyncRepairs

----------------------------------------------------------------------------
(* Pricing: what a model is charged, and the daily check *)

Known == Prices \cup DOMAIN AliasTable

Skipped(p) ==
    /\ ended # None /\ ended \in Nat /\ proxy[p].since <= StaleAt
    /\ proxy[p].since - ended < Day

CheckSteps == {"down", "skipped", "checking", "drift", "nag", "quiet", "failed"}

\* The last charge is by the table, each complaint is of an id not complained of
\* before, and a proxy has skipped the check for a reason that still holds.
PricingIInv ==
    /\ rated = None \/ \E id \in ModelIds : rated = [id |-> id, row |-> IF Normalize(id.parts) \in Prices
                                                                      THEN Normalize(id.parts) ELSE Shadow]
    /\ rated # None /\ Normalize(rated.id.parts) \notin Prices => Normalize(rated.id.parts) \in warned
    /\ warnings \in Seq(warned) /\ IsInjective(warnings)
    /\ hour \in Nat /\ mtime = ended /\ ended \in Nat \cup {None} /\ (ended # None => ended <= hour)
    /\ proxy \in [Proxies -> [at : CheckSteps, since : Nat]]
    /\ \A p \in Proxies : proxy[p].at = "skipped" => Skipped(p)

LEMMA PricingConstants ==
  /\ Day \in Nat \ {0} /\ StaleAt \in Nat /\ None \notin Nat /\ MaxTime \in Nat
  /\ \A id \in ModelIds : id.parts \in Seq(STRING) /\ id.parts # <<>>
  BY PricingAssumption, MaxTimeAssumption

\* No id that the table knows has a date at its end, and each has two parts or more.
LEMMA KnownIds ==
  /\ \A k \in Known : Len(k) \in Nat /\ Len(k) >= 2 /\ k[Len(k)] # "20260416"
  /\ \A k \in DOMAIN AliasTable : AliasTable[k] \in Prices
  /\ Shadow \in Prices
<1>1. ASSUME NEW k \in Known PROVE Len(k) \in Nat /\ Len(k) >= 2 /\ k[Len(k)] # "20260416"
  <2>1. CASE k \in Prices
    <3>1. ASSUME NEW w, NEW v, NEW x, k = <<"claude", w, v, x>>, x # "20260416" PROVE Len(k) = 4 /\ k[4] # "20260416"
      BY <3>1
    <3>2. ASSUME NEW w, NEW v, k = <<"claude", w, v>>, v # "20260416" PROVE Len(k) = 3 /\ k[3] # "20260416"
      BY <3>2
    <3>3. \/ \E w, v, x : k = <<"claude", w, v, x>> /\ x # "20260416"
          \/ \E w, v : k = <<"claude", w, v>> /\ v # "20260416"
      BY <2>1 DEF Prices
    <3>4. (Len(k) = 4 /\ k[4] # "20260416") \/ (Len(k) = 3 /\ k[3] # "20260416")
      BY <3>1, <3>2, <3>3
    <3> QED
      BY <3>4
  <2>2. CASE k \in DOMAIN AliasTable
    <3>1. ASSUME NEW a \in Aliases PROVE (Len(a[1]) = 3 /\ a[1][3] # "20260416") \/ (Len(a[1]) = 2 /\ a[1][2] # "20260416")
      BY DEF Aliases
    <3>2. \E a \in Aliases : k = a[1]
      BY <2>2 DEF AliasTable
    <3> QED
      BY <3>1, <3>2
  <2> QED
    BY <2>1, <2>2 DEF Known
<1>2. ASSUME NEW k \in DOMAIN AliasTable PROVE AliasTable[k] \in Prices
  <2>1. \A a \in Aliases : a[2] \in Prices
    BY DEF Aliases, Prices
  <2>2. k \in {a[1] : a \in Aliases}
    BY DEF AliasTable
  <2>3. PICK a \in Aliases : a[1] = k
    BY <2>2
  <2> DEFINE x == CHOOSE y \in Aliases : y[1] = k
  <2>4. x \in Aliases
    BY <2>3
  <2>5. AliasTable[k] = x[2]
    BY <2>2 DEF AliasTable
  <2> QED
    BY <2>1, <2>4, <2>5
<1>3. Shadow \in Prices
  BY DEF Shadow, Prices
<1> QED
  BY <1>1, <1>2, <1>3

LEMMA FrontIs ==
  ASSUME NEW S, NEW s \in Seq(S), s # <<>>
  PROVE  Front(s) = SubSeq(s, 1, Len(s) - 1) /\ Len(Front(s)) = Len(s) - 1 /\ Last(s) = s[Len(s)]
<1>1. Len(s) \in Nat /\ Len(s) >= 1
  OBVIOUS
<1>2. Front(s) = SubSeq(s, 1, Len(s) - 1) /\ Last(s) = s[Len(s)]
  BY DEF Front, Last
<1>3. Len(SubSeq(s, 1, Len(s) - 1)) = Len(s) - 1
  BY <1>1
<1> QED
  BY <1>2, <1>3

\* The longest known prefix of an id that the table knows, dated or not, is that id.
LEMMA NormalizeFinds ==
  ASSUME NEW parts \in Seq(STRING), parts # <<>>,
         NEW u \in Known, u = parts \/ (u = Front(parts) /\ Last(parts) = "20260416")
  PROVE  Normalize(parts) = IF u \in Prices THEN u ELSE AliasTable[u]
<1> DEFINE isKnown == {n \in 2..Len(parts) : SubSeq(parts, 1, n) \in Known}
           longest == CHOOSE n \in isKnown : \A k \in isKnown : k <= n
<1>1. Len(parts) \in Nat /\ Len(parts) >= 1
  OBVIOUS
<1>8. SubSeq(parts, 1, Len(parts)) = parts
  OBVIOUS
<1>2. Len(u) \in Nat /\ Len(u) >= 2 /\ u[Len(u)] # "20260416"
  BY KnownIds
<1>3. \E n \in isKnown : SubSeq(parts, 1, n) = u /\ \A k \in isKnown : k <= n
  <2>1. CASE u = parts
    <3>1. Len(parts) \in isKnown
      <4>1. Len(parts) \in 2..Len(parts)
        BY <2>1, <1>1, <1>2
      <4> QED
        BY <4>1, <2>1, <1>8
    <3>2. \A k \in isKnown : k <= Len(parts)
      BY <1>1
    <3> QED
      BY <2>1, <3>1, <3>2, <1>8
  <2>2. CASE u = Front(parts) /\ Last(parts) = "20260416"
    <3>1. u = SubSeq(parts, 1, Len(parts) - 1) /\ Len(u) = Len(parts) - 1 /\ parts[Len(parts)] = "20260416"
      BY <2>2, FrontIs
    <3>2. Len(parts) - 1 \in isKnown
      <4>1. Len(parts) - 1 \in 2..Len(parts)
        BY <3>1, <1>1, <1>2
      <4> QED
        BY <4>1, <3>1
    <3>3. parts \notin Known
      BY <3>1, KnownIds
    <3>4. \A k \in isKnown : k # Len(parts) /\ k \in 2..Len(parts)
      BY <3>3, <1>8
    <3>5. \A k \in isKnown : k <= Len(parts) - 1
      <4> HIDE DEF isKnown
      <4> QED
        BY <3>4, <1>1
    <3> QED
      BY <3>1, <3>2, <3>5
  <2> QED
    BY <2>1, <2>2
<1>4. longest \in isKnown /\ \A k \in isKnown : k <= longest
  BY <1>3
<1>5. SubSeq(parts, 1, longest) = u
  <2>1. PICK n \in isKnown : SubSeq(parts, 1, n) = u /\ \A k \in isKnown : k <= n
    BY <1>3
  <2>2. n = longest
    <3>1. n <= longest /\ longest <= n /\ n \in Int /\ longest \in Int
      BY <1>4, <2>1
    <3> HIDE DEF longest
    <3> QED
      BY <3>1
  <2> QED
    BY <2>1, <2>2
<1>6. isKnown # {}
  BY <1>4
<1>7. Normalize(parts) = IF isKnown = {} THEN parts ELSE IF SubSeq(parts, 1, longest) \in Prices THEN SubSeq(parts, 1, longest)
                                                 ELSE AliasTable[SubSeq(parts, 1, longest)]
  BY DEF Normalize, Known
<1> HIDE DEF isKnown, longest
<1> QED
  BY <1>5, <1>6, <1>7

LEMMA InitPricingIInv == PricingInit => PricingIInv
<1> SUFFICES ASSUME PricingInit PROVE PricingIInv
  OBVIOUS
<1>1. warnings \in Seq(warned) /\ IsInjective(warnings)
  BY DEF PricingInit, IsInjective
<1> QED
  BY <1>1 DEF PricingInit, PricingIInv, CheckSteps

LEMMA ChargeKeeps ==
  ASSUME PricingIInv, NEW id \in ModelIds, Charge(id)
  PROVE  PricingIInv'
<1> DEFINE key == Normalize(id.parts)
<1>1. rated' = [id |-> id, row |-> IF key \in Prices THEN key ELSE Shadow] /\ UNCHANGED <<mtime, proxy, ended, hour>>
  BY DEF Charge, checkVars
<1>2. warnings' \in Seq(warned') /\ IsInjective(warnings')
  <2>1. CASE key \in Prices \cup warned
    BY <2>1 DEF Charge, PricingIInv
  <2>2. CASE key \notin Prices \cup warned
    <3>1. warned' = warned \cup {key} /\ warnings' = Append(warnings, key)
      BY <2>2 DEF Charge, Remember
    <3>2. warnings \in Seq(warned) /\ IsInjective(warnings)
      BY DEF PricingIInv
    <3> HIDE DEF key
    <3>3. warnings \in Seq(warned')
      BY <3>1, <3>2
    <3>4. warnings' \in Seq(warned') /\ DOMAIN warnings' = 1..(Len(warnings) + 1) /\ warnings'[Len(warnings) + 1] = key
          /\ \A i \in 1..Len(warnings) : warnings'[i] = warnings[i] /\ warnings[i] \in warned
      BY <3>1, <3>2, <3>3
    <3>5. ASSUME NEW i \in DOMAIN warnings', NEW j \in DOMAIN warnings', warnings'[i] = warnings'[j] PROVE i = j
      <4>1. Len(warnings) \in Nat /\ DOMAIN warnings = 1..Len(warnings)
        BY <3>2
      <4>2. CASE i <= Len(warnings) /\ j <= Len(warnings)
        BY <4>1, <4>2, <3>2, <3>4, <3>5 DEF IsInjective
      <4>3. CASE i = Len(warnings) + 1 /\ j = Len(warnings) + 1
        BY <4>3
      <4>4. CASE i <= Len(warnings) /\ j = Len(warnings) + 1
        BY <4>1, <4>4, <3>4, <3>5, <2>2
      <4>5. CASE i = Len(warnings) + 1 /\ j <= Len(warnings)
        BY <4>1, <4>5, <3>4, <3>5, <2>2
      <4> QED
        BY <4>1, <4>2, <4>3, <4>4, <4>5, <3>4
    <3> QED
      BY <3>4, <3>5 DEF IsInjective
  <2> QED
    BY <2>1, <2>2
<1>3. \A p \in Proxies : Skipped(p)' = Skipped(p)
  BY <1>1 DEF Skipped
<1>4. rated'.id = id /\ (key \notin Prices => key \in warned')
  <2>1. IF key \in Prices \cup warned THEN UNCHANGED warned ELSE warned' = warned \cup {key}
    BY DEF Charge, Remember
  <2> HIDE DEF key
  <2>2. rated'.id = id
    BY <1>1
  <2> QED
    BY <2>1, <2>2
<1> QED
  BY <1>1, <1>2, <1>3, <1>4 DEF PricingIInv

LEMMA ProxyKeeps ==
  ASSUME PricingIInv, NEW p \in Proxies, StartProxy(p) \/ CheckerEnds(p) \/ CheckerTimesOut(p) \/ Stop(p)
  PROVE  PricingIInv'
<1>1. UNCHANGED <<rated, warned, warnings, hour>> /\ hour \in Nat
  BY DEF StartProxy, CheckerEnds, CheckerTimesOut, Stop, ratingVars, PricingIInv
<1>2. /\ mtime' = ended' /\ ended' \in Nat \cup {None} /\ (ended' # None => ended' <= hour)
      /\ ended # None => ended' # None /\ ended' >= ended
  BY <1>1, PricingConstants DEF PricingIInv, StartProxy, CheckerEnds, CheckerTimesOut, Stop, Touch
<1>3. PICK s \in CheckSteps :
        /\ proxy' = [proxy EXCEPT ![p] = [at |-> s, since |-> hour]]
        /\ s = "skipped" => MaySkip /\ UNCHANGED ended
  <2>1. CASE StartProxy(p)
    BY <2>1 DEF StartProxy, Becomes, CheckSteps
  <2>2. CASE CheckerEnds(p)
    <3>1. \E s \in {"drift", "nag", "quiet"} : Becomes(p, s)
      BY <2>2 DEF CheckerEnds
    <3> QED
      BY <3>1 DEF Becomes, CheckSteps
  <2>3. CASE CheckerTimesOut(p)
    BY <2>3 DEF CheckerTimesOut, Becomes, CheckSteps
  <2>4. CASE Stop(p)
    BY <2>4 DEF Stop, Becomes, CheckSteps
  <2> QED
    BY <2>1, <2>2, <2>3, <2>4
<1>6. /\ proxy \in [Proxies -> [at : CheckSteps, since : Nat]]
      /\ \A q \in Proxies : proxy[q].at = "skipped" => Skipped(q)
      /\ mtime = ended /\ ended \in Nat \cup {None}
  BY DEF PricingIInv
<1>4. proxy' \in [Proxies -> [at : CheckSteps, since : Nat]]
  <2>1. [at |-> s, since |-> hour] \in [at : CheckSteps, since : Nat]
    BY <1>1
  <2> QED
    BY <2>1, <1>3, <1>6
<1>5. ASSUME NEW q \in Proxies, proxy'[q].at = "skipped" PROVE Skipped(q)'
  <2>1. CASE q # p
    <3>1. proxy'[q] = proxy[q] /\ Skipped(q) /\ proxy[q].since \in Nat
      BY <2>1, <1>3, <1>5, <1>6
    <3>2. ended \in Nat /\ ended' \in Nat /\ ended' # None /\ ended' >= ended
      BY <3>1, <1>2 DEF Skipped
    <3> QED
      BY <3>1, <3>2, PricingConstants DEF Skipped
  <2>2. CASE q = p
    <3>1. s = "skipped" /\ proxy'[q].since = hour
      BY <2>2, <1>3, <1>5, <1>6
    <3>2. ended # None /\ ended \in Nat /\ hour - ended < Day /\ hour <= StaleAt /\ ended' = ended
      BY <3>1, <1>1, <1>3, <1>6, PricingConstants DEF MaySkip, Stale
    <3> QED
      BY <3>1, <3>2 DEF Skipped
  <2> QED
    BY <2>1, <2>2
<1> QED
  BY <1>1, <1>2, <1>4, <1>5 DEF PricingIInv

LEMMA PricingStepKeeps == PricingIInv /\ [RatingNext \/ CheckNext]_pricingVars => PricingIInv'
<1> SUFFICES ASSUME PricingIInv, [RatingNext \/ CheckNext]_pricingVars PROVE PricingIInv'
  OBVIOUS
<1>1. CASE RatingNext
  BY <1>1, ChargeKeeps DEF RatingNext
<1>2. ASSUME NEW p \in Proxies, StartProxy(p) \/ CheckerEnds(p) \/ CheckerTimesOut(p) \/ Stop(p) PROVE PricingIInv'
  BY <1>2, ProxyKeeps
<1>3. CASE HourPasses
  <2>1. hour' = hour + 1 /\ UNCHANGED <<rated, warned, warnings, mtime, proxy, ended>>
    BY <1>3 DEF HourPasses, ratingVars, checkVars
  <2> QED
    BY <2>1 DEF PricingIInv, Skipped
<1>4. CASE WorldChanges \/ UNCHANGED pricingVars
  <2>1. UNCHANGED <<rated, warned, warnings, mtime, proxy, ended, hour>>
    BY <1>4 DEF WorldChanges, pricingVars, ratingVars, checkVars
  <2> QED
    BY <2>1 DEF PricingIInv, Skipped
<1> QED
  BY <1>1, <1>2, <1>3, <1>4 DEF CheckNext

(* Whatever ids are charged and whatever the proxies and the world do: an id is charged at
   the row it names, each unknown one is complained of once, and the check for drift is
   skipped only within a day of one that ended (claude_rate, maybe_run_pricing_check). *)
THEOREM PricesAreRight == PricingSpec => []PricedRight
<1>1. PricingIInv => PricedRight
  <2> SUFFICES ASSUME PricingIInv PROVE PricedRight
    OBVIOUS
  <2>1. ChargedAsNamed
    <3> SUFFICES ASSUME rated # None
                 PROVE  /\ rated.row \in Prices
                        /\ ReferenceRow(rated.id.parts) # None => rated.row = ReferenceRow(rated.id.parts)
                        /\ (\A n \in 2..Len(rated.id.parts) :
                                SubSeq(rated.id.parts, 1, n) \notin Prices \cup DOMAIN AliasTable)
                              => rated.row = Shadow /\ rated.id.parts \in warned
      BY DEF ChargedAsNamed
    <3>1. PICK id \in ModelIds : rated = [id |-> id, row |-> IF Normalize(id.parts) \in Prices
                                                           THEN Normalize(id.parts) ELSE Shadow]
      BY DEF PricingIInv
    <3>2. rated.id = id /\ rated.row = IF Normalize(id.parts) \in Prices THEN Normalize(id.parts) ELSE Shadow
      BY <3>1
    <3>3. rated.row \in Prices
      BY <3>2, KnownIds
    <3>4. ASSUME ReferenceRow(id.parts) # None PROVE Normalize(id.parts) = ReferenceRow(id.parts) /\ ReferenceRow(id.parts) \in Prices
      <4> DEFINE u == IF Last(id.parts) = "20260416" THEN Front(id.parts) ELSE id.parts
      <4>1. u \in Known /\ ReferenceRow(id.parts) = IF u \in Prices THEN u ELSE AliasTable[u]
        BY <3>4 DEF ReferenceRow, Known
      <4>2. u = id.parts \/ (u = Front(id.parts) /\ Last(id.parts) = "20260416")
        OBVIOUS
      <4> HIDE DEF u
      <4>3. Normalize(id.parts) = IF u \in Prices THEN u ELSE AliasTable[u]
        BY <4>1, <4>2, NormalizeFinds, PricingConstants
      <4>4. u \in Prices \/ u \in DOMAIN AliasTable
        BY <4>1 DEF Known
      <4> QED
        BY <4>1, <4>3, <4>4, KnownIds
    <3>5. ASSUME \A n \in 2..Len(id.parts) : SubSeq(id.parts, 1, n) \notin Prices \cup DOMAIN AliasTable
          PROVE  rated.row = Shadow /\ id.parts \in warned
      <4>1. Normalize(id.parts) = id.parts
        BY <3>5 DEF Normalize
      <4>2. id.parts \notin Prices
        <5>1. id.parts \in Seq(STRING) /\ id.parts # <<>>
          BY PricingConstants
        <5>2. CASE Len(id.parts) \in 2..Len(id.parts)
          <6>1. SubSeq(id.parts, 1, Len(id.parts)) = id.parts
            BY <5>1
          <6> QED
            BY <3>5, <5>2, <6>1
        <5>3. CASE Len(id.parts) \notin 2..Len(id.parts)
          BY <5>1, <5>3, KnownIds DEF Known
        <5> QED
          BY <5>2, <5>3
      <4> QED
        BY <3>2, <4>1, <4>2 DEF PricingIInv
    <3> QED
      BY <3>2, <3>3, <3>4, <3>5
  <2>2. WarnedOnce
    BY DEF WarnedOnce, PricingIInv
  <2>3. SkipIsJustified
    BY DEF SkipIsJustified, PricingIInv, Skipped
  <2> QED
    BY <2>1, <2>2, <2>3 DEF PricedRight
<1>2. QED
  BY InitPricingIInv, PricingStepKeeps, <1>1, PTL DEF PricingSpec

\* Every set of numbers that has an element has a least one: finite sets of numbers are
\* well founded, and 1..n grows with n.
LEMMA LeastNumber ==
  ASSUME NEW S \in SUBSET Nat, S # {}
  PROVE \E n \in S : \A m \in S : n <= m
<1> DEFINE T == {1..n : n \in S}
           Order == StrictSubsetOrdering(Nat)
<1>1. T \subseteq FiniteSubsetsOf(Nat) /\ T # {}
  <2>1. ASSUME NEW n \in S PROVE 1..n \in FiniteSubsetsOf(Nat)
    <3>1. IsFiniteSet(1..n) /\ 1..n \subseteq Nat
      BY FS_Interval
    <3>2. QED
      BY <3>1 DEF FiniteSubsetsOf
  <2>2. QED
    BY <2>1
<1>2. IsWellFoundedOn(Order, FiniteSubsetsOf(Nat))
  BY FS_StrictSubsetOrderingWellFounded
<1>3. PICK x \in T : \A y \in T : ~(<<y, x>> \in Order)
  <2> HIDE DEF T, Order
  <2>1. QED
    BY <1>1, <1>2, WFMin
<1>4. PICK n \in S : x = 1..n
  OBVIOUS
<1>5. ASSUME NEW m \in S, m < n PROVE FALSE
  <2>1. 1..m \in T /\ 1..m \subseteq x /\ n \in x /\ n \notin 1..m /\ x \subseteq Nat
    BY <1>4, <1>5
  <2>2. <<1..m, x>> \in Order
    BY <2>1 DEF StrictSubsetOrdering
  <2>3. QED
    BY <1>3, <2>1, <2>2
<1>6. QED
  BY <1>5

----------------------------------------------------------------------------
(* BugMatch: reports and the bugs they find *)

Fitness == {"none", "medium", "strong"}
Reports == DOMAIN fits

\* What has been graded: a report that found a bug fits it, no two found the same, and
\* one that found none fits only bugs that others had found by then.
MatchIInv ==
    /\ fits \in Seq([Bugs -> Fitness])
    /\ matched \in Seq(Bugs \cup {None}) /\ Len(matched) <= Len(fits)
    /\ \A r \in DOMAIN matched : matched[r] # None => fits[r][matched[r]] # "none"
    /\ \A r, q \in DOMAIN matched : matched[r] = matched[q] /\ matched[r] # None => r = q
    /\ \A r \in DOMAIN matched : matched[r] = None =>
          \A b \in Bugs : fits[r][b] # "none" => b \in MatchedIds

LEMMA MatchConstants == Truth \in Nat /\ ReportsMax \in Nat /\ None \notin Bugs /\ Bugs \subseteq Nat
  BY MatchAssumption DEF Bugs

LEMMA InitMatchIInv == MatchInit => MatchIInv
<1> SUFFICES ASSUME MatchInit PROVE MatchIInv
  OBVIOUS
<1>1. PICK n \in 0..ReportsMax : fits \in [1..n -> [Bugs -> Fitness]]
  BY DEF MatchInit, Fitness
<1>2. fits \in Seq([Bugs -> Fitness])
  BY <1>1, MatchConstants
<1>3. matched = <<>> /\ Len(fits) \in Nat
  BY <1>2 DEF MatchInit
<1> QED
  BY <1>2, <1>3 DEF MatchIInv

\* A set of numbers with an element has a least one, which Min gives.
LEMMA LeastBug ==
  ASSUME NEW S \in SUBSET Bugs, S # {}
  PROVE  Min(S) \in S
<1>1. \E n \in S : \A m \in S : n <= m
  <2>1. S \in SUBSET Nat
    BY MatchConstants
  <2> QED
    BY <2>1, LeastNumber
<1> QED
  BY <1>1 DEF Min

\* The best of the open bugs fits, and there is none only if none that is open fits.
LEMMA BestIs ==
  ASSUME MatchIInv, NEW r \in DOMAIN fits
  PROVE  \/ Best(r) \in Bugs \ MatchedIds /\ fits[r][Best(r)] # "none"
         \/ Best(r) = None /\ \A b \in Bugs \ MatchedIds : fits[r][b] = "none"
<1>1. \A kind : Open(r, kind) \in SUBSET Bugs /\ \A b \in Open(r, kind) : b \in Bugs \ MatchedIds /\ fits[r][b] = kind
  BY DEF Open
<1>2. CASE Open(r, "strong") # {}
  BY <1>1, <1>2, LeastBug DEF Best
<1>3. CASE Open(r, "strong") = {} /\ Open(r, "medium") # {}
  BY <1>1, <1>3, LeastBug DEF Best
<1>4. CASE Open(r, "strong") = {} /\ Open(r, "medium") = {}
  <2>1. \A b \in Bugs : fits[r][b] \in Fitness
    BY DEF MatchIInv
  <2> QED
    BY <1>4, <2>1 DEF Best, Open, Fitness
<1> QED
  BY <1>2, <1>3, <1>4

LEMMA GradeKeeps == MatchIInv /\ GradeReport => MatchIInv'
<1> SUFFICES ASSUME MatchIInv, GradeReport PROVE MatchIInv'
  OBVIOUS
<1> DEFINE r == Len(matched) + 1
           best == Best(r)
<1>1. /\ r \in DOMAIN fits /\ matched' = Append(matched, best) /\ UNCHANGED fits
      /\ matched \in Seq(Bugs \cup {None}) /\ Len(matched) \in Nat /\ fits \in Seq([Bugs -> Fitness])
  BY DEF GradeReport, MatchIInv
<1>2. \/ best \in Bugs \ MatchedIds /\ fits[r][best] # "none"
      \/ best = None /\ \A b \in Bugs \ MatchedIds : fits[r][b] = "none"
  BY <1>1, BestIs
<1> HIDE DEF best
<1>3. /\ matched' \in Seq(Bugs \cup {None}) /\ DOMAIN matched' = 1..r /\ Len(matched') = r /\ matched'[r] = best
      /\ \A q \in 1..Len(matched) : matched'[q] = matched[q]
  BY <1>1, <1>2
<1>4. DOMAIN matched = 1..Len(matched) /\ r <= Len(fits)
  BY <1>1
<1>5. MatchedIds' = MatchedIds \cup ({best} \ {None})
  <2>1. \A b : b \in MatchedIds' <=> b # None /\ \E q \in 1..r : matched'[q] = b
    BY <1>3 DEF MatchedIds
  <2>2. \A b : b \in MatchedIds <=> b # None /\ \E q \in 1..Len(matched) : matched[q] = b
    BY <1>4 DEF MatchedIds
  <2>3. \A q : q \in 1..r <=> q \in 1..Len(matched) \/ q = r
    BY <1>1
  <2> QED
    BY <2>1, <2>2, <2>3, <1>3
<1>6. \A q \in DOMAIN matched : matched[q] # None => matched[q] \in MatchedIds
  BY DEF MatchedIds
<1>7. \A q \in DOMAIN matched' : (q \in DOMAIN matched /\ matched'[q] = matched[q]) \/ (q = r /\ matched'[q] = best)
  BY <1>1, <1>3, <1>4
<1>8. \A q \in DOMAIN matched' : matched'[q] # None => fits[q][matched'[q]] # "none"
  BY <1>7, <1>2 DEF MatchIInv
<1>9. \A q, p \in DOMAIN matched' : matched'[q] = matched'[p] /\ matched'[q] # None => q = p
  BY <1>7, <1>2, <1>6 DEF MatchIInv
<1>10. \A q \in DOMAIN matched' : matched'[q] = None => \A b \in Bugs : fits[q][b] # "none" => b \in MatchedIds'
  <2> SUFFICES ASSUME NEW q \in DOMAIN matched', matched'[q] = None, NEW b \in Bugs, fits[q][b] # "none"
               PROVE  b \in MatchedIds'
    BY <1>1
  <2>1. CASE q \in DOMAIN matched /\ matched'[q] = matched[q]
    <3>1. q \in DOMAIN matched /\ matched[q] = None
      BY <2>1
    <3>2. b \in MatchedIds
      BY <3>1 DEF MatchIInv
    <3> QED
      BY <3>2, <1>5
  <2>2. CASE q = r /\ matched'[q] = best
    <3>1. best = None /\ q = r
      BY <2>2
    <3>2. b \in MatchedIds
      BY <3>1, <1>2, MatchConstants
    <3> QED
      BY <3>2, <1>5
  <2> QED
    BY <1>7, <2>1, <2>2
<1> QED
  BY <1>1, <1>3, <1>4, <1>8, <1>9, <1>10 DEF MatchIInv

LEMMA MatchStepKeeps == MatchIInv /\ [MatchNext]_matchVars => MatchIInv'
  BY GradeKeeps DEF MatchNext, matchVars, MatchIInv, MatchedIds

\* Reports that found a bug and bugs found are as many.
LEMMA ReportsAreBugs ==
  ASSUME MatchIInv
  PROVE  /\ IsFiniteSet(MatchedReports) /\ IsFiniteSet(MatchedIds)
         /\ Cardinality(MatchedReports) = Cardinality(MatchedIds) /\ Cardinality(MatchedIds) \in Nat
<1> DEFINE f == [r \in MatchedReports |-> matched[r]]
<1>1. f \in Bijection(MatchedReports, MatchedIds)
  <2>1. \A r \in MatchedReports : r \in DOMAIN matched /\ matched[r] # None /\ f[r] \in MatchedIds
    BY DEF MatchedReports, MatchedIds
  <2>2. \A r, q \in MatchedReports : f[r] = f[q] => r = q
    BY <2>1 DEF MatchIInv
  <2>3. \A b \in MatchedIds : \E r \in MatchedReports : f[r] = b
    BY DEF MatchedReports, MatchedIds
  <2> QED
    BY <2>1, <2>2, <2>3 DEF Bijection, Injection, Surjection, IsInjective
<1>2. IsFiniteSet(MatchedReports)
  <2>1. MatchedReports \subseteq 1..Len(matched) /\ Len(matched) \in Nat
    BY DEF MatchedReports, MatchIInv
  <2>2. IsFiniteSet(1..Len(matched)) /\ MatchedReports \in SUBSET (1..Len(matched))
    BY <2>1, FS_Interval
  <2> QED
    BY <2>2, FS_Subset
<1>3. ExistsBijection(MatchedReports, MatchedIds)
  BY <1>1 DEF ExistsBijection
<1> HIDE DEF f
<1> QED
  BY <1>2, <1>3, FS_Bijection, FS_CardinalityType

\* A pairing's reports found a bug, or the bug it pairs them with was found.
LEMMA PairsAreHalf ==
  ASSUME MatchIInv, Graded, NEW p \in Pairings
  PROVE  Cardinality({r \in DOMAIN p : p[r] # None}) <= 2 * Cardinality(MatchedReports)
<1> DEFINE paired == {r \in DOMAIN p : p[r] # None}
           taken == {r \in paired : p[r] \in MatchedIds}
           f == [r \in taken |-> p[r]]
<1>1. /\ DOMAIN p = DOMAIN fits /\ DOMAIN matched = DOMAIN fits
      /\ \A r \in DOMAIN p : p[r] # None => p[r] \in Bugs /\ fits[r][p[r]] # "none"
      /\ \A r, q \in DOMAIN p : p[r] = p[q] /\ p[r] # None => r = q
  BY DEF Pairings, Graded, MatchIInv
<1>2. paired \subseteq MatchedReports \cup taken
  BY <1>1 DEF MatchedReports, MatchIInv
<1>3. IsFiniteSet(taken) /\ Cardinality(taken) <= Cardinality(MatchedIds) /\ Cardinality(taken) \in Nat
  <2>1. f \in Injection(taken, MatchedIds)
    BY <1>1 DEF Injection, IsInjective
  <2> HIDE DEF f, taken
  <2> QED
    BY <2>1, ReportsAreBugs, FS_Injection, FS_CardinalityType
<1>4. /\ IsFiniteSet(MatchedReports \cup taken)
      /\ Cardinality(MatchedReports \cup taken) <= Cardinality(MatchedReports) + Cardinality(taken)
  <2> HIDE DEF taken
  <2>1. /\ Cardinality(MatchedReports \cup taken) = Cardinality(MatchedReports) + Cardinality(taken) - Cardinality(MatchedReports \cap taken)
        /\ IsFiniteSet(MatchedReports \cup taken) /\ IsFiniteSet(MatchedReports \cap taken)
    BY <1>3, ReportsAreBugs, FS_Union, FS_Intersection
  <2>2. Cardinality(MatchedReports \cap taken) \in Nat
    BY <2>1, FS_CardinalityType
  <2> QED
    BY <2>1, <2>2, <1>3, ReportsAreBugs
<1>5. Cardinality(paired) <= Cardinality(MatchedReports \cup taken) /\ IsFiniteSet(paired)
  <2> HIDE DEF taken, paired
  <2> QED
    BY <1>2, <1>4, FS_Subset
<1>6. Cardinality(paired) \in Nat /\ Cardinality(MatchedReports \cup taken) \in Nat
  BY <1>4, <1>5, FS_CardinalityType
<1> HIDE DEF paired, taken
<1>7. Cardinality(paired) <= 2 * Cardinality(MatchedReports)
  BY <1>3, <1>4, <1>5, <1>6, ReportsAreBugs
<1> QED
  BY <1>7 DEF paired

\* No bug earns two reports a match, and the order of the reports leaves no pair that could
\* still be made and makes half of the best assignment at least.
LEMMA MatchingFair == MatchIInv => OneReportOneBug /\ MatchingIsMaximal
<1>1. MatchIInv => OneReportOneBug
  BY ReportsAreBugs DEF OneReportOneBug
<1>2. MatchIInv => MatchingIsMaximal
  <2> SUFFICES ASSUME MatchIInv, Graded PROVE
          /\ \A r \in DOMAIN fits \ MatchedReports : \A b \in Bugs \ MatchedIds : fits[r][b] = "none"
          /\ \A p \in Pairings : Cardinality({r \in DOMAIN p : p[r] # None}) <= 2 * Cardinality(MatchedReports)
    BY DEF MatchingIsMaximal
  <2>1. DOMAIN matched = DOMAIN fits
    BY DEF Graded, MatchIInv
  <2>2. \A r \in DOMAIN fits \ MatchedReports : \A b \in Bugs \ MatchedIds : fits[r][b] = "none"
    BY <2>1 DEF MatchedReports, MatchIInv
  <2> QED
    BY <2>2, PairsAreHalf
<1> QED
  BY <1>1, <1>2

\* A function of the numbers that is defined by what it is at 0 and how it goes on is
\* there: the solutions up to each number agree.
LEMMA RecursionExists ==
  ASSUME NEW A, NEW base \in A, NEW step \in [A -> A]
  PROVE  \E g \in [Nat -> A] : \A n \in Nat : g[n] = IF n = 0 THEN base ELSE step[g[n - 1]]
<1> DEFINE Sol(n, g) == g \in [0..n -> A] /\ g[0] = base /\ \A i \in 1..n : g[i] = step[g[i - 1]]
<1>1. \A n \in Nat : \E g : Sol(n, g)
  <2> DEFINE bad == {n \in Nat : ~ \E g : Sol(n, g)}
  <2> SUFFICES ASSUME bad # {} PROVE FALSE
    OBVIOUS
  <2>1. PICK n \in bad : \A m \in bad : n <= m
    <3>1. bad \in SUBSET Nat
      OBVIOUS
    <3> HIDE DEF bad
    <3> QED
      BY <3>1, LeastNumber
  <2>2. CASE n = 0
    <3>1. Sol(0, [i \in 0..0 |-> base])
      OBVIOUS
    <3> QED
      BY <3>1, <2>1, <2>2
  <2>3. CASE n > 0
    <3>1. n - 1 \in Nat /\ n - 1 \notin bad
      BY <2>1, <2>3
    <3>2. PICK g : Sol(n - 1, g)
      BY <3>1
    <3> DEFINE h == [i \in 0..n |-> IF i = n THEN step[g[n - 1]] ELSE g[i]]
    <3>3. h \in [0..n -> A] /\ h[0] = base
      BY <3>1, <3>2
    <3>4. \A i \in 1..n : h[i] = step[h[i - 1]]
      BY <3>1, <3>2
    <3> QED
      BY <3>3, <3>4, <2>1
  <2> QED
    BY <2>1, <2>2, <2>3
<1>2. ASSUME NEW n \in Nat, NEW m \in Nat, NEW g, NEW h, Sol(n, g), Sol(m, h)
      PROVE  \A i \in Nat : i <= n /\ i <= m => g[i] = h[i]
  <2> DEFINE bad == {i \in Nat : i <= n /\ i <= m /\ g[i] # h[i]}
  <2> SUFFICES ASSUME bad # {} PROVE FALSE
    OBVIOUS
  <2>1. PICK i \in bad : \A j \in bad : i <= j
    <3>1. bad \in SUBSET Nat
      OBVIOUS
    <3> HIDE DEF bad
    <3> QED
      BY <3>1, LeastNumber
  <2>2. i # 0
    BY <2>1, <1>2
  <2>3. i - 1 \in Nat /\ g[i - 1] = h[i - 1]
    BY <2>1, <2>2
  <2>4. g[i] = step[g[i - 1]] /\ h[i] = step[h[i - 1]]
    BY <2>1, <2>2, <1>2
  <2> QED
    BY <2>1, <2>3, <2>4
<1> DEFINE sol(n) == CHOOSE g : Sol(n, g)
           G == [n \in Nat |-> sol(n)[n]]
<1>3. \A n \in Nat : Sol(n, sol(n))
  BY <1>1
<1>4. \A n \in Nat : G[n] \in A /\ G[n] = IF n = 0 THEN base ELSE step[G[n - 1]]
  <2> SUFFICES ASSUME NEW n \in Nat PROVE G[n] \in A /\ G[n] = IF n = 0 THEN base ELSE step[G[n - 1]]
    OBVIOUS
  <2>0. \A m \in Nat : Sol(m, sol(m)) /\ G[m] = sol(m)[m]
    <3> HIDE DEF sol, Sol
    <3> QED
      BY <1>3
  <2>1. Sol(n, sol(n)) /\ G[n] = sol(n)[n]
    <3> HIDE DEF sol, Sol, G
    <3> QED
      BY <2>0
  <2>2. n # 0 => n - 1 \in Nat /\ Sol(n - 1, sol(n - 1)) /\ G[n - 1] = sol(n - 1)[n - 1]
    <3> HIDE DEF sol, Sol, G
    <3> QED
      BY <2>0
  <2>3. n # 0 => sol(n)[n - 1] = sol(n - 1)[n - 1]
    <3> HIDE DEF sol, Sol
    <3> QED
      BY <1>2, <2>1, <2>2
  <2> HIDE DEF sol, G
  <2> QED
    BY <2>1, <2>2, <2>3
<1>5. G \in [Nat -> A] /\ \A n \in Nat : G[n] = IF n = 0 THEN base ELSE step[G[n - 1]]
  <2> HIDE DEF sol
  <2> QED
    BY <1>4
<1> QED
  BY <1>5

----------------------------------------------------------------------------
(* JsonFinder: what json.loads accepts *)

Small(V, n) == {v \in V : Len(v) <= AnswerMax - n}
Wrap(V) ==
    V \cup {<<"{", "}">>, <<"[", "]">>}
    \cup {<<"[">> \o v \o <<"]">> : v \in Small(V, 2)}
    \cup {<<"{", "key">> \o v \o <<"}">> : v \in {w \in Small(V, 2) : Len(w) <= AnswerMax - 3}}
Simple == Scalars \cup Strings
NonEmptyText == {s \in Seq(Tokens) : Len(s) >= 1}

LEMMA SimpleAreWritten == Simple \in SUBSET NonEmptyText
<1>1. ASSUME NEW n \in Nat, NEW s \in [1..n -> Tokens \ {"quote", "key", "fence"}]
      PROVE  <<"quote">> \o s \o <<"quote">> \in NonEmptyText
  <2>1. <<"quote">> \in Seq(Tokens) /\ Len(<<"quote">>) = 1
    <3>1. "quote" \in Tokens
      BY DEF Tokens
    <3> QED
      BY <3>1
  <2>3. s \in Seq(Tokens)
    <3>1. s \in [1..n -> Tokens]
      OBVIOUS
    <3> QED
      BY <3>1
  <2>2. <<"quote">> \o s \in Seq(Tokens) /\ Len(<<"quote">> \o s) >= 1
    BY <2>1, <2>3, ConcatProperties
  <2> QED
    BY <2>1, <2>2, ConcatProperties DEF NonEmptyText
<1>2. Scalars \subseteq NonEmptyText
  BY DEF Scalars, NonEmptyText, Tokens
<1>3. \A n \in 0..AnswerMax - 4 : n \in Nat
  BY FinderAssumption
<1>4. Strings \subseteq NonEmptyText
  BY <1>1, <1>3 DEF Strings
<1> QED
  BY <1>2, <1>4 DEF Simple

LEMMA Single ==
  ASSUME NEW A, NEW a \in A
  PROVE  <<a>> \in Seq(A) /\ Len(<<a>>) = 1
OBVIOUS

LEMMA Pair ==
  ASSUME NEW A, NEW a \in A, NEW b \in A
  PROVE  <<a, b>> \in Seq(A) /\ Len(<<a, b>>) = 2
<1>1. <<a, b>> \in [1..2 -> A]
  OBVIOUS
<1> QED
  BY <1>1

LEMMA WrapIsWritten ==
  ASSUME NEW V \in SUBSET NonEmptyText
  PROVE  Wrap(V) \in SUBSET NonEmptyText
<1>1. ASSUME NEW v \in V, NEW l \in Seq(Tokens), NEW r \in Seq(Tokens) PROVE l \o v \o r \in NonEmptyText
  <2>1. v \in Seq(Tokens) /\ Len(v) >= 1
    BY DEF NonEmptyText
  <2>2. l \o v \in Seq(Tokens) /\ Len(l \o v) >= 1
    BY <2>1, ConcatProperties
  <2> QED
    BY <2>2, ConcatProperties DEF NonEmptyText
<1>2. <<"[">> \in Seq(Tokens) /\ <<"]">> \in Seq(Tokens)
  <2>1. "[" \in Tokens /\ "]" \in Tokens
    BY DEF Tokens
  <2> QED
    BY <2>1
<1>3. /\ <<"{", "key">> \in Seq(Tokens)
      /\ <<"}">> \in Seq(Tokens)
  <2>1. "{" \in Tokens /\ "key" \in Tokens /\ "}" \in Tokens
    BY DEF Tokens
  <2>2. <<"{", "key">> \in Seq(Tokens)
    BY <2>1, Pair, Zenon
  <2>3. <<"}">> \in Seq(Tokens)
    BY <2>1, Single, Zenon
  <2> QED
    BY <2>2, <2>3, Zenon
<1>4. <<"{", "}">> \in NonEmptyText /\ <<"[", "]">> \in NonEmptyText
  <2>1. "{" \in Tokens /\ "}" \in Tokens /\ "[" \in Tokens /\ "]" \in Tokens
    BY DEF Tokens
  <2> QED
    <3>1. \A a, b \in Tokens : <<a, b>> \in Seq(Tokens) /\ Len(<<a, b>>) >= 1
      BY Pair
    <3>2. \A a, b \in Tokens : <<a, b>> \in NonEmptyText
      BY <3>1, Zenon DEF NonEmptyText
    <3> QED
      BY <2>1, <3>2, Zenon
<1>5. \A v \in V : <<"[">> \o v \o <<"]">> \in NonEmptyText /\ <<"{", "key">> \o v \o <<"}">> \in NonEmptyText
  BY <1>1, <1>2, <1>3
<1>6. ASSUME NEW w \in Wrap(V) PROVE w \in NonEmptyText
  <2>1. \/ w \in V \/ w = <<"{", "}">> \/ w = <<"[", "]">>
        \/ \E v \in V : w = <<"[">> \o v \o <<"]">>
        \/ \E v \in V : w = <<"{", "key">> \o v \o <<"}">>
    BY Zenon DEF Wrap, Small
  <2> QED
    BY <2>1, <1>4, <1>5
<1> QED
  BY <1>6

\* The definition of Values has a solution, and so it is one.
LEMMA ValuesAre ==
  /\ Values \in [Nat -> SUBSET NonEmptyText]
  /\ \A n \in Nat : Values[n] = IF n = 0 THEN Simple ELSE Wrap(Values[n - 1])
<1> DEFINE Eq(g) == g = [n \in Nat |->
        IF n = 0 THEN Scalars \cup Strings
        ELSE LET inner == {v \in g[n - 1] : Len(v) <= AnswerMax - 2}
             IN  g[n - 1] \cup {<<"{", "}">>, <<"[", "]">>}
                 \cup {<<"[">> \o v \o <<"]">> : v \in inner}
                 \cup {<<"{", "key">> \o v \o <<"}">> : v \in {w \in inner : Len(w) <= AnswerMax - 3}}]
<1>1. Values = CHOOSE g : Eq(g)
  BY DEF Values
<1>2. ASSUME NEW g PROVE Eq(g) <=> g = [n \in Nat |-> IF n = 0 THEN Simple ELSE Wrap(g[n - 1])]
  BY DEF Simple, Wrap, Small
<1>3. \E g : Eq(g)
  <2> DEFINE texts == SUBSET NonEmptyText
             step == [V \in texts |-> Wrap(V)]
  <2>1. step \in [texts -> texts] /\ Simple \in texts
    BY WrapIsWritten, SimpleAreWritten
  <2>2. \A V \in texts : step[V] = Wrap(V)
    OBVIOUS
  <2> HIDE DEF texts, step
  <2>3. PICK g \in [Nat -> texts] : \A n \in Nat : g[n] = IF n = 0 THEN Simple ELSE step[g[n - 1]]
    BY <2>1, RecursionExists
  <2>5. \A n \in Nat : g[n] = IF n = 0 THEN Simple ELSE Wrap(g[n - 1])
    <3> SUFFICES ASSUME NEW n \in Nat PROVE g[n] = IF n = 0 THEN Simple ELSE Wrap(g[n - 1])
      OBVIOUS
    <3>1. g[n] = IF n = 0 THEN Simple ELSE step[g[n - 1]]
      BY <2>3
    <3>2. n # 0 => g[n - 1] \in texts
      BY <2>3
    <3> QED
      BY <3>1, <3>2, <2>2
  <2>4. g = [n \in Nat |-> IF n = 0 THEN Simple ELSE Wrap(g[n - 1])]
    BY <2>3, <2>5
  <2> QED
    BY <2>4, <1>2
<1> HIDE DEF Eq
<1>4. Values = [n \in Nat |-> IF n = 0 THEN Simple ELSE Wrap(Values[n - 1])]
  BY <1>1, <1>2, <1>3
<1>5. \A n \in Nat : Values[n] = IF n = 0 THEN Simple ELSE Wrap(Values[n - 1])
  BY <1>4
<1>6. \A n \in Nat : Values[n] \in SUBSET NonEmptyText
  <2> DEFINE bad == {n \in Nat : Values[n] \notin SUBSET NonEmptyText}
  <2> SUFFICES ASSUME bad # {} PROVE FALSE
    OBVIOUS
  <2>1. PICK n \in bad : \A m \in bad : n <= m
    <3>1. bad \in SUBSET Nat
      OBVIOUS
    <3> HIDE DEF bad
    <3> QED
      BY <3>1, LeastNumber
  <2>2. n # 0
    BY <2>1, <1>5, SimpleAreWritten
  <2>3. Values[n - 1] \in SUBSET NonEmptyText /\ Values[n] = Wrap(Values[n - 1])
    BY <2>1, <2>2, <1>5
  <2> QED
    BY <2>1, <2>3, WrapIsWritten
<1> QED
  BY <1>4, <1>5, <1>6

\* A part of a text that is made of three: where each of them is.
Sits(s, a, b, l, v, r) ==
    /\ b - a + 1 = Len(l) + Len(v) + Len(r)
    /\ \A i \in 1..Len(l) : s[a + i - 1] = l[i]
    /\ \A i \in 1..Len(v) : s[a + Len(l) + i - 1] = v[i]
    /\ \A i \in 1..Len(r) : s[b - Len(r) + i] = r[i]
    /\ Part(s, a + Len(l), b - Len(r)) = v

LEMMA SitsInside ==
  ASSUME NEW s \in Seq(Tokens), NEW a \in Nat, NEW b \in Nat, 1 <= a, a <= b, b <= Len(s),
         NEW l \in Seq(Tokens), NEW v \in Seq(Tokens), NEW r \in Seq(Tokens)
  PROVE  Part(s, a, b) = l \o v \o r => Sits(s, a, b, l, v, r)
<1>0. SUFFICES ASSUME Part(s, a, b) = l \o v \o r PROVE Sits(s, a, b, l, v, r)
  OBVIOUS
<1> DEFINE x == Part(s, a, b)
<1>1. Len(x) = b - a + 1 /\ \A i \in 1..(b - a + 1) : x[i] = s[a + i - 1]
  <2>1. a \in 1..Len(s) + 1 /\ b \in a - 1..Len(s)
    OBVIOUS
  <2> QED
    BY <2>1, SubSeqProperties DEF Part
<1> DEFINE h == l \o v
<1>2. h \in Seq(Tokens) /\ Len(h) = Len(l) + Len(v) /\ \A i \in 1..Len(h) : h[i] = IF i <= Len(l) THEN l[i] ELSE v[i - Len(l)]
  BY ConcatProperties
<1>3. /\ Len(x) = Len(h) + Len(r)
      /\ \A i \in 1..Len(h) + Len(r) : x[i] = IF i <= Len(h) THEN h[i] ELSE r[i - Len(h)]
  <2>1. x = h \o r
    BY <1>0, <1>2
  <2> HIDE DEF x, h
  <2> QED
    BY <1>2, <2>1, ConcatProperties
<1> HIDE DEF x, h
<1>4. Len(l) \in Nat /\ Len(v) \in Nat /\ Len(r) \in Nat /\ Len(h) \in Nat
  BY <1>2
<1>5. b - a + 1 = Len(l) + Len(v) + Len(r)
  BY <1>1, <1>2, <1>3
<1>6. \A i \in 1..Len(l) : s[a + i - 1] = l[i]
  BY <1>1, <1>2, <1>3, <1>4, <1>5
<1>7. \A i \in 1..Len(v) : s[a + Len(l) + i - 1] = v[i]
  <2> SUFFICES ASSUME NEW i \in 1..Len(v) PROVE s[a + Len(l) + i - 1] = v[i]
    OBVIOUS
  <2>1. Len(l) + i \in 1..Len(h) /\ ~(Len(l) + i <= Len(l)) /\ (Len(l) + i) - Len(l) = i
    BY <1>2, <1>4
  <2>2. h[Len(l) + i] = v[i]
    BY <1>2, <2>1
  <2>3. x[Len(l) + i] = h[Len(l) + i]
    BY <1>3, <1>4, <2>1
  <2>4. x[Len(l) + i] = s[a + (Len(l) + i) - 1]
    BY <1>1, <1>2, <1>4, <1>5, <2>1
  <2>5. a + (Len(l) + i) - 1 = a + Len(l) + i - 1
    BY <1>4
  <2> QED
    BY <2>2, <2>3, <2>4, <2>5
<1>10. \A i \in Int : a + ((Len(l) + Len(v)) + i) - 1 = b - Len(r) + i
  <2>1. PICK nl \in Nat : nl = Len(l)
    OBVIOUS
  <2>2. PICK nv \in Nat : nv = Len(v)
    OBVIOUS
  <2>3. PICK nr \in Nat : nr = Len(r)
    OBVIOUS
  <2>4. b - a + 1 = nl + nv + nr
    BY <2>1, <2>2, <2>3, <1>5, Zenon
  <2>5. \A i \in Int : a + ((nl + nv) + i) - 1 = b - nr + i
    BY <2>4
  <2> QED
    BY <2>1, <2>2, <2>3, <2>5, Zenon
<1>8. \A i \in 1..Len(r) : s[b - Len(r) + i] = r[i]
  <2> SUFFICES ASSUME NEW i \in 1..Len(r) PROVE s[b - Len(r) + i] = r[i]
    OBVIOUS
  <2>1. Len(h) + i \in 1..Len(h) + Len(r) /\ ~(Len(h) + i <= Len(h)) /\ (Len(h) + i) - Len(h) = i
    BY <1>4
  <2>2. x[Len(h) + i] = r[i]
    BY <1>3, <2>1
  <2>3. x[Len(h) + i] = s[a + (Len(h) + i) - 1]
    BY <1>1, <1>3, <2>1
  <2>4. a + (Len(h) + i) - 1 = b - Len(r) + i
    <3>1. Len(h) = Len(l) + Len(v) /\ i \in Int
      BY <1>2
    <3>2. a + ((Len(l) + Len(v)) + i) - 1 = b - Len(r) + i
      BY <3>1, <1>10, Zenon
    <3> QED
      BY <3>1, <3>2, Zenon
  <2> QED
    BY <2>2, <2>3, <2>4
<1>9. Part(s, a + Len(l), b - Len(r)) = v
  <2>1. a + Len(l) \in 1..Len(s) + 1 /\ b - Len(r) \in a + Len(l) - 1..Len(s)
    BY <1>4, <1>5
  <2> DEFINE y == Part(s, a + Len(l), b - Len(r))
  <2>2. /\ y \in Seq(Tokens) /\ Len(y) = Len(v)
        /\ \A i \in 1..Len(v) : y[i] = s[a + Len(l) + i - 1]
    <3>1. /\ y \in Seq(Tokens)
          /\ Len(y) = (b - Len(r)) - (a + Len(l)) + 1
          /\ \A i \in 1..(b - Len(r)) - (a + Len(l)) + 1 : y[i] = s[a + Len(l) + i - 1]
      <4>1. \A i \in (a + Len(l))..(b - Len(r)) : s[i] \in Tokens
        BY <2>1
      <4>3. Len(l) \in Nat /\ Len(v) \in Nat /\ Len(r) \in Nat
        OBVIOUS
      <4>4. a + Len(l) \in Int /\ b - Len(r) \in Int
        BY <4>3
      <4>5. (a + Len(l) <= b - Len(r) \/ (b - Len(r)) - (a + Len(l)) + 1 = 0)
        BY <4>3, <1>5
      <4> QED
        BY <4>1, <4>4, <4>5, SubSeqProperties DEF Part
    <3>2. (b - Len(r)) - (a + Len(l)) + 1 = Len(v)
      BY <1>4, <1>5
    <3> HIDE DEF y
    <3> QED
      BY <3>1, <3>2
  <2> HIDE DEF y
  <2>3. \A i \in 1..Len(v) : y[i] = v[i]
    BY <1>7, <2>2
  <2>4. y = v
    BY <2>2, <2>3, SeqEqual
  <2> QED
    BY <2>4 DEF y
<1> QED
  BY <1>5, <1>6, <1>7, <1>8, <1>9 DEF Sits

LEMMA Inside ==
  ASSUME NEW s \in Seq(Tokens), NEW a \in 1..Len(s), NEW b \in a..Len(s),
         NEW l \in Seq(Tokens), NEW v \in Seq(Tokens), NEW r \in Seq(Tokens),
         Part(s, a, b) = l \o v \o r
  PROVE  Sits(s, a, b, l, v, r)
<1>1. a \in Nat /\ b \in Nat /\ 1 <= a /\ a <= b /\ b <= Len(s)
  OBVIOUS
<1> QED
  BY <1>1, SitsInside

----------------------------------------------------------------------------
(* JsonFinder: the brackets of a value balance *)

\* How a scan from m counts: q counts quotation marks, and d the brackets open.
CountsUp(s, m, n, o, c, q, d) ==
    /\ q \in [Nat -> Nat] /\ d \in [Nat -> Int]
    /\ \A k \in m..n :
        /\ q[k] = q[k - 1] + (IF s[k] = "quote" THEN 1 ELSE 0)
        /\ d[k] = d[k - 1] + (IF q[k] % 2 # 0 THEN 0 ELSE IF s[k] = o THEN 1 ELSE IF s[k] = c THEN -1 ELSE 0)

\* From a, outside of a string, to b: the scan is as it was, and in between no fewer
\* brackets are open; a bracket at a closes at b and not before.
Balances(s, o, c, q, d, a, b) ==
    /\ q[b] % 2 = 0 /\ d[b] = d[a - 1]
    /\ \A k \in a..b : d[k] >= d[a - 1]
    /\ s[a] = o => s[b] = c /\ \A k \in a..b - 1 : d[k] > d[a - 1]

Brackets == {<<"{", "}">>, <<"[", "]">>}

\* What is the same from one place to the next is the same from the first to the last.
LEMMA Stays ==
  ASSUME NEW f, NEW a \in Int, NEW b \in Int, \A k \in a..b : f[k] = f[k - 1]
  PROVE  \A k \in a..b : f[k] = f[a - 1]
<1> DEFINE bad == {n \in Nat : a + n <= b /\ f[a + n] # f[a - 1]}
<1>1. bad = {}
  <2> SUFFICES ASSUME bad # {} PROVE FALSE
    OBVIOUS
  <2>1. PICK n \in bad : \A m \in bad : n <= m
    <3>1. bad \in SUBSET Nat
      OBVIOUS
    <3> HIDE DEF bad
    <3> QED
      BY <3>1, LeastNumber
  <2>2. n \in Nat /\ a + n <= b /\ f[a + n] # f[a - 1]
    BY <2>1
  <2>3. a + n \in a..b
    BY <2>2
  <2>4. f[a + n] = f[(a + n) - 1]
    BY <2>3
  <2>5. n # 0
    BY <2>2, <2>4
  <2>6. n - 1 \in Nat /\ ~(n <= n - 1) /\ a + (n - 1) <= b /\ a + (n - 1) = (a + n) - 1
    BY <2>2, <2>5
  <2>7. n - 1 \notin bad
    BY <2>1, <2>6
  <2>8. f[a + (n - 1)] = f[a - 1]
    BY <2>6, <2>7
  <2> QED
    BY <2>2, <2>4, <2>6, <2>8
<1>2. ASSUME NEW k \in a..b PROVE f[k] = f[a - 1]
  <2>1. k - a \in Nat /\ a + (k - a) = k /\ k <= b
    OBVIOUS
  <2>2. k - a \notin bad
    BY <1>1
  <2> QED
    BY <2>1, <2>2
<1> QED
  BY <1>2

\* A number is no bracket and no quotation mark.
LEMMA NumberBalances ==
  ASSUME NEW s, NEW m \in Nat \ {0}, NEW n \in Nat, NEW o, NEW c, NEW q, NEW d,
         CountsUp(s, m, n, o, c, q, d), "num" # o, "num" # c,
         NEW a \in m..n, q[a - 1] % 2 = 0, s[a] = "num"
  PROVE  Balances(s, o, c, q, d, a, a)
<1>1. q[a] = q[a - 1] /\ d[a] = d[a - 1] /\ d[a - 1] \in Int
  BY DEF CountsUp
<1> QED
  BY <1>1 DEF Balances

\* Within a string no bracket counts.
LEMMA StringBalances ==
  ASSUME NEW s, NEW m \in Nat \ {0}, NEW n \in Nat, NEW o, NEW c, NEW q, NEW d,
         CountsUp(s, m, n, o, c, q, d), "quote" # o, "quote" # c,
         NEW a \in m..n, NEW b \in m..n, a < b, q[a - 1] % 2 = 0,
         s[a] = "quote", s[b] = "quote", \A k \in a + 1..b - 1 : s[k] # "quote"
  PROVE  Balances(s, o, c, q, d, a, b)
<1>1. a \in Nat /\ b \in Nat /\ a - 1 \in Nat /\ b - 1 \in Nat /\ b - 1 \in a..b - 1
  OBVIOUS
<1>2. q[a - 1] \in Nat /\ d[a - 1] \in Int /\ q[a] = q[a - 1] + 1
  BY <1>1 DEF CountsUp
<1>3. q[a] % 2 # 0 /\ (q[a] + 1) % 2 = 0
  BY <1>2
<1>4. d[a] = d[a - 1]
  BY <1>2, <1>3 DEF CountsUp
<1>5. \A k \in a + 1..b - 1 : k \in m..n /\ k \in Nat /\ k - 1 \in Nat
  OBVIOUS
<1>6. \A k \in a + 1..b - 1 : q[k] = q[k - 1]
  BY <1>5 DEF CountsUp
<1>7. \A k \in a + 1..b - 1 : q[k] = q[a]
  <2>1. a + 1 \in Int /\ b - 1 \in Int /\ (a + 1) - 1 = a
    OBVIOUS
  <2>2. \A k \in (a + 1)..(b - 1) : q[k] = q[(a + 1) - 1]
    BY <1>6, <2>1, Stays
  <2> QED
    BY <2>1, <2>2
<1>8. \A k \in a + 1..b - 1 : d[k] = d[k - 1]
  <2> SUFFICES ASSUME NEW k \in a + 1..b - 1 PROVE d[k] = d[k - 1]
    OBVIOUS
  <2>1. d[k - 1] \in Int /\ q[k] % 2 # 0
    BY <1>3, <1>5, <1>7 DEF CountsUp
  <2> QED
    BY <1>5, <2>1 DEF CountsUp
<1>9. \A k \in a + 1..b - 1 : d[k] = d[a]
  <2>1. a + 1 \in Int /\ b - 1 \in Int /\ (a + 1) - 1 = a
    OBVIOUS
  <2>2. \A k \in (a + 1)..(b - 1) : d[k] = d[(a + 1) - 1]
    BY <1>8, <2>1, Stays
  <2> QED
    BY <2>1, <2>2
<1>10. \A k \in a..b - 1 : q[k] = q[a] /\ d[k] = d[a - 1]
  BY <1>1, <1>4, <1>7, <1>9
<1>11. q[b] = q[a] + 1
  BY <1>1, <1>10 DEF CountsUp
<1>12. d[b] = d[a - 1]
  BY <1>1, <1>2, <1>10 DEF CountsUp
<1>13. \A k \in a..b : d[k] >= d[a - 1]
  BY <1>1, <1>2, <1>10, <1>12
<1> QED
  BY <1>3, <1>11, <1>12, <1>13 DEF Balances

\* A pair of brackets around what balances, with a key before it or without.
LEMMA WrapBalances ==
  ASSUME NEW s, NEW m \in Nat \ {0}, NEW n \in Nat, NEW o, NEW c, NEW q, NEW d,
         CountsUp(s, m, n, o, c, q, d),
         NEW a \in m..n, NEW b \in m..n, a < b, q[a - 1] % 2 = 0,
         (s[a] = o /\ s[b] = c /\ o # c) \/ (s[a] \notin {o, c, "quote"} /\ s[b] \notin {o, c, "quote"}),
         "quote" # o, "quote" # c,
         NEW j \in {a + 1, a + 2}, j <= b, j = a + 2 => s[a + 1] \notin {o, c, "quote"},
         q[j - 1] % 2 = 0 => j = b \/ Balances(s, o, c, q, d, j, b - 1)
  PROVE  Balances(s, o, c, q, d, a, b)
<1>1. a \in Nat /\ b \in Nat /\ a - 1 \in Nat /\ b - 1 \in Nat /\ j \in Nat /\ j - 1 \in Nat /\ b - 1 \in a..b - 1
  OBVIOUS
<1>2. q[a - 1] \in Nat /\ d[a - 1] \in Int /\ q[a] \in Nat /\ d[a] \in Int /\ d[b - 1] \in Int
  BY <1>1 DEF CountsUp
<1>3. q[a] = q[a - 1]
  BY <1>2 DEF CountsUp
<1>4. d[a] = IF s[a] = o THEN d[a - 1] + 1 ELSE d[a - 1]
  BY <1>2, <1>3 DEF CountsUp
<1>5. q[j - 1] = q[a] /\ d[j - 1] = d[a]
  <2>1. CASE j = a + 1
    BY <2>1
  <2>2. CASE j = a + 2
    <3>1. a + 1 \in m..n /\ (a + 1) - 1 = a /\ j - 1 = a + 1
      BY <2>2, <1>1
    <3>2. q[a + 1] = q[a]
      BY <1>2, <2>2, <3>1 DEF CountsUp
    <3>3. d[a + 1] = d[a]
      BY <1>2, <1>3, <2>2, <3>1, <3>2 DEF CountsUp
    <3> QED
      BY <3>1, <3>2, <3>3
  <2> QED
    BY <2>1, <2>2
<1>6. q[b - 1] % 2 = 0 /\ d[b - 1] = d[a] /\ \A k \in a..b - 1 : d[k] >= d[a]
  <2>1. q[j - 1] % 2 = 0
    BY <1>3, <1>5
  <2>2. CASE j = b
    <3>1. \A k \in a..b - 1 : k = a \/ k = j - 1
      BY <2>2, <1>1
    <3> QED
      BY <1>2, <1>5, <2>1, <2>2, <3>1
  <2>3. CASE Balances(s, o, c, q, d, j, b - 1)
    <3>1. q[b - 1] % 2 = 0 /\ d[b - 1] = d[j - 1] /\ \A k \in j..b - 1 : d[k] >= d[j - 1]
      BY <2>3 DEF Balances
    <3>2. \A k \in a..b - 1 : k = a \/ k = j - 1 \/ k \in j..b - 1
      BY <1>1
    <3> QED
      BY <1>2, <1>5, <3>1, <3>2
  <2> QED
    BY <2>1, <2>2, <2>3
<1>7. q[b] = q[b - 1] /\ q[b - 1] \in Nat
  BY <1>1 DEF CountsUp
<1>8. d[b] = d[a - 1]
  <2>1. CASE s[a] = o /\ s[b] = c /\ o # c
    <3>1. d[b] = d[b - 1] + (-1)
      BY <1>1, <1>2, <1>6, <1>7, <2>1 DEF CountsUp
    <3>2. d[a] = d[a - 1] + 1
      BY <1>4, <2>1
    <3> QED
      BY <1>2, <1>6, <3>1, <3>2
  <2>2. CASE s[a] \notin {o, c, "quote"} /\ s[b] \notin {o, c, "quote"}
    <3>1. d[b] = d[b - 1]
      BY <1>1, <1>2, <1>6, <1>7, <2>2 DEF CountsUp
    <3>2. d[a] = d[a - 1]
      BY <1>4, <2>2
    <3> QED
      BY <1>6, <3>1, <3>2
  <2> QED
    BY <2>1, <2>2
<1>9. \A k \in a..b - 1 : d[k] \in Int
  BY <1>1 DEF CountsUp
<1>10. \A k \in a..b : k \in a..b - 1 \/ k = b
  BY <1>1
<1>11. \A k \in a..b : d[k] >= d[a - 1]
  <2>1. d[a] >= d[a - 1]
    BY <1>2, <1>4
  <2>2. \A k \in a..b - 1 : d[k] >= d[a - 1]
    BY <1>2, <1>6, <1>9, <2>1
  <2>3. d[b] >= d[a - 1]
    BY <1>2, <1>8
  <2> QED
    BY <1>10, <2>2, <2>3
<1>12. ASSUME s[a] = o PROVE s[b] = c /\ \A k \in a..b - 1 : d[k] > d[a - 1]
  <2>1. s[b] = c /\ d[a] = d[a - 1] + 1
    BY <1>4, <1>12
  <2> QED
    BY <1>2, <1>6, <1>9, <2>1
<1>13. q[b] % 2 = 0
  BY <1>6, <1>7
<1> QED
  BY <1>8, <1>11, <1>12, <1>13 DEF Balances

LEMMA PartIs ==
  ASSUME NEW s \in Seq(Tokens), NEW a \in 1..Len(s), NEW b \in a..Len(s)
  PROVE  Len(Part(s, a, b)) = b - a + 1 /\ \A i \in 1..b - a + 1 : Part(s, a, b)[i] = s[a + i - 1]
<1>1. \A i \in a..b : s[i] \in Tokens
  OBVIOUS
<1>2. a \in Int /\ b \in Int /\ a <= b
  OBVIOUS
<1> QED
  BY <1>1, <1>2, SubSeqProperties DEF Part

\* Where the tokens of a value stand in the text that holds it.
LEMMA PartOne ==
  ASSUME NEW s \in Seq(Tokens), NEW a \in 1..Len(s), NEW b \in a..Len(s), NEW x, Part(s, a, b) = <<x>>
  PROVE  a = b /\ s[a] = x
<1>2. a \in Int /\ b \in Int /\ a <= b
  OBVIOUS
<1>3. Len(Part(s, a, b)) = b - a + 1 /\ \A i \in 1..b - a + 1 : Part(s, a, b)[i] = s[a + i - 1]
  BY PartIs, Zenon
<1>4. Len(<<x>>) = 1 /\ <<x>>[1] = x
  OBVIOUS
<1>5. b - a + 1 = 1 /\ <<x>>[1] = s[a + 1 - 1]
  BY <1>3, <1>4
<1> QED
  BY <1>2, <1>4, <1>5

Both(s, a, b, x, y) == b = a + 1 /\ s[a] = x /\ s[b] = y

LEMMA PartTwo ==
  ASSUME NEW s \in Seq(Tokens), NEW a \in 1..Len(s), NEW b \in a..Len(s), NEW x, NEW y, Part(s, a, b) = <<x, y>>
  PROVE  Both(s, a, b, x, y)
<1>2. a \in Int /\ b \in Int /\ a <= b
  OBVIOUS
<1>3. Len(Part(s, a, b)) = b - a + 1 /\ \A i \in 1..b - a + 1 : Part(s, a, b)[i] = s[a + i - 1]
  BY PartIs, Zenon
<1>4. Len(<<x, y>>) = 2 /\ <<x, y>>[1] = x /\ <<x, y>>[2] = y
  OBVIOUS
<1>5. b - a + 1 = 2 /\ <<x, y>>[1] = s[a + 1 - 1] /\ <<x, y>>[2] = s[a + 2 - 1]
  BY <1>3, <1>4
<1> QED
  BY <1>2, <1>4, <1>5 DEF Both

Around(s, a, b, x, v, y) ==
    /\ b = a + Len(v) + 1 /\ s[a] = x /\ s[b] = y
    /\ \A i \in 1..Len(v) : s[a + i] = v[i]
    /\ Part(s, a + 1, b - 1) = v

LEMMA PartAround ==
  ASSUME NEW s \in Seq(Tokens), NEW a \in 1..Len(s), NEW b \in a..Len(s),
         NEW x \in Tokens, NEW y \in Tokens, NEW v \in Seq(Tokens), Part(s, a, b) = <<x>> \o v \o <<y>>
  PROVE  Around(s, a, b, x, v, y)
<1>1. <<x>> \in Seq(Tokens) /\ Len(<<x>>) = 1 /\ <<y>> \in Seq(Tokens) /\ Len(<<y>>) = 1 /\ <<x>>[1] = x /\ <<y>>[1] = y
  BY Single
<1>2. a \in Nat /\ b \in Nat /\ 1 <= a /\ a <= b /\ b <= Len(s)
  OBVIOUS
<1>3. /\ b - a + 1 = 1 + Len(v) + 1
      /\ \A i \in 1..1 : s[a + i - 1] = <<x>>[i]
      /\ \A i \in 1..Len(v) : s[a + 1 + i - 1] = v[i]
      /\ \A i \in 1..1 : s[b - 1 + i] = <<y>>[i]
      /\ Part(s, a + 1, b - 1) = v
  <2>0. Sits(s, a, b, <<x>>, v, <<y>>)
    BY <1>1, Inside, Zenon
  <2>1. /\ b - a + 1 = Len(<<x>>) + Len(v) + Len(<<y>>)
        /\ \A i \in 1..Len(<<x>>) : s[a + i - 1] = <<x>>[i]
        /\ \A i \in 1..Len(v) : s[a + Len(<<x>>) + i - 1] = v[i]
        /\ \A i \in 1..Len(<<y>>) : s[b - Len(<<y>>) + i] = <<y>>[i]
        /\ Part(s, a + Len(<<x>>), b - Len(<<y>>)) = v
    BY <2>0, Zenon DEF Sits
  <2> QED
    BY <1>1, <2>1, Zenon
<1>4. b = a + Len(v) + 1
  <2>1. PICK nv \in Nat : nv = Len(v)
    OBVIOUS
  <2>2. b - a + 1 = 1 + nv + 1
    BY <1>3, <2>1, Zenon
  <2>3. b = a + nv + 1
    BY <1>2, <2>2
  <2> QED
    BY <2>1, <2>3, Zenon
<1>5. s[a] = x /\ s[b] = y
  <2>1. 1 \in 1..1 /\ a + 1 - 1 = a /\ b - 1 + 1 = b
    BY <1>2
  <2>2. s[a + 1 - 1] = <<x>>[1] /\ s[b - 1 + 1] = <<y>>[1]
    BY <1>3, <2>1, Zenon
  <2> QED
    BY <1>1, <2>1, <2>2, Zenon
<1>6. \A i \in 1..Len(v) : s[a + i] = v[i]
  <2>1. \A i \in 1..Len(v) : a + 1 + i - 1 = a + i
    BY <1>2
  <2> QED
    BY <1>3, <2>1
<1> QED
  BY <1>3, <1>4, <1>5, <1>6 DEF Around

Keyed(s, a, b, x, z, v, y) ==
    b = a + Len(v) + 2 /\ s[a] = x /\ s[a + 1] = z /\ s[b] = y /\ Part(s, a + 2, b - 1) = v

LEMMA PartKeyed ==
  ASSUME NEW s \in Seq(Tokens), NEW a \in 1..Len(s), NEW b \in a..Len(s),
         NEW x \in Tokens, NEW y \in Tokens, NEW z \in Tokens, NEW v \in Seq(Tokens),
         Part(s, a, b) = <<x, z>> \o v \o <<y>>
  PROVE  Keyed(s, a, b, x, z, v, y)
<1>1. /\ <<x, z>> \in Seq(Tokens) /\ Len(<<x, z>>) = 2 /\ <<y>> \in Seq(Tokens) /\ Len(<<y>>) = 1
      /\ <<x, z>>[1] = x /\ <<x, z>>[2] = z /\ <<y>>[1] = y
  BY Single, Pair
<1>2. a \in Nat /\ b \in Nat /\ 1 <= a /\ a <= b /\ b <= Len(s)
  OBVIOUS
<1>3. /\ b - a + 1 = 2 + Len(v) + 1
      /\ \A i \in 1..2 : s[a + i - 1] = <<x, z>>[i]
      /\ \A i \in 1..1 : s[b - 1 + i] = <<y>>[i]
      /\ Part(s, a + 2, b - 1) = v
  <2>0. Sits(s, a, b, <<x, z>>, v, <<y>>)
    BY <1>1, Inside, Zenon
  <2>1. /\ b - a + 1 = Len(<<x, z>>) + Len(v) + Len(<<y>>)
        /\ \A i \in 1..Len(<<x, z>>) : s[a + i - 1] = <<x, z>>[i]
        /\ \A i \in 1..Len(v) : s[a + Len(<<x, z>>) + i - 1] = v[i]
        /\ \A i \in 1..Len(<<y>>) : s[b - Len(<<y>>) + i] = <<y>>[i]
        /\ Part(s, a + Len(<<x, z>>), b - Len(<<y>>)) = v
    BY <2>0, Zenon DEF Sits
  <2> QED
    BY <1>1, <2>1, Zenon
<1>4. b = a + Len(v) + 2
  <2>1. PICK nv \in Nat : nv = Len(v)
    OBVIOUS
  <2>2. b - a + 1 = 2 + nv + 1
    BY <1>3, <2>1, Zenon
  <2>3. b = a + nv + 2
    BY <1>2, <2>2
  <2> QED
    BY <2>1, <2>3, Zenon
<1>5. s[a] = x /\ s[a + 1] = z /\ s[b] = y
  <2>1. 1 \in 1..1 /\ 1 \in 1..2 /\ 2 \in 1..2 /\ a + 1 - 1 = a /\ a + 2 - 1 = a + 1 /\ b - 1 + 1 = b
    BY <1>2
  <2>2. s[a + 1 - 1] = <<x, z>>[1] /\ s[a + 2 - 1] = <<x, z>>[2] /\ s[b - 1 + 1] = <<y>>[1]
    BY <1>3, <2>1, Zenon
  <2> QED
    BY <1>1, <2>1, <2>2, Zenon
<1> QED
  BY <1>3, <1>4, <1>5 DEF Keyed

LEMMA SimpleBalances ==
  ASSUME NEW s \in Seq(Tokens), NEW m \in Nat \ {0}, NEW o, NEW c, <<o, c>> \in Brackets,
         NEW q, NEW d, CountsUp(s, m, Len(s), o, c, q, d),
         NEW a \in m..Len(s), NEW b \in a..Len(s), q[a - 1] % 2 = 0, Part(s, a, b) \in Simple
  PROVE  Balances(s, o, c, q, d, a, b)
<1>1. o # "num" /\ o # "quote" /\ c # "num" /\ c # "quote"
  BY DEF Brackets
<1>2. a \in 1..Len(s) /\ b \in m..Len(s) /\ Len(s) \in Nat
  OBVIOUS
<1>3. CASE Part(s, a, b) \in Scalars
  <2>1. Part(s, a, b) = <<"num">>
    BY <1>3 DEF Scalars
  <2>2. a = b /\ s[a] = "num"
    BY <1>2, <2>1, PartOne
  <2> QED
    BY <1>1, <1>2, <2>2, NumberBalances
<1>4. CASE Part(s, a, b) \in Strings
  <2>1. PICK w \in Seq(Tokens) :
           /\ Part(s, a, b) = <<"quote">> \o w \o <<"quote">>
           /\ \A i \in 1..Len(w) : w[i] # "quote"
    <3>1. PICK k \in 0..AnswerMax - 4 : \E w \in [1..k -> Tokens \ {"quote", "key", "fence"}] :
              Part(s, a, b) = <<"quote">> \o w \o <<"quote">>
      BY <1>4 DEF Strings
    <3>2. PICK w \in [1..k -> Tokens \ {"quote", "key", "fence"}] : Part(s, a, b) = <<"quote">> \o w \o <<"quote">>
      BY <3>1
    <3>3. k \in Nat
      BY FinderAssumption
    <3>4. w \in [1..k -> Tokens] /\ \A i \in 1..k : w[i] # "quote"
      BY <3>2
    <3>5. w \in Seq(Tokens) /\ Len(w) = k
      BY <3>3, <3>4
    <3> QED
      BY <3>2, <3>4, <3>5
  <2>2. "quote" \in Tokens
    BY DEF Tokens
  <2>3. /\ b = a + Len(w) + 1 /\ s[a] = "quote" /\ s[b] = "quote"
        /\ \A i \in 1..Len(w) : s[a + i] = w[i]
    <3>1. Around(s, a, b, "quote", w, "quote")
      BY <1>2, <2>1, <2>2, PartAround, Zenon
    <3> QED
      BY <3>1, Zenon DEF Around
  <2>4. a < b /\ Len(w) \in Nat
    BY <2>3
  <2>5. \A k \in a + 1..b - 1 : s[k] # "quote"
    <3> SUFFICES ASSUME NEW k \in a + 1..b - 1 PROVE s[k] # "quote"
      OBVIOUS
    <3>1. k - a \in 1..Len(w) /\ a + (k - a) = k
      BY <2>3, <2>4
    <3> QED
      BY <2>1, <2>3, <3>1
  <2> QED
    BY <1>1, <1>2, <2>3, <2>4, <2>5, StringBalances
<1> QED
  BY <1>3, <1>4 DEF Simple

LEMMA ValueBalances ==
  ASSUME NEW s \in Seq(Tokens), NEW m \in Nat \ {0}, NEW o, NEW c, <<o, c>> \in Brackets,
         NEW q, NEW d, CountsUp(s, m, Len(s), o, c, q, d)
  PROVE  \A n \in Nat : \A a \in m..Len(s) : \A b \in a..Len(s) :
            q[a - 1] % 2 = 0 /\ Part(s, a, b) \in Values[n] => Balances(s, o, c, q, d, a, b)
<1> DEFINE Holds(n) == \A a \in m..Len(s) : \A b \in a..Len(s) :
                          q[a - 1] % 2 = 0 /\ Part(s, a, b) \in Values[n] => Balances(s, o, c, q, d, a, b)
           bad == {n \in Nat : ~ Holds(n)}
<1> SUFFICES ASSUME bad # {} PROVE FALSE
  OBVIOUS
<1>1. PICK n \in bad : \A k \in bad : n <= k
  <2>1. bad \in SUBSET Nat
    OBVIOUS
  <2> HIDE DEF bad
  <2> QED
    BY <2>1, LeastNumber
<1>2. n \in Nat /\ ~ Holds(n)
  BY <1>1
<1>3. n # 0
  <2>1. Values[0] = Simple
    BY ValuesAre
  <2>2. Holds(0)
    BY <2>1, SimpleBalances
  <2> QED
    BY <1>2, <2>2
<1>4. n - 1 \in Nat /\ Holds(n - 1)
  <2>1. n - 1 \in Nat /\ ~(n <= n - 1)
    BY <1>2, <1>3
  <2>2. n - 1 \notin bad
    BY <1>1, <2>1
  <2> QED
    BY <2>1, <2>2
<1>5. Values[n] = Wrap(Values[n - 1])
  BY <1>2, <1>3, ValuesAre
<1>6. Values[n - 1] \in SUBSET NonEmptyText
  BY <1>4, ValuesAre
<1>7. PICK a \in m..Len(s) : \E b \in a..Len(s) :
          q[a - 1] % 2 = 0 /\ Part(s, a, b) \in Values[n] /\ ~ Balances(s, o, c, q, d, a, b)
  BY <1>2
<1>8. PICK b \in a..Len(s) : q[a - 1] % 2 = 0 /\ Part(s, a, b) \in Values[n] /\ ~ Balances(s, o, c, q, d, a, b)
  BY <1>7
<1> HIDE DEF bad
<1>9. Len(s) \in Nat /\ a \in 1..Len(s) /\ b \in m..Len(s) /\ m \in Nat
  OBVIOUS
<1>17. a \in Nat
  BY <1>9
<1>10. /\ "quote" # o /\ "quote" # c /\ "key" \notin {o, c, "quote"} /\ o # c
       /\ (o = "{" /\ c = "}") \/ ("{" \notin {o, c, "quote"} /\ "}" \notin {o, c, "quote"})
       /\ (o = "[" /\ c = "]") \/ ("[" \notin {o, c, "quote"} /\ "]" \notin {o, c, "quote"})
  BY DEF Brackets
<1>11. /\ "{" \in Tokens /\ "}" \in Tokens /\ "[" \in Tokens /\ "]" \in Tokens /\ "key" \in Tokens
  BY DEF Tokens
<1>12. CASE Part(s, a, b) \in Values[n - 1]
  BY <1>4, <1>8, <1>12
<1>13. ASSUME Part(s, a, b) = <<"{", "}">> \/ Part(s, a, b) = <<"[", "]">> PROVE FALSE
  <2>1. b = a + 1 /\ ((s[a] = "{" /\ s[b] = "}") \/ (s[a] = "[" /\ s[b] = "]"))
    <3>1. Both(s, a, b, "{", "}") \/ Both(s, a, b, "[", "]")
      BY <1>9, <1>13, PartTwo, Zenon
    <3> QED
      BY <3>1, Zenon DEF Both
  <2>2. a < b /\ a + 1 \in {a + 1, a + 2} /\ a + 1 <= b /\ a + 1 # a + 2 /\ a + 1 = b
    <3>1. b = a + 1
      BY <2>1, Zenon
    <3> QED
      BY <3>1, <1>17
  <2>3. (s[a] = o /\ s[b] = c /\ o # c) \/ (s[a] \notin {o, c, "quote"} /\ s[b] \notin {o, c, "quote"})
    BY <1>10, <2>1
  <2> QED
    BY <1>8, <1>9, <1>10, <2>2, <2>3, WrapBalances
<1>14. ASSUME NEW v \in Values[n - 1], Part(s, a, b) = <<"[">> \o v \o <<"]">> PROVE FALSE
  <2>1. v \in Seq(Tokens) /\ Len(v) >= 1
    BY <1>6 DEF NonEmptyText
  <2>2. Around(s, a, b, "[", v, "]")
    BY <1>9, <1>11, <1>14, <2>1, PartAround, Zenon
  <2>3. b = a + Len(v) + 1 /\ s[a] = "[" /\ s[b] = "]" /\ Part(s, a + 1, b - 1) = v
    BY <2>2, Zenon DEF Around
  <2>4. a < b /\ a + 1 \in {a + 1, a + 2} /\ a + 1 <= b /\ a + 1 # a + 2 /\ a + 1 \in m..Len(s) /\ b - 1 \in a + 1..Len(s)
    BY <1>9, <2>1, <2>3
  <2>5. (s[a] = o /\ s[b] = c /\ o # c) \/ (s[a] \notin {o, c, "quote"} /\ s[b] \notin {o, c, "quote"})
    BY <1>10, <2>3
  <2>6. q[(a + 1) - 1] % 2 = 0 => Balances(s, o, c, q, d, a + 1, b - 1)
    BY <1>4, <2>3, <2>4
  <2> QED
    BY <1>8, <1>9, <1>10, <2>4, <2>5, <2>6, WrapBalances
<1>15. ASSUME NEW v \in Values[n - 1], Part(s, a, b) = <<"{", "key">> \o v \o <<"}">> PROVE FALSE
  <2>1. v \in Seq(Tokens) /\ Len(v) >= 1
    BY <1>6 DEF NonEmptyText
  <2>3. b = a + Len(v) + 2 /\ s[a] = "{" /\ s[a + 1] = "key" /\ s[b] = "}" /\ Part(s, a + 2, b - 1) = v
    <3>1. Keyed(s, a, b, "{", "key", v, "}")
      BY <1>9, <1>11, <1>15, <2>1, PartKeyed, Zenon
    <3> QED
      BY <3>1, Zenon DEF Keyed
  <2>4. a < b /\ a + 2 \in {a + 1, a + 2} /\ a + 2 <= b /\ a + 2 \in m..Len(s) /\ b - 1 \in a + 2..Len(s)
    <3>1. PICK nv \in Nat \ {0} : nv = Len(v)
      BY <2>1
    <3>2. b = a + nv + 2
      BY <2>3, <3>1
    <3>3. PICK ns \in Nat : ns = Len(s)
      BY <1>9
    <3>4. a \in m..ns /\ b \in a..ns
      BY <3>3
    <3>5. a < b /\ a + 2 \in {a + 1, a + 2} /\ a + 2 <= b /\ a + 2 \in m..ns /\ b - 1 \in a + 2..ns
      BY <1>9, <3>2, <3>4
    <3> QED
      BY <3>3, <3>5, Zenon
  <2>5. (s[a] = o /\ s[b] = c /\ o # c) \/ (s[a] \notin {o, c, "quote"} /\ s[b] \notin {o, c, "quote"})
    BY <1>10, <2>3
  <2>6. q[(a + 2) - 1] % 2 = 0 => Balances(s, o, c, q, d, a + 2, b - 1)
    BY <1>4, <2>3, <2>4
  <2>7. s[a + 1] \notin {o, c, "quote"}
    BY <1>10, <2>3
  <2> QED
    BY <1>8, <1>9, <1>10, <2>4, <2>5, <2>6, <2>7, WrapBalances
<1>16. \/ Part(s, a, b) \in Values[n - 1]
       \/ Part(s, a, b) = <<"{", "}">> \/ Part(s, a, b) = <<"[", "]">>
       \/ \E v \in Values[n - 1] : Part(s, a, b) = <<"[">> \o v \o <<"]">>
       \/ \E v \in Values[n - 1] : Part(s, a, b) = <<"{", "key">> \o v \o <<"}">>
  BY <1>5, <1>8, Zenon DEF Wrap, Small
<1> QED
  BY <1>12, <1>13, <1>14, <1>15, <1>16

----------------------------------------------------------------------------
(* JsonFinder: what the scan finds *)

LEMMA CountStep ==
  ASSUME NEW m \in Int, NEW k \in Int, m <= k, NEW X
  PROVE  /\ Cardinality((m..k) \cap X) = Cardinality((m..k - 1) \cap X) + (IF k \in X THEN 1 ELSE 0)
         /\ Cardinality((m..k) \cap X) \in Nat /\ Cardinality((m..k - 1) \cap X) \in Nat
<1> DEFINE S == (m..k - 1) \cap X
<1>1. IsFiniteSet(S) /\ k \notin S
  <2>1. IsFiniteSet(m..k - 1)
    BY FS_Interval
  <2>2. S \subseteq m..k - 1
    OBVIOUS
  <2> QED
    BY <2>1, <2>2, FS_Subset
<1>2. (m..k) \cap X = IF k \in X THEN S \cup {k} ELSE S
  <2>1. m..k = (m..k - 1) \cup {k}
    OBVIOUS
  <2> QED
    BY <2>1
<1>4. S = (m..k - 1) \cap X
  OBVIOUS
<1> HIDE DEF S
<1>3. Cardinality(S) \in Nat /\ Cardinality(S \cup {k}) = Cardinality(S) + 1
  BY <1>1, FS_CardinalityType, FS_AddElement
<1>5. CASE k \in X
  <2>1. (m..k) \cap X = S \cup {k}
    BY <1>2, <1>5
  <2> QED
    BY <1>3, <1>4, <1>5, <2>1
<1>6. CASE k \notin X
  <2>1. (m..k) \cap X = S
    BY <1>2, <1>6
  <2>2. Cardinality(S) \in Nat
    BY <1>3
  <2>3. /\ Cardinality((m..k) \cap X) = Cardinality(S)
        /\ Cardinality((m..k - 1) \cap X) = Cardinality(S)
    BY <1>4, <2>1, Zenon
  <2> QED
    BY <1>6, <2>2, <2>3
<1> QED
  BY <1>5, <1>6

LEMMA NothingCounted == ASSUME NEW m \in Int, NEW X PROVE Cardinality((m..m - 1) \cap X) = 0
<1>1. (m..m - 1) \cap X = {}
  OBVIOUS
<1> QED
  BY <1>1, FS_EmptySet

\* Depth counts as CountsUp says, and starts with nothing.
Scans(s, m, n, o, c, q, d) ==
    /\ CountsUp(s, m, n, o, c, q, d)
    /\ q[m - 1] = 0 /\ d[m - 1] = 0
    /\ \A k \in Nat : d[k] = Depth(s, m, k, o, c)

LEMMA ScanCounts ==
  ASSUME NEW s, NEW m \in Nat \ {0}, NEW n \in Nat, NEW o, NEW c, o # c
  PROVE  \E q, d : Scans(s, m, n, o, c, q, d)
<1> DEFINE Q == {j \in Nat : s[j] = "quote"}
           q == [k \in Nat |-> Cardinality((m..k) \cap Q)]
           O == {j \in Nat : q[j] % 2 = 0 /\ s[j] = o}
           C == {j \in Nat : q[j] % 2 = 0 /\ s[j] = c}
           d == [k \in Nat |-> Cardinality((m..k) \cap O) - Cardinality((m..k) \cap C)]
<1>1. \A k \in Nat : (m..k) \cap Q = {j \in m..k : s[j] = "quote"}
  OBVIOUS
<1>2. \A k \in Nat : q[k] = Cardinality({j \in m..k : s[j] = "quote"})
  BY <1>1
<1>3. \A X : \A k \in Nat : Cardinality((m..k) \cap X) \in Nat
  <2> SUFFICES ASSUME NEW X, NEW k \in Nat PROVE Cardinality((m..k) \cap X) \in Nat
    OBVIOUS
  <2>1. IsFiniteSet(m..k) /\ (m..k) \cap X \subseteq m..k
    BY FS_Interval
  <2> QED
    BY <2>1, FS_Subset, FS_CardinalityType
<1>4. q \in [Nat -> Nat] /\ d \in [Nat -> Int]
  <2>1. \A k \in Nat : Cardinality((m..k) \cap Q) \in Nat
    BY <1>3
  <2>2. \A k \in Nat : Cardinality((m..k) \cap O) \in Nat /\ Cardinality((m..k) \cap C) \in Nat
    <3> HIDE DEF O, C
    <3> QED
      BY <1>3
  <2>3. \A k \in Nat : Cardinality((m..k) \cap O) - Cardinality((m..k) \cap C) \in Int
    <3> HIDE DEF O, C
    <3> QED
      BY <2>2
  <2> HIDE DEF Q, O, C
  <2> QED
    BY <2>1, <2>3
<1>5. \A k \in Nat : d[k] = Depth(s, m, k, o, c)
  <2> SUFFICES ASSUME NEW k \in Nat PROVE d[k] = Depth(s, m, k, o, c)
    OBVIOUS
  <2>1. d[k] = Cardinality((m..k) \cap O) - Cardinality((m..k) \cap C)
    <3> HIDE DEF O, C
    <3> QED
      OBVIOUS
  <2> DEFINE outside == {i \in m..k : Cardinality({j \in m..i : s[j] = "quote"}) % 2 = 0}
  <2>2. outside = {i \in m..k : q[i] % 2 = 0}
    <3>1. \A i \in m..k : i \in Nat
      OBVIOUS
    <3>2. \A i \in m..k : q[i] = Cardinality({j \in m..i : s[j] = "quote"})
      BY <1>2, <3>1
    <3> HIDE DEF q
    <3> QED
      BY <3>2
  <2>3. {i \in outside : s[i] = o} = (m..k) \cap O /\ {i \in outside : s[i] = c} = (m..k) \cap C
    <3>1. \A i \in m..k : i \in Nat
      OBVIOUS
    <3> HIDE DEF outside, q
    <3> QED
      BY <2>2, <3>1
  <2> HIDE DEF O, C, q, d
  <2> QED
    BY <2>1, <2>3 DEF Depth
<1>6. ASSUME NEW k \in m..n
      PROVE  /\ q[k] = q[k - 1] + (IF s[k] = "quote" THEN 1 ELSE 0)
             /\ d[k] = d[k - 1] + (IF q[k] % 2 # 0 THEN 0 ELSE IF s[k] = o THEN 1 ELSE IF s[k] = c THEN -1 ELSE 0)
  <2>1. k \in Nat /\ k - 1 \in Nat /\ m \in Int /\ k \in Int /\ m <= k
    OBVIOUS
  <2>2. (k \in Q) <=> s[k] = "quote"
    BY <2>1
  <2>3. ((k \in O) <=> (q[k] % 2 = 0 /\ s[k] = o)) /\ ((k \in C) <=> (q[k] % 2 = 0 /\ s[k] = c))
    <3> HIDE DEF q
    <3> QED
      BY <2>1
  <2>4. q[k] = Cardinality((m..k) \cap Q) /\ q[k - 1] = Cardinality((m..k - 1) \cap Q)
    <3> HIDE DEF Q
    <3> QED
      BY <2>1
  <2>5. /\ d[k] = Cardinality((m..k) \cap O) - Cardinality((m..k) \cap C)
        /\ d[k - 1] = Cardinality((m..k - 1) \cap O) - Cardinality((m..k - 1) \cap C)
    <3> HIDE DEF O, C
    <3> QED
      BY <2>1
  <2> HIDE DEF Q, O, C, q, d
  <2>6. q[k] = q[k - 1] + (IF s[k] = "quote" THEN 1 ELSE 0)
    BY <2>1, <2>2, <2>4, CountStep
  <2>7. /\ Cardinality((m..k) \cap O) = Cardinality((m..k - 1) \cap O) + (IF k \in O THEN 1 ELSE 0)
        /\ Cardinality((m..k - 1) \cap O) \in Nat
    BY <2>1, CountStep
  <2>8. /\ Cardinality((m..k) \cap C) = Cardinality((m..k - 1) \cap C) + (IF k \in C THEN 1 ELSE 0)
        /\ Cardinality((m..k - 1) \cap C) \in Nat
    BY <2>1, CountStep
  <2>9. d[k] = d[k - 1] + (IF k \in O THEN 1 ELSE 0) - (IF k \in C THEN 1 ELSE 0)
    BY <2>5, <2>7, <2>8
  <2>10. d[k - 1] \in Int
    BY <2>5, <2>7, <2>8
  <2> QED
    BY <2>3, <2>6, <2>9, <2>10
<1>7. q[m - 1] = 0 /\ d[m - 1] = 0
  <2>1. m - 1 \in Nat
    OBVIOUS
  <2>2. \A X : Cardinality((m..m - 1) \cap X) = 0
    BY NothingCounted
  <2> HIDE DEF Q, O, C
  <2> QED
    BY <2>1, <2>2
<1> HIDE DEF Q, q, O, C, d
<1>8. CountsUp(s, m, n, o, c, q, d)
  BY <1>4, <1>6 DEF CountsUp
<1>9. Scans(s, m, n, o, c, q, d)
  BY <1>5, <1>7, <1>8 DEF Scans
<1> QED
  BY <1>9

LEMMA ParsedIsWritten ==
  ASSUME NEW v, Parses(v)
  PROVE  v \in NonEmptyText /\ v # Nothing
<1>1. AnswerMax \div 2 \in Nat
  BY FinderAssumption
<1>2. Values[AnswerMax \div 2] \in SUBSET NonEmptyText
  BY <1>1, ValuesAre
<1>3. v \in NonEmptyText
  BY <1>2 DEF Parses, Parsing
<1>4. v # <<>>
  BY <1>3 DEF NonEmptyText
<1> QED
  BY <1>3, <1>4 DEF Nothing

\* A value that begins with a bracket ends where that bracket closes.
LEMMA SpansClose ==
  ASSUME NEW s \in Seq(Tokens), NEW o, NEW c, <<o, c>> \in Brackets,
         NEW i \in 1..Len(s), NEW j \in i..Len(s), s[i] = o, Parses(Part(s, i, j))
  PROVE  ClosesAt(s, i, o, c) = j
<1>1. i \in Nat \ {0} /\ Len(s) \in Nat /\ j \in Nat /\ i \in i..Len(s) /\ i - 1 \in Nat
  OBVIOUS
<1>2. o # c
  BY DEF Brackets
<1>0. PICK q, d : Scans(s, i, Len(s), o, c, q, d)
  BY <1>1, <1>2, ScanCounts, Zenon
<1>3. /\ CountsUp(s, i, Len(s), o, c, q, d)
      /\ q[i - 1] = 0 /\ d[i - 1] = 0
      /\ \A k \in Nat : d[k] = Depth(s, i, k, o, c)
  BY <1>0 DEF Scans
<1>4. AnswerMax \div 2 \in Nat
  BY FinderAssumption
<1>5. Part(s, i, j) \in Values[AnswerMax \div 2]
  BY DEF Parses, Parsing
<1>6. \A n \in Nat : \A a \in i..Len(s) : \A b \in a..Len(s) :
         q[a - 1] % 2 = 0 /\ Part(s, a, b) \in Values[n] => Balances(s, o, c, q, d, a, b)
  BY <1>1, <1>3, ValueBalances
<1>7. Balances(s, o, c, q, d, i, j)
  <2>1. q[i - 1] % 2 = 0
    BY <1>3
  <2> QED
    BY <1>1, <1>4, <1>5, <1>6, <2>1, Zenon
<1>8. s[j] = c /\ d[j] = 0 /\ \A k \in i..j - 1 : d[k] > 0
  BY <1>3, <1>7 DEF Balances
<1> DEFINE ends == {k \in i..Len(s) : s[k] = c /\ Depth(s, i, k, o, c) = 0}
<1>9. j \in ends
  BY <1>1, <1>3, <1>8
<1>10. \A k \in ends : j <= k
  <2> SUFFICES ASSUME NEW k \in ends, k < j PROVE FALSE
    OBVIOUS
  <2>1. k \in Nat /\ k \in i..j - 1 /\ Depth(s, i, k, o, c) = 0
    BY <1>1
  <2> QED
    BY <1>3, <1>8, <2>1
<1>11. \A k \in ends : k \in Nat
  OBVIOUS
<1>12. ClosesAt(s, i, o, c) = IF ends = {} THEN 0 ELSE Min(ends)
  BY Zenon DEF ClosesAt
<1> HIDE DEF ends
<1>13. Min(ends) = j
  <2>1. \A k \in ends : (\A l \in ends : k <= l) => k = j
    BY <1>1, <1>9, <1>10, <1>11
  <2> QED
    BY <1>9, <1>10, <2>1 DEF Min
<1> QED
  BY <1>9, <1>12, <1>13

\* The starts that Scan considers, and what it makes of them.
GoodStarts(s, o, c) == {i \in DOMAIN s : s[i] = o /\ LET e == ClosesAt(s, i, o, c) IN e # 0 /\ Parses(Part(s, i, e))}

LEMMA GoodIs ==
  ASSUME NEW s \in Seq(Tokens), NEW o, NEW c, <<o, c>> \in Brackets, NEW i \in 1..Len(s), NEW j \in 1..Len(s)
  PROVE  i < j /\ s[i] = o /\ Parses(Part(s, i, j)) <=> i \in GoodStarts(s, o, c) /\ j = ClosesAt(s, i, o, c)
<1>1. ASSUME i < j, s[i] = o, Parses(Part(s, i, j)) PROVE i \in GoodStarts(s, o, c) /\ j = ClosesAt(s, i, o, c)
  <2>1. j \in i..Len(s) /\ j # 0 /\ i \in DOMAIN s
    BY <1>1
  <2>2. ClosesAt(s, i, o, c) = j
    BY <1>1, <2>1, SpansClose
  <2> QED
    BY <1>1, <2>1, <2>2 DEF GoodStarts
<1>2. ASSUME i \in GoodStarts(s, o, c), j = ClosesAt(s, i, o, c) PROVE i < j /\ s[i] = o /\ Parses(Part(s, i, j))
  <2>1. s[i] = o /\ j # 0 /\ Parses(Part(s, i, j))
    BY <1>2 DEF GoodStarts
  <2>2. PICK k \in i..Len(s) : s[k] = c /\ k = j
    <3> DEFINE ends == {k \in i..Len(s) : s[k] = c /\ Depth(s, i, k, o, c) = 0}
    <3>1. j = IF ends = {} THEN 0 ELSE Min(ends)
      BY <1>2, Zenon DEF ClosesAt
    <3>2. ends # {} /\ ends \in SUBSET Nat
      BY <2>1, <3>1
    <3>3. ends \subseteq i..Len(s) /\ \A k \in ends : s[k] = c
      OBVIOUS
    <3> HIDE DEF ends
    <3>4. \E k \in ends : \A l \in ends : k <= l
      BY <3>2, LeastNumber
    <3>5. Min(ends) \in ends
      BY <3>4 DEF Min
    <3> QED
      BY <3>1, <3>2, <3>3, <3>5
  <2>3. o # c
    BY DEF Brackets
  <2> QED
    BY <2>1, <2>2, <2>3
<1> QED
  BY <1>1, <1>2

LEMMA ScanIs ==
  ASSUME NEW s \in Seq(Tokens), NEW o, NEW c, <<o, c>> \in Brackets
  PROVE  /\ (GoodStarts(s, o, c) = {}) <=> (Scan(s, o, c) = Nothing)
         /\ GoodStarts(s, o, c) # {} =>
               \E i \in GoodStarts(s, o, c) :
                  /\ \A k \in GoodStarts(s, o, c) : i <= k
                  /\ Scan(s, o, c) = Part(s, i, ClosesAt(s, i, o, c))
<1>1. GoodStarts(s, o, c) \in SUBSET Nat
  BY DEF GoodStarts
<1>2. Scan(s, o, c) = IF GoodStarts(s, o, c) = {} THEN Nothing
                      ELSE Part(s, Min(GoodStarts(s, o, c)), ClosesAt(s, Min(GoodStarts(s, o, c)), o, c))
  BY Zenon DEF Scan, GoodStarts
<1>3. GoodStarts(s, o, c) # {} => Min(GoodStarts(s, o, c)) \in GoodStarts(s, o, c) /\ \A k \in GoodStarts(s, o, c) : Min(GoodStarts(s, o, c)) <= k
  <2>1. GoodStarts(s, o, c) # {} => \E i \in GoodStarts(s, o, c) : \A k \in GoodStarts(s, o, c) : i <= k
    BY <1>1, LeastNumber
  <2> QED
    BY <2>1 DEF Min
<1>4. \A i \in GoodStarts(s, o, c) : Part(s, i, ClosesAt(s, i, o, c)) # Nothing
  BY ParsedIsWritten DEF GoodStarts
<1> QED
  BY <1>2, <1>3, <1>4

----------------------------------------------------------------------------
(* JsonFinder: the answers *)

FinderIInv == answer \in Seq(Tokens) /\ found = ExtractJson(answer)

LEMMA NothingInNothing == Scan(<<>>, "{", "}") = Nothing /\ Scan(<<>>, "[", "]") = Nothing /\ Fenced(<<>>) = {}
<1>1. <<>> \in Seq(Tokens) /\ DOMAIN <<>> = {}
  OBVIOUS
<1>2. <<"{", "}">> \in Brackets /\ <<"[", "]">> \in Brackets
  BY DEF Brackets
<1>3. GoodStarts(<<>>, "{", "}") = {} /\ GoodStarts(<<>>, "[", "]") = {}
  BY <1>1 DEF GoodStarts
<1>4. Scan(<<>>, "{", "}") = Nothing /\ Scan(<<>>, "[", "]") = Nothing
  BY <1>1, <1>2, <1>3, ScanIs
<1>5. FencesOf(<<>>) = {}
  BY <1>1 DEF FencesOf
<1>6. Fenced(<<>>) = {}
  BY <1>5 DEF Fenced, Bodies
<1> QED
  BY <1>4, <1>6

LEMMA InitFinderIInv == FinderInit => FinderIInv
<1>1. ExtractJson(<<>>) = Nothing
  BY NothingInNothing, Zenon DEF ExtractJson
<1>2. <<>> \in Seq(Tokens)
  OBVIOUS
<1> QED
  BY <1>1, <1>2 DEF FinderInit, FinderIInv

LEMMA NextFinderIInv == FinderIInv /\ [FinderNext]_finderVars => FinderIInv'
<1> SUFFICES ASSUME FinderIInv, [FinderNext]_finderVars PROVE FinderIInv'
  OBVIOUS
<1>1. CASE FinderNext
  <2>1. PICK t \in Tokens : answer' = Append(answer, t)
    BY <1>1 DEF FinderNext
  <2>2. answer' \in Seq(Tokens)
    BY <2>1, AppendProperties DEF FinderIInv
  <2>3. found' = ExtractJson(answer')
    BY <1>1 DEF FinderNext
  <2> QED
    BY <2>2, <2>3 DEF FinderIInv
<1>2. CASE UNCHANGED finderVars
  BY <1>2 DEF FinderIInv, finderVars
<1> QED
  BY <1>1, <1>2

LEMMA SpansAreGood ==
  ASSUME answer \in Seq(Tokens), NEW o, NEW c, <<o, c>> \in Brackets
  PROVE  /\ JsonSpans({o}) = {} <=> GoodStarts(answer, o, c) = {}
         /\ \A p \in JsonSpans({o}) : p[1] \in GoodStarts(answer, o, c) /\ p[2] = ClosesAt(answer, p[1], o, c)
         /\ \A i \in GoodStarts(answer, o, c) : <<i, ClosesAt(answer, i, o, c)>> \in JsonSpans({o})
<1>1. DOMAIN answer = 1..Len(answer)
  OBVIOUS
<1>2. \A p \in JsonSpans({o}) : p[1] \in GoodStarts(answer, o, c) /\ p[2] = ClosesAt(answer, p[1], o, c)
  <2> SUFFICES ASSUME NEW p \in JsonSpans({o})
               PROVE  p[1] \in GoodStarts(answer, o, c) /\ p[2] = ClosesAt(answer, p[1], o, c)
    OBVIOUS
  <2>1. /\ p[1] \in 1..Len(answer) /\ p[2] \in 1..Len(answer) /\ p[1] < p[2]
        /\ answer[p[1]] = o /\ Parses(Part(answer, p[1], p[2]))
    BY <1>1 DEF JsonSpans, Spans
  <2> QED
    BY <2>1, GoodIs
<1>3. \A i \in GoodStarts(answer, o, c) : <<i, ClosesAt(answer, i, o, c)>> \in JsonSpans({o})
  <2> SUFFICES ASSUME NEW i \in GoodStarts(answer, o, c) PROVE <<i, ClosesAt(answer, i, o, c)>> \in JsonSpans({o})
    OBVIOUS
  <2>1. i \in 1..Len(answer) /\ ClosesAt(answer, i, o, c) # 0
    BY <1>1 DEF GoodStarts
  <2>2. ClosesAt(answer, i, o, c) \in 1..Len(answer)
    <3> DEFINE ends == {k \in i..Len(answer) : answer[k] = c /\ Depth(answer, i, k, o, c) = 0}
    <3>1. ClosesAt(answer, i, o, c) = IF ends = {} THEN 0 ELSE Min(ends)
      BY Zenon DEF ClosesAt
    <3>2. ends # {} /\ ends \in SUBSET Nat /\ ends \subseteq 1..Len(answer)
      BY <2>1, <3>1
    <3> HIDE DEF ends
    <3>4. \E k \in ends : \A l \in ends : k <= l
      BY <3>2, LeastNumber
    <3>5. Min(ends) \in ends
      BY <3>4 DEF Min
    <3> QED
      BY <3>1, <3>2, <3>5
  <2>3. PICK j \in 1..Len(answer) : j = ClosesAt(answer, i, o, c)
    BY <2>2
  <2>4. i < j /\ answer[i] = o /\ Parses(Part(answer, i, j))
    BY <2>1, <2>3, GoodIs
  <2>5. <<i, j>> \in JsonSpans({o})
    BY <1>1, <2>1, <2>4 DEF JsonSpans, Spans
  <2> QED
    BY <2>3, <2>5
<1> QED
  BY <1>2, <1>3

LEMMA FenceParses ==
  ASSUME answer \in Seq(Tokens), Fenced(answer) # {}
  PROVE  ExtractJson(answer) # Nothing
<1> DEFINE first(b) == \A c \in Fenced(answer) : b[1] <= c[1]
           starts == {b[1] : b \in Fenced(answer)}
<1>1. \A b \in Fenced(answer) : b[1] \in Nat
  BY DEF Fenced, Bodies, FencesOf
<1>2. \E b \in Fenced(answer) : first(b)
  <2>1. starts \in SUBSET Nat /\ starts # {}
    BY <1>1
  <2>2. PICK n \in starts : \A k \in starts : n <= k
    <3> HIDE DEF starts
    <3> QED
      BY <2>1, LeastNumber
  <2> QED
    BY <2>2
<1> DEFINE p == CHOOSE b \in Fenced(answer) : first(b)
<1>3. p \in Fenced(answer)
  BY <1>2
<1>4. ExtractJson(answer) = Part(answer, p[1] + 1, p[2] - 1)
  BY Zenon DEF ExtractJson
<1>5. Parses(Part(answer, p[1] + 1, p[2] - 1))
  <2> HIDE DEF p
  <2> QED
    BY <1>3 DEF Fenced
<1> QED
  BY <1>4, <1>5, ParsedIsWritten

LEMMA FinderFinds ==
  ASSUME FinderIInv
  PROVE  FoundIfThere /\ FoundIsOutermost
<1>1. answer \in Seq(Tokens) /\ found = ExtractJson(answer)
  BY DEF FinderIInv
<1>2. <<"{", "}">> \in Brackets /\ <<"[", "]">> \in Brackets
  BY DEF Brackets
<1> DEFINE objects == GoodStarts(answer, "{", "}")
           arrays == GoodStarts(answer, "[", "]")
<1>3. /\ (JsonSpans({"{"}) = {}) <=> (objects = {})
      /\ (JsonSpans({"["}) = {}) <=> (arrays = {})
  BY <1>1, <1>2, SpansAreGood
<1>4. JsonSpans({"{", "["}) = JsonSpans({"{"}) \cup JsonSpans({"["})
  BY DEF JsonSpans
<1>5. /\ (objects = {}) <=> (Scan(answer, "{", "}") = Nothing)
      /\ (arrays = {}) <=> (Scan(answer, "[", "]") = Nothing)
  BY <1>1, <1>2, ScanIs
<1>6. Fenced(answer) = {} => found = IF objects # {} THEN Scan(answer, "{", "}") ELSE Scan(answer, "[", "]")
  BY <1>1, <1>5, Zenon DEF ExtractJson
<1>7. Fenced(answer) # {} => found # Nothing
  BY <1>1, FenceParses
<1> HIDE DEF objects, arrays
<1>8. FoundIfThere
  BY <1>3, <1>4, <1>5, <1>6, <1>7 DEF FoundIfThere
<1>9. FoundIsOutermost
  <2> SUFFICES ASSUME FencesOf(answer) = {}, found # Nothing
               PROVE  LET kind == IF JsonSpans({"{"}) # {} THEN {"{"} ELSE {"["}
                      IN  \E p \in JsonSpans(kind) :
                             /\ found = Part(answer, p[1], p[2])
                             /\ \A q \in JsonSpans(kind) \ {p} : ~(q[1] <= p[1] /\ p[2] <= q[2])
    BY DEF FoundIsOutermost
  <2>1. Fenced(answer) = {}
    BY DEF Fenced, Bodies
  <2>2. ASSUME NEW o, NEW c, <<o, c>> \in Brackets, GoodStarts(answer, o, c) # {}, found = Scan(answer, o, c)
        PROVE  \E p \in JsonSpans({o}) :
                  /\ found = Part(answer, p[1], p[2])
                  /\ \A q \in JsonSpans({o}) \ {p} : ~(q[1] <= p[1] /\ p[2] <= q[2])
    <3>1. PICK i \in GoodStarts(answer, o, c) :
             /\ \A k \in GoodStarts(answer, o, c) : i <= k
             /\ found = Part(answer, i, ClosesAt(answer, i, o, c))
      BY <1>1, <2>2, ScanIs
    <3> DEFINE p == <<i, ClosesAt(answer, i, o, c)>>
    <3>2. p \in JsonSpans({o}) /\ found = Part(answer, p[1], p[2])
      BY <1>1, <2>2, <3>1, SpansAreGood
    <3>3. ASSUME NEW q \in JsonSpans({o}), q[1] <= p[1] PROVE q = p
      <4>1. q[1] \in GoodStarts(answer, o, c) /\ q[2] = ClosesAt(answer, q[1], o, c)
        BY <1>1, <2>2, <3>3, SpansAreGood
      <4>2. i <= q[1] /\ q[1] <= i
        BY <3>1, <3>3, <4>1
      <4>3. q[1] \in Nat /\ i \in Nat /\ q = <<q[1], q[2]>>
        BY <1>1 DEF JsonSpans, Spans, GoodStarts
      <4>4. q[1] = i
        BY <4>2, <4>3
      <4> QED
        BY <4>1, <4>3, <4>4
    <3> QED
      BY <3>2, <3>3
  <2>3. CASE objects # {}
    <3>1. found = Scan(answer, "{", "}") /\ JsonSpans({"{"}) # {}
      BY <1>3, <1>6, <2>1, <2>3
    <3> QED
      BY <1>2, <2>2, <2>3, <3>1 DEF objects
  <2>4. CASE objects = {}
    <3>1. found = Scan(answer, "[", "]") /\ JsonSpans({"{"}) = {} /\ arrays # {}
      BY <1>3, <1>5, <1>6, <2>1, <2>4
    <3> QED
      BY <1>2, <2>2, <3>1 DEF arrays
  <2> QED
    BY <2>3, <2>4
<1> QED
  BY <1>8, <1>9

----------------------------------------------------------------------------
(* The grading of a bug hunt, as the benchmark does it *)

LEMMA HuntMoves == [MaintenanceNext]_AllVars => [MatchNext]_matchVars /\ [FinderNext]_finderVars
<1> SUFFICES ASSUME [MaintenanceNext]_AllVars PROVE [MatchNext]_matchVars /\ [FinderNext]_finderVars
  OBVIOUS
<1>1. CASE UNCHANGED AllVars
  BY <1>1 DEF AllVars
<1>2. CASE MaintenanceNext
  BY <1>2 DEF MaintenanceNext, MigrationStep, PullHere, HfStep, BenchRests
<1> QED
  BY <1>1, <1>2

\* What an answer's reports earn is what it holds: of an answer without a fenced value the
\* outermost first object is found whatever surrounds it, and an array where there is no
\* object; no bug is found twice, and no report is left that could find one.
THEOREM BugHuntsAreFair == MaintenanceSpec => []BugHuntFair
<1>1. MaintenanceInit => MatchIInv /\ FinderIInv
  BY InitMatchIInv, InitFinderIInv DEF MaintenanceInit
<1>2. MatchIInv /\ FinderIInv /\ [MaintenanceNext]_AllVars => (MatchIInv /\ FinderIInv)'
  BY HuntMoves, MatchStepKeeps, NextFinderIInv
<1>3. MaintenanceSpec => [](MatchIInv /\ FinderIInv)
  BY <1>1, <1>2, PTL DEF MaintenanceSpec
<1>4. MatchIInv /\ FinderIInv => BugHuntFair
  BY FinderFinds, MatchingFair DEF BugHuntFair
<1> QED
  BY <1>3, <1>4, PTL

\* What is so at the first number, and at each next one when it is so at the one
\* before, is so up to the last.
LEMMA UpTo ==
  ASSUME NEW a \in Nat, NEW b \in Nat, NEW S, a \in S, \A i \in a + 1..b : i - 1 \in S => i \in S
  PROVE  \A i \in a..b : i \in S
<1> DEFINE bad == {i \in a..b : i \notin S}
<1> SUFFICES ASSUME bad # {} PROVE FALSE
  OBVIOUS
<1>1. PICK i \in bad : \A m \in bad : i <= m
  <2>1. bad \in SUBSET Nat
    OBVIOUS
  <2> HIDE DEF bad
  <2> QED
    BY <2>1, LeastNumber
<1>2. i # a /\ i \in a + 1..b
  OBVIOUS
<1>3. i - 1 \in a..b /\ ~(i <= i - 1)
  BY <1>2
<1>4. i - 1 \notin bad
  BY <1>1, <1>3
<1>5. i - 1 \in S
  BY <1>3, <1>4
<1> QED
  BY <1>2, <1>5

\* A function of the numbers up to n that is defined by what it is at 0 and how it
\* goes on is there.
Recurs(A, n, base, step) == \E g \in [0..n -> A] : g[0] = base /\ \A i \in 1..n : g[i] = step[i][g[i - 1]]

LEMMA RecursionUpTo ==
  ASSUME NEW A, NEW n \in Nat, NEW base \in A, NEW step \in [1..n -> [A -> A]]
  PROVE  Recurs(A, n, base, step)
<1> DEFINE Sol(m, g) == g \in [0..m -> A] /\ g[0] = base /\ \A i \in 1..m : g[i] = step[i][g[i - 1]]
           S == {m \in 0..n : \E g : Sol(m, g)}
<1>1. 0 \in S
  <2> DEFINE h == [i \in 0..0 |-> base]
  <2>1. h \in [0..0 -> A] /\ h[0] = base /\ 0 \in 0..n
    OBVIOUS
  <2> HIDE DEF h
  <2>2. \E g : Sol(0, g)
    BY <2>1
  <2> QED
    BY <2>1, <2>2
<1>2. ASSUME NEW m \in 0 + 1..n, m - 1 \in S PROVE m \in S
  <2>1. PICK g : Sol(m - 1, g)
    BY <1>2
  <2> DEFINE h == [i \in 0..m |-> IF i = m THEN step[m][g[m - 1]] ELSE g[i]]
  <2>2. g[m - 1] \in A /\ step[m] \in [A -> A] /\ \A i \in 0..m - 1 : g[i] \in A
    BY <2>1
  <2>3. h \in [0..m -> A]
    BY <2>2
  <2>4. h[0] = base
    BY <2>1
  <2>5. ASSUME NEW i \in 1..m PROVE h[i] = step[i][h[i - 1]]
    <3>1. h[i - 1] = g[i - 1]
      OBVIOUS
    <3>2. CASE i = m
      BY <3>1, <3>2
    <3>3. CASE i # m
      <4>1. i \in 1..m - 1
        BY <3>3
      <4> QED
        BY <4>1, <3>1, <3>3, <2>1
    <3> QED
      BY <3>2, <3>3
  <2>6. Sol(m, h)
    BY <2>3, <2>4, <2>5
  <2> HIDE DEF h
  <2> QED
    BY <2>6
<1>3. n \in S
  <2> HIDE DEF S
  <2>1. \A i \in 0..n : i \in S
    BY <1>1, <1>2, UpTo
  <2> QED
    BY <2>1
<1> QED
  BY <1>3 DEF Recurs

----------------------------------------------------------------------------
(* BenchLoop *)

Versions == {"good", "bare", "bad", "broken"}
Paths == Dirs \X Files
Entries == [key : Paths, value : Versions]
Dicts == Seq(Entries)
Trees == [Files -> Versions \cup {"base"}]
ReplyShape == [text : BOOLEAN, files : Dicts]

\* What is in a dict after a key is set: the key with its new value, and what was there
\* under other keys.
SetTo(old, key, value, new) ==
    /\ new \in Dicts
    /\ \A i \in 1..Len(new) : \/ new[i].key = key /\ new[i].value = value
                              \/ \E j \in 1..Len(old) : new[i] = old[j] /\ old[j].key # key
    /\ \A j \in 1..Len(old) : \E i \in 1..Len(new) : new[i].key = old[j].key
    /\ \E i \in 1..Len(new) : new[i].key = key

LEMMA SetSets ==
  ASSUME NEW d \in Dicts, NEW key \in Paths, NEW value \in Versions
  PROVE  SetTo(d, key, value, Set(d, key, value))
<1>1. PICK z \in Nat : z = Len(d) /\ DOMAIN d = 1..z
  BY LenProperties DEF Dicts
<1>2. \A i \in 1..z : d[i] \in Entries
  BY <1>1, ElementOfSeq DEF Dicts
<1> DEFINE e == [key |-> key, value |-> value]
<1>3. e \in Entries /\ e.key = key /\ e.value = value
  BY DEF Entries
<1> HIDE DEF e
<1>4. CASE \E i \in DOMAIN d : d[i].key = key
  <2> DEFINE new == [i \in DOMAIN d |-> IF d[i].key = key THEN e ELSE d[i]]
  <2>1. Set(d, key, value) = new
    BY <1>4 DEF Set, e
  <2>2. new \in [1..z -> Entries] /\ \A i \in 1..z : new[i] = IF d[i].key = key THEN e ELSE d[i]
    BY <1>1, <1>2, <1>3
  <2> HIDE DEF new
  <2>3. new \in Dicts /\ Len(new) = z
    <3>1. new \in Dicts
      BY <2>2, SeqDef DEF Dicts
    <3>2. DOMAIN new = 1..z
      BY <2>2
    <3> QED
      BY <3>1, <3>2, LenProperties DEF Dicts
  <2>4. \A i \in 1..z : (new[i].key = key /\ new[i].value = value) \/ (\E j \in 1..z : new[i] = d[j] /\ d[j].key # key)
    BY <1>3, <2>2
  <2>5. \A j \in 1..z : \E i \in 1..z : new[i].key = d[j].key
    BY <1>3, <2>2
  <2>6. \E i \in 1..z : new[i].key = key
    BY <1>1, <1>3, <1>4, <2>2
  <2> QED
    BY <1>1, <2>1, <2>3, <2>4, <2>5, <2>6 DEF SetTo
<1>5. CASE ~ \E i \in DOMAIN d : d[i].key = key
  <2> DEFINE new == Append(d, e)
  <2>1. Set(d, key, value) = new
    BY <1>5 DEF Set, e
  <2>2. new \in Dicts /\ Len(new) = z + 1 /\ new[z + 1] = e /\ \A i \in 1..z : new[i] = d[i]
    BY <1>1, <1>3, AppendProperties DEF Dicts
  <2> HIDE DEF new
  <2>3. \A i \in 1..z + 1 : (new[i].key = key /\ new[i].value = value) \/ (\E j \in 1..z : new[i] = d[j] /\ d[j].key # key)
    <3> SUFFICES ASSUME NEW i \in 1..z + 1
                 PROVE  (new[i].key = key /\ new[i].value = value) \/ (\E j \in 1..z : new[i] = d[j] /\ d[j].key # key)
      OBVIOUS
    <3>1. CASE i = z + 1
      BY <1>3, <2>2, <3>1
    <3>2. CASE i \in 1..z
      BY <1>1, <1>5, <2>2, <3>2
    <3> QED
      BY <3>1, <3>2
  <2>4. \A j \in 1..z : \E i \in 1..z + 1 : new[i].key = d[j].key
    <3> SUFFICES ASSUME NEW j \in 1..z PROVE \E i \in 1..z + 1 : new[i].key = d[j].key
      OBVIOUS
    <3>1. j \in 1..z + 1
      OBVIOUS
    <3> QED
      BY <2>2, <3>1
  <2>5. \E i \in 1..z + 1 : new[i].key = key
    <3>1. z + 1 \in 1..z + 1
      OBVIOUS
    <3> QED
      BY <1>3, <2>2, <3>1
  <2> QED
    BY <1>1, <2>1, <2>2, <2>3, <2>4, <2>5 DEF SetTo
<1> QED
  BY <1>4, <1>5

LEMMA SetIs == \A d \in Dicts, k \in Paths, v \in Versions : Set(d, k, v) \in Dicts
  BY SetSets DEF SetTo

LEMMA BlockIs == \A b \in Block : Path(b) \in Paths /\ b.body \in Versions
  BY DEF Block, Path, Paths, Versions

\* What a dict has after the first blocks of a pass.
LEMMA PassingIs ==
  ASSUME NEW dict \in Dicts, NEW form, NEW blocks \in Seq(Block)
  PROVE  /\ Passing(dict, form, blocks) \in [0..Len(blocks) -> Dicts] /\ Passing(dict, form, blocks)[0] = dict
         /\ \A i \in 1..Len(blocks) : Passing(dict, form, blocks)[i] = IF blocks[i].form = form THEN Set(Passing(dict, form, blocks)[i - 1], Path(blocks[i]), blocks[i].body) ELSE Passing(dict, form, blocks)[i - 1]
<1> DEFINE n == Len(blocks)
           base == dict
           step == [i \in 1..n |-> [was \in Dicts |-> IF blocks[i].form = form THEN Set(was, Path(blocks[i]), blocks[i].body) ELSE was]]
           Eq(g) == g = [i \in 0..n |-> IF i = 0 THEN dict ELSE IF blocks[i].form = form THEN Set(g[i - 1], Path(blocks[i]), blocks[i].body) ELSE g[i - 1]]
           upto == CHOOSE g : Eq(g)
<1>1. n \in Nat /\ base \in Dicts /\ \A i \in 1..n : blocks[i] \in Block
  BY LenProperties, ElementOfSeq, EmptySeq
<1>2. \A i \in 1..n : \A was \in Dicts : (IF blocks[i].form = form THEN Set(was, Path(blocks[i]), blocks[i].body) ELSE was) \in Dicts
  <2> HIDE DEF n
  <2> QED
    BY <1>1, BlockIs, SetIs
<1>3. step \in [1..n -> [Dicts -> Dicts]]
  <2> HIDE DEF n
  <2> QED
    BY <1>2
<1>4. PICK g \in [0..n -> Dicts] : g[0] = base /\ \A i \in 1..n : g[i] = step[i][g[i - 1]]
  <2>1. Recurs(Dicts, n, base, step)
    <3> HIDE DEF n, base, step
    <3> QED
      BY <1>1, <1>3, RecursionUpTo
  <2> HIDE DEF step, n
  <2> QED
    BY <2>1 DEF Recurs
<1>5. Eq(g)
  <2>1. ASSUME NEW i \in 0..n PROVE g[i] = IF i = 0 THEN dict ELSE IF blocks[i].form = form THEN Set(g[i - 1], Path(blocks[i]), blocks[i].body) ELSE g[i - 1]
    <3>1. CASE i = 0
      BY <1>4, <3>1
    <3>2. CASE i # 0
      <4>1. i \in 1..n /\ g[i - 1] \in Dicts
        <5>1. i \in 1..n /\ i - 1 \in 0..n
          BY <1>1, <3>2
        <5> HIDE DEF n
        <5> QED
          BY <1>4, <5>1
      <4> HIDE DEF n
      <4> QED
        BY <1>4, <3>2, <4>1
    <3> QED
      BY <3>1, <3>2
  <2> QED
    BY <2>1
<1>6. Eq(upto)
  <2> HIDE DEF Eq
  <2> QED
    BY <1>5
<1>7. Passing(dict, form, blocks) = upto
  BY DEF Passing
<1> HIDE DEF upto
<1>8. upto[0] = dict /\ \A i \in 1..n : upto[i] = IF blocks[i].form = form THEN Set(upto[i - 1], Path(blocks[i]), blocks[i].body) ELSE upto[i - 1]
  <2>1. \A i \in 0..n : upto[i] = IF i = 0 THEN dict ELSE IF blocks[i].form = form THEN Set(upto[i - 1], Path(blocks[i]), blocks[i].body) ELSE upto[i - 1]
    BY <1>6
  <2>2. 0 \in 0..n /\ \A i \in 1..n : i \in 0..n /\ i # 0
    BY <1>1
  <2> HIDE DEF n
  <2> QED
    BY <2>1, <2>2
<1>9. \A i \in 0..n : upto[i] \in Dicts
  <2> DEFINE S == {i \in 0..n : upto[i] \in Dicts}
  <2>1. 0 \in S
    <3>1. 0 \in 0..n /\ upto[0] \in Dicts
      <4> HIDE DEF n
      <4> QED
        BY <1>1, <1>8
    <3> QED
      BY <3>1
  <2>2. ASSUME NEW i \in 0 + 1..n, i - 1 \in S PROVE i \in S
    <3>1. i \in 1..n /\ i \in 0..n /\ upto[i - 1] \in Dicts
      BY <1>1, <2>2
    <3>2. upto[i] \in Dicts
      <4> HIDE DEF n
      <4> QED
        BY <1>2, <1>8, <3>1
    <3> QED
      BY <3>1, <3>2
  <2> HIDE DEF S, n
  <2>3. \A i \in 0..n : i \in S
    BY <1>1, <2>1, <2>2, UpTo
  <2> QED
    BY <2>3 DEF S
<1>10. upto \in [0..n -> Dicts]
  <2>1. upto = [i \in 0..n |-> IF i = 0 THEN dict ELSE IF blocks[i].form = form THEN Set(upto[i - 1], Path(blocks[i]), blocks[i].body) ELSE upto[i - 1]]
    BY <1>6
  <2> HIDE DEF n
  <2> QED
    BY <1>9, <2>1
<1> QED
  BY <1>7, <1>8, <1>10

\* What it has after the first entries of another.
LEMMA UpdatingIs ==
  ASSUME NEW dict \in Dicts, NEW files \in Dicts
  PROVE  /\ Updating(dict, files) \in [0..Len(files) -> Dicts] /\ Updating(dict, files)[0] = dict
         /\ \A i \in 1..Len(files) : Updating(dict, files)[i] = Set(Updating(dict, files)[i - 1], files[i].key, files[i].value)
<1> DEFINE n == Len(files)
           base == dict
           step == [i \in 1..n |-> [was \in Dicts |-> Set(was, files[i].key, files[i].value)]]
           Eq(g) == g = [i \in 0..n |-> IF i = 0 THEN dict ELSE Set(g[i - 1], files[i].key, files[i].value)]
           upto == CHOOSE g : Eq(g)
<1>1. n \in Nat /\ base \in Dicts /\ \A i \in 1..n : files[i] \in Entries
  BY LenProperties, ElementOfSeq DEF Dicts
<1>2. \A i \in 1..n : \A was \in Dicts : (Set(was, files[i].key, files[i].value)) \in Dicts
  <2> HIDE DEF n
  <2> QED
    BY <1>1, SetIs DEF Entries
<1>3. step \in [1..n -> [Dicts -> Dicts]]
  <2> HIDE DEF n
  <2> QED
    BY <1>2
<1>4. PICK g \in [0..n -> Dicts] : g[0] = base /\ \A i \in 1..n : g[i] = step[i][g[i - 1]]
  <2>1. Recurs(Dicts, n, base, step)
    <3> HIDE DEF n, base, step
    <3> QED
      BY <1>1, <1>3, RecursionUpTo
  <2> HIDE DEF step, n
  <2> QED
    BY <2>1 DEF Recurs
<1>5. Eq(g)
  <2>1. ASSUME NEW i \in 0..n PROVE g[i] = IF i = 0 THEN dict ELSE Set(g[i - 1], files[i].key, files[i].value)
    <3>1. CASE i = 0
      BY <1>4, <3>1
    <3>2. CASE i # 0
      <4>1. i \in 1..n /\ g[i - 1] \in Dicts
        <5>1. i \in 1..n /\ i - 1 \in 0..n
          BY <1>1, <3>2
        <5> HIDE DEF n
        <5> QED
          BY <1>4, <5>1
      <4> HIDE DEF n
      <4> QED
        BY <1>4, <3>2, <4>1
    <3> QED
      BY <3>1, <3>2
  <2> QED
    BY <2>1
<1>6. Eq(upto)
  <2> HIDE DEF Eq
  <2> QED
    BY <1>5
<1>7. Updating(dict, files) = upto
  BY DEF Updating
<1> HIDE DEF upto
<1>8. upto[0] = dict /\ \A i \in 1..n : upto[i] = Set(upto[i - 1], files[i].key, files[i].value)
  <2>1. \A i \in 0..n : upto[i] = IF i = 0 THEN dict ELSE Set(upto[i - 1], files[i].key, files[i].value)
    BY <1>6
  <2>2. 0 \in 0..n /\ \A i \in 1..n : i \in 0..n /\ i # 0
    BY <1>1
  <2> HIDE DEF n
  <2> QED
    BY <2>1, <2>2
<1>9. \A i \in 0..n : upto[i] \in Dicts
  <2> DEFINE S == {i \in 0..n : upto[i] \in Dicts}
  <2>1. 0 \in S
    <3>1. 0 \in 0..n /\ upto[0] \in Dicts
      <4> HIDE DEF n
      <4> QED
        BY <1>1, <1>8
    <3> QED
      BY <3>1
  <2>2. ASSUME NEW i \in 0 + 1..n, i - 1 \in S PROVE i \in S
    <3>1. i \in 1..n /\ i \in 0..n /\ upto[i - 1] \in Dicts
      BY <1>1, <2>2
    <3>2. upto[i] \in Dicts
      <4> HIDE DEF n
      <4> QED
        BY <1>2, <1>8, <3>1
    <3> QED
      BY <3>1, <3>2
  <2> HIDE DEF S, n
  <2>3. \A i \in 0..n : i \in S
    BY <1>1, <2>1, <2>2, UpTo
  <2> QED
    BY <2>3 DEF S
<1>10. upto \in [0..n -> Dicts]
  <2>1. upto = [i \in 0..n |-> IF i = 0 THEN dict ELSE Set(upto[i - 1], files[i].key, files[i].value)]
    BY <1>6
  <2> HIDE DEF n
  <2> QED
    BY <1>9, <2>1
<1> QED
  BY <1>7, <1>8, <1>10

LEMMA UpdatedIs ==
  \A dict \in Dicts, files \in Dicts : Updating(dict, files)[Len(files)] \in Dicts
<1> SUFFICES ASSUME NEW dict \in Dicts, NEW files \in Dicts PROVE Updating(dict, files)[Len(files)] \in Dicts
  OBVIOUS
<1>1. Len(files) \in 0..Len(files)
  <2>1. Len(files) \in Nat
    BY LenProperties DEF Dicts
  <2> QED
    BY <2>1
<1>2. Updating(dict, files) \in [0..Len(files) -> Dicts]
  BY UpdatingIs
<1> QED
  BY <1>1, <1>2

LEMMA WriteIs == \A tree \in Trees, e \in Entries : WriteFile(tree, e) \in Trees
  BY DEF WriteFile, Trees, Entries, Paths

\* What it has after the first turns.
LEMMA MergingIs ==
  ASSUME NEW rs \in Seq(ReplyShape)
  PROVE  /\ Merging(rs) \in [0..Len(rs) -> Dicts] /\ Merging(rs)[0] = <<>>
         /\ \A i \in 1..Len(rs) : Merging(rs)[i] = Updating(Merging(rs)[i - 1], rs[i].files)[Len(rs[i].files)]
<1> DEFINE n == Len(rs)
           base == <<>>
           step == [i \in 1..n |-> [was \in Dicts |-> Updating(was, rs[i].files)[Len(rs[i].files)]]]
           Eq(g) == g = [i \in 0..n |-> IF i = 0 THEN <<>> ELSE Updating(g[i - 1], rs[i].files)[Len(rs[i].files)]]
           upto == CHOOSE g : Eq(g)
<1>1. n \in Nat /\ base \in Dicts /\ \A i \in 1..n : rs[i] \in ReplyShape
  BY LenProperties, ElementOfSeq, EmptySeq DEF Dicts
<1>2. \A i \in 1..n : \A was \in Dicts : (Updating(was, rs[i].files)[Len(rs[i].files)]) \in Dicts
  <2> HIDE DEF n
  <2> QED
    BY <1>1, UpdatedIs DEF ReplyShape
<1>3. step \in [1..n -> [Dicts -> Dicts]]
  <2> HIDE DEF n
  <2> QED
    BY <1>2
<1>4. PICK g \in [0..n -> Dicts] : g[0] = base /\ \A i \in 1..n : g[i] = step[i][g[i - 1]]
  <2>1. Recurs(Dicts, n, base, step)
    <3> HIDE DEF n, base, step
    <3> QED
      BY <1>1, <1>3, RecursionUpTo
  <2> HIDE DEF step, n
  <2> QED
    BY <2>1 DEF Recurs
<1>5. Eq(g)
  <2>1. ASSUME NEW i \in 0..n PROVE g[i] = IF i = 0 THEN <<>> ELSE Updating(g[i - 1], rs[i].files)[Len(rs[i].files)]
    <3>1. CASE i = 0
      BY <1>4, <3>1
    <3>2. CASE i # 0
      <4>1. i \in 1..n /\ g[i - 1] \in Dicts
        <5>1. i \in 1..n /\ i - 1 \in 0..n
          BY <1>1, <3>2
        <5> HIDE DEF n
        <5> QED
          BY <1>4, <5>1
      <4> HIDE DEF n
      <4> QED
        BY <1>4, <3>2, <4>1
    <3> QED
      BY <3>1, <3>2
  <2> QED
    BY <2>1
<1>6. Eq(upto)
  <2> HIDE DEF Eq
  <2> QED
    BY <1>5
<1>7. Merging(rs) = upto
  BY DEF Merging
<1> HIDE DEF upto
<1>8. upto[0] = <<>> /\ \A i \in 1..n : upto[i] = Updating(upto[i - 1], rs[i].files)[Len(rs[i].files)]
  <2>1. \A i \in 0..n : upto[i] = IF i = 0 THEN <<>> ELSE Updating(upto[i - 1], rs[i].files)[Len(rs[i].files)]
    BY <1>6
  <2>2. 0 \in 0..n /\ \A i \in 1..n : i \in 0..n /\ i # 0
    BY <1>1
  <2> HIDE DEF n
  <2> QED
    BY <2>1, <2>2
<1>9. \A i \in 0..n : upto[i] \in Dicts
  <2> DEFINE S == {i \in 0..n : upto[i] \in Dicts}
  <2>1. 0 \in S
    <3>1. 0 \in 0..n /\ upto[0] \in Dicts
      <4> HIDE DEF n
      <4> QED
        BY <1>1, <1>8
    <3> QED
      BY <3>1
  <2>2. ASSUME NEW i \in 0 + 1..n, i - 1 \in S PROVE i \in S
    <3>1. i \in 1..n /\ i \in 0..n /\ upto[i - 1] \in Dicts
      BY <1>1, <2>2
    <3>2. upto[i] \in Dicts
      <4> HIDE DEF n
      <4> QED
        BY <1>2, <1>8, <3>1
    <3> QED
      BY <3>1, <3>2
  <2> HIDE DEF S, n
  <2>3. \A i \in 0..n : i \in S
    BY <1>1, <2>1, <2>2, UpTo
  <2> QED
    BY <2>3 DEF S
<1>10. upto \in [0..n -> Dicts]
  <2>1. upto = [i \in 0..n |-> IF i = 0 THEN <<>> ELSE Updating(upto[i - 1], rs[i].files)[Len(rs[i].files)]]
    BY <1>6
  <2> HIDE DEF n
  <2> QED
    BY <1>9, <2>1
<1> QED
  BY <1>7, <1>8, <1>10

\* The tree after the first entries are written.
LEMMA WritingIs ==
  ASSUME NEW dict \in Dicts
  PROVE  /\ Writing(dict) \in [0..Len(dict) -> Trees] /\ Writing(dict)[0] = [f \in Files |-> "base"]
         /\ \A i \in 1..Len(dict) : Writing(dict)[i] = WriteFile(Writing(dict)[i - 1], dict[i])
<1> DEFINE n == Len(dict)
           base == [f \in Files |-> "base"]
           step == [i \in 1..n |-> [was \in Trees |-> WriteFile(was, dict[i])]]
           Eq(g) == g = [i \in 0..n |-> IF i = 0 THEN [f \in Files |-> "base"] ELSE WriteFile(g[i - 1], dict[i])]
           upto == CHOOSE g : Eq(g)
<1>1. n \in Nat /\ base \in Trees /\ \A i \in 1..n : dict[i] \in Entries
  BY LenProperties, ElementOfSeq DEF Trees, Dicts
<1>2. \A i \in 1..n : \A was \in Trees : (WriteFile(was, dict[i])) \in Trees
  <2> HIDE DEF n
  <2> QED
    BY <1>1, WriteIs
<1>3. step \in [1..n -> [Trees -> Trees]]
  <2> HIDE DEF n
  <2> QED
    BY <1>2
<1>4. PICK g \in [0..n -> Trees] : g[0] = base /\ \A i \in 1..n : g[i] = step[i][g[i - 1]]
  <2>1. Recurs(Trees, n, base, step)
    <3> HIDE DEF n, base, step
    <3> QED
      BY <1>1, <1>3, RecursionUpTo
  <2> HIDE DEF step, n
  <2> QED
    BY <2>1 DEF Recurs
<1>5. Eq(g)
  <2>1. ASSUME NEW i \in 0..n PROVE g[i] = IF i = 0 THEN [f \in Files |-> "base"] ELSE WriteFile(g[i - 1], dict[i])
    <3>1. CASE i = 0
      BY <1>4, <3>1
    <3>2. CASE i # 0
      <4>1. i \in 1..n /\ g[i - 1] \in Trees
        <5>1. i \in 1..n /\ i - 1 \in 0..n
          BY <1>1, <3>2
        <5> HIDE DEF n
        <5> QED
          BY <1>4, <5>1
      <4> HIDE DEF n
      <4> QED
        BY <1>4, <3>2, <4>1
    <3> QED
      BY <3>1, <3>2
  <2> QED
    BY <2>1
<1>6. Eq(upto)
  <2> HIDE DEF Eq
  <2> QED
    BY <1>5
<1>7. Writing(dict) = upto
  BY DEF Writing
<1> HIDE DEF upto
<1>8. upto[0] = [f \in Files |-> "base"] /\ \A i \in 1..n : upto[i] = WriteFile(upto[i - 1], dict[i])
  <2>1. \A i \in 0..n : upto[i] = IF i = 0 THEN [f \in Files |-> "base"] ELSE WriteFile(upto[i - 1], dict[i])
    BY <1>6
  <2>2. 0 \in 0..n /\ \A i \in 1..n : i \in 0..n /\ i # 0
    BY <1>1
  <2> HIDE DEF n
  <2> QED
    BY <2>1, <2>2
<1>9. \A i \in 0..n : upto[i] \in Trees
  <2> DEFINE S == {i \in 0..n : upto[i] \in Trees}
  <2>1. 0 \in S
    <3>1. 0 \in 0..n /\ upto[0] \in Trees
      <4> HIDE DEF n
      <4> QED
        BY <1>1, <1>8
    <3> QED
      BY <3>1
  <2>2. ASSUME NEW i \in 0 + 1..n, i - 1 \in S PROVE i \in S
    <3>1. i \in 1..n /\ i \in 0..n /\ upto[i - 1] \in Trees
      BY <1>1, <2>2
    <3>2. upto[i] \in Trees
      <4> HIDE DEF n
      <4> QED
        BY <1>2, <1>8, <3>1
    <3> QED
      BY <3>1, <3>2
  <2> HIDE DEF S, n
  <2>3. \A i \in 0..n : i \in S
    BY <1>1, <2>1, <2>2, UpTo
  <2> QED
    BY <2>3 DEF S
<1>10. upto \in [0..n -> Trees]
  <2>1. upto = [i \in 0..n |-> IF i = 0 THEN [f \in Files |-> "base"] ELSE WriteFile(upto[i - 1], dict[i])]
    BY <1>6
  <2> HIDE DEF n
  <2> QED
    BY <1>9, <2>1
<1> QED
  BY <1>7, <1>8, <1>10

\* No two of these paths go to one file.
Apart(K) == \A p, q \in K : p[2] = q[2] => p = q

\* A tree shows what a dict says of each file, and the codebase's where it says nothing.
Shows(tree, d, K) ==
    /\ tree \in Trees
    /\ \A i \in 1..Len(d) : d[i].key \in K /\ tree[d[i].key[2]] = d[i].value
    /\ \A f \in Files : tree[f] = "base" \/ \E i \in 1..Len(d) : d[i].key[2] = f

\* Where no file has two paths, the next entry is what is shown of its file.
LEMMA SetShows ==
  ASSUME NEW K \in SUBSET Paths, Apart(K), NEW d \in Dicts, NEW tree, Shows(tree, d, K),
         NEW e \in Entries, e.key \in K
  PROVE  Shows(WriteFile(tree, e), Set(d, e.key, e.value), K)
<1> DEFINE new == Set(d, e.key, e.value)
           after == WriteFile(tree, e)
<1>1. SetTo(d, e.key, e.value, new)
  BY SetSets DEF Entries
<1>2. e.key \in Paths /\ e.key[2] \in Files /\ e.value \in Versions /\ tree \in Trees
  BY DEF Entries, Paths, Shows
<1>3. after \in Trees /\ after[e.key[2]] = e.value /\ \A f \in Files : f # e.key[2] => after[f] = tree[f]
  <2>1. after \in Trees
    BY <1>2, WriteIs
  <2>2. after[e.key[2]] = e.value /\ \A f \in Files : f # e.key[2] => after[f] = tree[f]
    BY <1>2 DEF WriteFile, Trees
  <2> QED
    BY <2>1, <2>2
<1> HIDE DEF new, after
<1>4. ASSUME NEW i \in 1..Len(new) PROVE new[i].key \in K /\ after[new[i].key[2]] = new[i].value
  <2>1. CASE new[i].key = e.key /\ new[i].value = e.value
    BY <1>3, <2>1
  <2>2. CASE \E j \in 1..Len(d) : new[i] = d[j] /\ d[j].key # e.key
    <3>1. PICK j \in 1..Len(d) : new[i] = d[j] /\ d[j].key # e.key
      BY <2>2
    <3>2. d[j].key \in K /\ tree[d[j].key[2]] = d[j].value
      BY DEF Shows
    <3>3. d[j].key[2] # e.key[2] /\ d[j].key[2] \in Files
      BY <3>1, <3>2 DEF Apart, Paths
    <3> QED
      BY <1>3, <3>1, <3>2, <3>3
  <2> QED
    BY <1>1, <2>1, <2>2 DEF SetTo
<1>5. ASSUME NEW f \in Files, after[f] # "base" PROVE \E i \in 1..Len(new) : new[i].key[2] = f
  <2>1. CASE f = e.key[2]
    BY <1>1, <2>1 DEF SetTo
  <2>2. CASE f # e.key[2]
    <3>1. PICK j \in 1..Len(d) : d[j].key[2] = f
      BY <1>3, <1>5, <2>2 DEF Shows
    <3>2. PICK i \in 1..Len(new) : new[i].key = d[j].key
      BY <1>1 DEF SetTo
    <3> QED
      BY <3>1, <3>2
  <2> QED
    BY <2>1, <2>2
<1> QED
  BY <1>3, <1>4, <1>5 DEF Shows, new, after

\* The last of the first n entries for a file, or that there is none.
LastFor(files, n, f, k) ==
    k \in 1..n /\ files[k].key[2] = f /\ \A l \in k + 1..n : files[l].key[2] # f
NoneFor(files, n, f) == \A l \in 1..n : files[l].key[2] # f

\* A tree over which the first n entries were written.
WrittenOver(tree, files, n, after) ==
    \A f \in Files : \/ NoneFor(files, n, f) /\ after[f] = tree[f]
                     \/ \E k \in 1..n : LastFor(files, n, f, k) /\ after[f] = files[k].value

LEMMA OverGrows ==
  ASSUME NEW tree, NEW files \in Dicts, NEW n \in Nat, n + 1 \in 1..Len(files), NEW was \in Trees, WrittenOver(tree, files, n, was)
  PROVE  WrittenOver(tree, files, n + 1, WriteFile(was, files[n + 1]))
<1> DEFINE e == files[n + 1]
           after == WriteFile(was, e)
<1>1. e \in Entries
  BY ElementOfSeq DEF Dicts
<1>2. after[e.key[2]] = e.value /\ \A f \in Files : f # e.key[2] => after[f] = was[f]
  BY <1>1 DEF WriteFile, Trees, Entries, Paths
<1>3. SUFFICES ASSUME NEW f \in Files
               PROVE  \/ NoneFor(files, n + 1, f) /\ after[f] = tree[f]
                      \/ \E k \in 1..n + 1 : LastFor(files, n + 1, f, k) /\ after[f] = files[k].value
  BY DEF WrittenOver
<1>4. \A l \in 1..n + 1 : l \in 1..n \/ l = n + 1
  OBVIOUS
<1>5. CASE f = e.key[2]
  <2>1. n + 1 \in 1..n + 1 /\ LastFor(files, n + 1, f, n + 1)
    BY <1>5 DEF LastFor
  <2> QED
    BY <1>2, <1>5, <2>1
<1>6. CASE f # e.key[2] /\ NoneFor(files, n, f) /\ was[f] = tree[f]
  BY <1>2, <1>4, <1>6 DEF NoneFor
<1>7. CASE f # e.key[2] /\ \E k \in 1..n : LastFor(files, n, f, k) /\ was[f] = files[k].value
  <2>1. PICK k \in 1..n : LastFor(files, n, f, k) /\ was[f] = files[k].value
    BY <1>7
  <2>2. k \in 1..n + 1 /\ \A l \in k + 1..n + 1 : l \in k + 1..n \/ l = n + 1
    OBVIOUS
  <2>3. LastFor(files, n + 1, f, k)
    BY <1>7, <2>1, <2>2 DEF LastFor
  <2> QED
    BY <1>2, <1>7, <2>1, <2>2, <2>3
<1> QED
  BY <1>5, <1>6, <1>7 DEF WrittenOver

\* What a dict shows after it is updated.
LEMMA UpdatingShows ==
  ASSUME NEW K \in SUBSET Paths, Apart(K), NEW d \in Dicts, NEW tree, Shows(tree, d, K),
         NEW files \in Dicts, \A i \in 1..Len(files) : files[i].key \in K
  PROVE  \E after : Shows(after, Updating(d, files)[Len(files)], K) /\ WrittenOver(tree, files, Len(files), after)
<1>1. PICK z \in Nat : z = Len(files)
  BY LenProperties DEF Dicts
<1> DEFINE u == Updating(d, files)
           S == {n \in 0..z : \E after : Shows(after, u[n], K) /\ WrittenOver(tree, files, n, after)}
<1>2. /\ u \in [0..z -> Dicts] /\ u[0] = d
      /\ \A i \in 1..z : u[i] = Set(u[i - 1], files[i].key, files[i].value)
  BY <1>1, UpdatingIs
<1> HIDE DEF u
<1>3. 0 \in S
  <2>1. WrittenOver(tree, files, 0, tree)
    BY DEF WrittenOver, NoneFor
  <2> QED
    BY <1>2, <2>1
<1>4. ASSUME NEW i \in 0 + 1..z, i - 1 \in S PROVE i \in S
  <2>1. PICK was : Shows(was, u[i - 1], K) /\ WrittenOver(tree, files, i - 1, was)
    BY <1>4
  <2>2. i \in 1..z /\ i - 1 \in 0..z /\ i - 1 \in Nat /\ i = (i - 1) + 1
    BY <1>1, <1>4
  <2>3. files[i] \in Entries /\ files[i].key \in K
    BY <1>1, <2>2, ElementOfSeq DEF Dicts
  <2>4. Shows(WriteFile(was, files[i]), u[i], K)
    BY <1>2, <2>1, <2>2, <2>3, SetShows
  <2>5. WrittenOver(tree, files, i, WriteFile(was, files[i]))
    <3>1. was \in Trees
      BY <2>1 DEF Shows
    <3>2. (i - 1) + 1 \in 1..Len(files)
      BY <1>1, <2>2
    <3> QED
      BY <2>1, <2>2, <3>1, <3>2, OverGrows
  <2> QED
    BY <2>2, <2>4, <2>5
<1> HIDE DEF S
<1>5. z \in S
  <2>1. \A i \in 0..z : i \in S
    BY <1>1, <1>3, <1>4, UpTo
  <2> QED
    BY <1>1, <2>1
<1> QED
  BY <1>1, <1>5 DEF S, u

\* The last of the first n turns that wrote a file, or that none did.
Wrote(r, f) == \E k \in 1..Len(r.files) : r.files[k].key[2] = f
LastTurn(rs, n, f, i) == i \in 1..n /\ Wrote(rs[i], f) /\ \A j \in i + 1..n : ~Wrote(rs[j], f)

\* A tree that has of each file what the last of the first n turns that wrote it left.
After(rs, n, tree) ==
    \A f \in Files :
        \/ (\A j \in 1..n : ~Wrote(rs[j], f)) /\ tree[f] = "base"
        \/ \E i \in 1..n : /\ LastTurn(rs, n, f, i)
                           /\ \E k \in 1..Len(rs[i].files) : /\ LastFor(rs[i].files, Len(rs[i].files), f, k)
                                                             /\ tree[f] = rs[i].files[k].value

LEMMA AfterGrows ==
  ASSUME NEW rs, NEW n \in Nat, NEW was, After(rs, n, was), NEW tree,
         WrittenOver(was, rs[n + 1].files, Len(rs[n + 1].files), tree)
  PROVE  After(rs, n + 1, tree)
<1> DEFINE files == rs[n + 1].files
           Left(i, f, t) == \E k \in 1..Len(rs[i].files) : /\ LastFor(rs[i].files, Len(rs[i].files), f, k)
                                                           /\ t[f] = rs[i].files[k].value
<1>1. SUFFICES ASSUME NEW f \in Files
               PROVE  \/ (\A j \in 1..n + 1 : ~Wrote(rs[j], f)) /\ tree[f] = "base"
                      \/ \E i \in 1..n + 1 : LastTurn(rs, n + 1, f, i) /\ Left(i, f, tree)
  BY DEF After
<1>2. \A j \in 1..n + 1 : j \in 1..n \/ j = n + 1
  OBVIOUS
<1>3. CASE \E k \in 1..Len(files) : LastFor(files, Len(files), f, k) /\ tree[f] = files[k].value
  <2>1. Wrote(rs[n + 1], f)
    BY <1>3 DEF LastFor, Wrote
  <2>2. n + 1 \in 1..n + 1 /\ \A j \in (n + 1) + 1..n + 1 : FALSE
    OBVIOUS
  <2>3. LastTurn(rs, n + 1, f, n + 1)
    BY <2>1, <2>2 DEF LastTurn
  <2>4. Left(n + 1, f, tree)
    BY <1>3
  <2> HIDE DEF Left
  <2> QED
    BY <2>2, <2>3, <2>4
<1>4. CASE NoneFor(files, Len(files), f) /\ tree[f] = was[f]
  <2>1. ~Wrote(rs[n + 1], f)
    BY <1>4 DEF NoneFor, Wrote
  <2>2. CASE (\A j \in 1..n : ~Wrote(rs[j], f)) /\ was[f] = "base"
    BY <1>2, <1>4, <2>1, <2>2
  <2>3. CASE \E i \in 1..n : LastTurn(rs, n, f, i) /\ Left(i, f, was)
    <3>1. PICK i \in 1..n : LastTurn(rs, n, f, i) /\ Left(i, f, was)
      BY <2>3
    <3>2. i \in 1..n + 1 /\ \A j \in i + 1..n + 1 : j \in i + 1..n \/ j = n + 1
      OBVIOUS
    <3>3. LastTurn(rs, n + 1, f, i)
      BY <2>1, <3>1, <3>2 DEF LastTurn
    <3>4. Left(i, f, tree)
      BY <1>4, <3>1
    <3> HIDE DEF Left
    <3> QED
      BY <3>2, <3>3, <3>4
  <2> QED
    BY <2>2, <2>3 DEF After
<1> QED
  BY <1>3, <1>4 DEF WrittenOver

\* What the turns' answers show together.
LEMMA MergingShows ==
  ASSUME NEW K \in SUBSET Paths, Apart(K), NEW rs \in Seq(ReplyShape),
         \A i \in 1..Len(rs) : \A k \in 1..Len(rs[i].files) : rs[i].files[k].key \in K
  PROVE  \E tree : Shows(tree, Merged(rs), K) /\ After(rs, Len(rs), tree)
<1>1. PICK z \in Nat : z = Len(rs)
  BY LenProperties
<1> DEFINE u == Merging(rs)
           S == {n \in 0..z : \E tree : Shows(tree, u[n], K) /\ After(rs, n, tree)}
<1>2. /\ u \in [0..z -> Dicts] /\ u[0] = <<>>
      /\ \A i \in 1..z : u[i] = Updating(u[i - 1], rs[i].files)[Len(rs[i].files)]
  BY <1>1, MergingIs
<1>3. u[z] = Merged(rs)
  BY <1>1 DEF Merged
<1> HIDE DEF u
<1>4. 0 \in S
  <2> DEFINE tree == [f \in Files |-> "base"]
  <2>1. tree \in Trees /\ \A f \in Files : tree[f] = "base"
    BY DEF Trees
  <2> HIDE DEF tree
  <2>2. Shows(tree, <<>>, K)
    <3>1. \A i \in 1..Len(<<>>) : FALSE
      BY EmptySeq
    <3> QED
      BY <2>1, <3>1 DEF Shows
  <2>3. After(rs, 0, tree)
    BY <2>1 DEF After
  <2> QED
    BY <1>2, <2>2, <2>3
<1>5. ASSUME NEW i \in 0 + 1..z, i - 1 \in S PROVE i \in S
  <2>1. PICK was : Shows(was, u[i - 1], K) /\ After(rs, i - 1, was)
    BY <1>5
  <2>2. i \in 1..z /\ i - 1 \in 0..z /\ i - 1 \in Nat /\ (i - 1) + 1 = i
    BY <1>1, <1>5
  <2>3. rs[i].files \in Dicts /\ \A k \in 1..Len(rs[i].files) : rs[i].files[k].key \in K
    <3>1. rs[i] \in ReplyShape
      BY <1>1, <2>2, ElementOfSeq
    <3> QED
      BY <1>1, <2>2, <3>1 DEF ReplyShape
  <2>4. PICK tree : Shows(tree, u[i], K) /\ WrittenOver(was, rs[i].files, Len(rs[i].files), tree)
    BY <1>2, <2>1, <2>2, <2>3, UpdatingShows
  <2>5. After(rs, i, tree)
    BY <2>1, <2>2, <2>4, AfterGrows
  <2> QED
    BY <2>2, <2>4, <2>5
<1> HIDE DEF S
<1>6. z \in S
  <2>1. \A i \in 0..z : i \in S
    BY <1>1, <1>4, <1>5, UpTo
  <2> QED
    BY <1>1, <2>1
<1> QED
  BY <1>1, <1>3, <1>6 DEF S

\* The tree that is graded shows the dict it is written from.
LEMMA SubmissionShows ==
  ASSUME NEW K \in SUBSET Paths, NEW d \in Dicts, NEW tree, Shows(tree, d, K)
  PROVE  Submission(d) = tree
<1>1. PICK z \in Nat : z = Len(d)
  BY LenProperties DEF Dicts
<1> DEFINE u == Writing(d)
           Early(n, f) == \E i \in 1..n : d[i].key[2] = f
           S == {n \in 0..z : \A f \in Files : u[n][f] = IF Early(n, f) THEN tree[f] ELSE "base"}
<1>2. /\ u \in [0..z -> Trees] /\ u[0] = [f \in Files |-> "base"]
      /\ \A i \in 1..z : u[i] = WriteFile(u[i - 1], d[i])
  BY <1>1, WritingIs
<1>3. u[z] = Submission(d)
  BY <1>1 DEF Submission
<1> HIDE DEF u
<1>4. 0 \in S
  BY <1>2
<1>5. ASSUME NEW i \in 0 + 1..z, i - 1 \in S PROVE i \in S
  <2>1. i \in 1..z /\ i \in 0..z /\ i - 1 \in 0..z /\ \A j \in 1..i : j \in 1..i - 1 \/ j = i
    BY <1>1, <1>5
  <2>2. d[i] \in Entries /\ u[i - 1] \in Trees /\ u[i] = WriteFile(u[i - 1], d[i]) /\ tree[d[i].key[2]] = d[i].value
    BY <1>1, <1>2, <2>1, ElementOfSeq DEF Dicts, Shows
  <2>3. \A f \in Files : u[i][f] = IF f = d[i].key[2] THEN tree[f] ELSE u[i - 1][f]
    BY <2>2 DEF WriteFile, Trees, Entries, Paths
  <2>4. \A f \in Files : u[i - 1][f] = IF Early(i - 1, f) THEN tree[f] ELSE "base"
    BY <1>5
  <2>5. \A f \in Files : Early(i, f) <=> f = d[i].key[2] \/ Early(i - 1, f)
    <3>1. i \in 1..i /\ \A j \in 1..i - 1 : j \in 1..i
      BY <1>1, <2>1
    <3> QED
      BY <2>1, <3>1
  <2> HIDE DEF Early
  <2>6. \A f \in Files : u[i][f] = IF Early(i, f) THEN tree[f] ELSE "base"
    BY <2>3, <2>4, <2>5
  <2> QED
    BY <2>1, <2>6
<1> HIDE DEF S
<1>6. z \in S
  <2>1. \A i \in 0..z : i \in S
    BY <1>1, <1>4, <1>5, UpTo
  <2> QED
    BY <1>1, <2>1
<1>7. \A f \in Files : u[z][f] = tree[f]
  <2>1. \A f \in Files : tree[f] = "base" \/ Early(z, f)
    BY <1>1 DEF Shows
  <2> QED
    BY <1>6, <2>1 DEF S
<1>8. u[z] \in Trees /\ tree \in Trees
  BY <1>1, <1>2 DEF Shows
<1> QED
  BY <1>3, <1>7, <1>8 DEF Trees

\* What the code takes out of an answer.
LEMMA ExtractIs == \A blocks \in Seq(Block) : ExtractFiles(blocks) \in Dicts
<1> SUFFICES ASSUME NEW blocks \in Seq(Block) PROVE ExtractFiles(blocks) \in Dicts
  OBVIOUS
<1>1. Len(blocks) \in 0..Len(blocks)
  <2>1. Len(blocks) \in Nat
    BY LenProperties
  <2> QED
    BY <2>1
<1>2. \A dict \in Dicts, form \in 1..3 : Pass(dict, form, blocks) \in Dicts
  <2>1. ASSUME NEW dict \in Dicts, NEW form \in 1..3 PROVE Pass(dict, form, blocks) \in Dicts
    <3>1. Passing(dict, form, blocks) \in [0..Len(blocks) -> Dicts]
      BY PassingIs
    <3> QED
      BY <1>1, <3>1 DEF Pass
  <2> QED
    BY <2>1
<1>3. <<>> \in Dicts
  BY EmptySeq DEF Dicts
<1> QED
  BY <1>2, <1>3 DEF ExtractFiles

LEMMA MergedIs == \A rs \in Seq(ReplyShape) : Merged(rs) \in Dicts
<1> SUFFICES ASSUME NEW rs \in Seq(ReplyShape) PROVE Merged(rs) \in Dicts
  OBVIOUS
<1>1. Len(rs) \in 0..Len(rs)
  <2>1. Len(rs) \in Nat
    BY LenProperties
  <2> QED
    BY <2>1
<1>2. Merging(rs) \in [0..Len(rs) -> Dicts]
  BY MergingIs
<1> QED
  BY <1>1, <1>2 DEF Merged

GradeShape == [json : BOOLEAN, passed : 0..AllPass, files : Trees]

\* A grade counts no more files than there are.
LEMMA GradeIs == \A rs \in Seq(ReplyShape) : rs # <<>> => Grade(rs) \in GradeShape
<1> SUFFICES ASSUME NEW rs \in Seq(ReplyShape), rs # <<>> PROVE Grade(rs) \in GradeShape
  OBVIOUS
<1> DEFINE dict == Merged(rs)
           sub == Submission(dict)
<1>1. dict \in Dicts
  BY MergedIs
<1>2. sub \in Trees
  <2>1. Len(dict) \in 0..Len(dict)
    <3>1. Len(dict) \in Nat
      BY <1>1, LenProperties DEF Dicts
    <3> QED
      BY <3>1
  <2>2. Writing(dict) \in [0..Len(dict) -> Trees]
    BY <1>1, WritingIs
  <2> QED
    BY <2>1, <2>2 DEF Submission
<1>3. Cardinality(Works(sub)) \in 0..AllPass /\ 0 \in 0..AllPass
  <2>1. Cardinality(Works(sub)) <= Cardinality(Files) /\ IsFiniteSet(Works(sub))
    BY BenchAssumption, FS_Subset DEF Works
  <2>2. Cardinality(Works(sub)) \in Nat /\ Cardinality(Files) \in Nat
    BY <2>1, BenchAssumption, FS_CardinalityType
  <2> QED
    BY <2>1, <2>2 DEF AllPass
<1>4. (IF Len(rs) = 1 THEN rs[1].text ELSE dict # <<>>) \in BOOLEAN
  <2>1. CASE Len(rs) = 1
    <3>1. rs[1] \in ReplyShape
      BY <2>1, ElementOfSeq
    <3> QED
      BY <2>1, <3>1 DEF ReplyShape
  <2>2. CASE Len(rs) # 1
    BY <2>2
  <2> QED
    BY <2>1, <2>2
<1>5. (IF \E f \in Files : sub[f] = "broken" THEN 0 ELSE Cardinality(Works(sub))) \in 0..AllPass
  BY <1>3
<1> HIDE DEF dict, sub
<1> QED
  BY <1>2, <1>4, <1>5 DEF Grade, GradeShape, dict, sub

LEMMA MaxIs ==
  ASSUME NEW S \in SUBSET Int, NEW x \in S, \A y \in S : y <= x
  PROVE  Max(S) = x
<1>1. \A y \in S : x >= y
  OBVIOUS
<1>2. \A w \in S : (\A y \in S : w >= y) => w = x
  OBVIOUS
<1> QED
  BY <1>1, <1>2 DEF Max

\* The last version of a file that one of these turns wrote.
Latest(D, f) ==
    LET turns == {i \in D : \E k \in DOMAIN replies[i].files : replies[i].files[k].key[2] = f}
        files == replies[Max(turns)].files
    IN  IF turns = {} THEN "base" ELSE files[Max({k \in DOMAIN files : files[k].key[2] = f})].value

\* A graded turn has of each file the last version.
LEMMA GradedLatest ==
  ASSUME replies \in Seq(ReplyShape), NEW n \in 1..Len(replies), NEW D, D = 1..n, OneSpelling, NEW f \in Files
  PROVE  Grade(SubSeq(replies, 1, n)).files[f] = Latest(D, f)
<1> DEFINE pre == SubSeq(replies, 1, n)
           turns == {i \in D : \E k \in DOMAIN replies[i].files : replies[i].files[k].key[2] = f}
           files == replies[Max(turns)].files
           named(i) == {k \in DOMAIN replies[i].files : replies[i].files[k].key[2] = f}
<1>1. PICK z \in Nat : z = Len(replies) /\ DOMAIN replies = 1..z
  BY LenProperties
<1>2. n \in Nat /\ \A i \in 1..n : i \in 1..z
  BY <1>1
<1>3. \A i \in 1..z : replies[i].files \in Dicts /\ DOMAIN replies[i].files = 1..Len(replies[i].files) /\ Len(replies[i].files) \in Nat
  <2> SUFFICES ASSUME NEW i \in 1..z
               PROVE  replies[i].files \in Dicts /\ DOMAIN replies[i].files = 1..Len(replies[i].files) /\ Len(replies[i].files) \in Nat
    OBVIOUS
  <2>1. replies[i] \in ReplyShape
    BY <1>1, ElementOfSeq
  <2>2. replies[i].files \in Dicts
    BY <2>1 DEF ReplyShape
  <2> QED
    BY <2>2, LenProperties DEF Dicts
<1>4. pre \in Seq(ReplyShape) /\ Len(pre) = n /\ \A i \in 1..n : pre[i] = replies[i]
  <2>1. n <= Len(replies)
    BY <1>1
  <2> QED
    BY <1>1, <1>2, <2>1, SubSeqProperties
<1> HIDE DEF pre
<1>5. PathsUsed \in SUBSET Paths
  <2>1. \A i \in 1..z : \A k \in 1..Len(replies[i].files) : replies[i].files[k].key \in Paths
    <3> SUFFICES ASSUME NEW i \in 1..z, NEW k \in 1..Len(replies[i].files) PROVE replies[i].files[k].key \in Paths
      OBVIOUS
    <3>1. replies[i].files[k] \in Entries
      BY <1>3, ElementOfSeq DEF Dicts
    <3> QED
      BY <3>1 DEF Entries
  <2> QED
    BY <1>1, <1>3, <2>1 DEF PathsUsed
<1>6. Apart(PathsUsed)
  BY DEF Apart, OneSpelling
<1>7. \A i \in 1..Len(pre) : \A k \in 1..Len(pre[i].files) : pre[i].files[k].key \in PathsUsed
  <2>1. \A i \in DOMAIN replies : \A k \in DOMAIN replies[i].files : replies[i].files[k].key \in PathsUsed
    BY DEF PathsUsed
  <2>2. \A i \in 1..n : pre[i].files = replies[i].files /\ i \in DOMAIN replies /\ DOMAIN replies[i].files = 1..Len(replies[i].files)
    BY <1>1, <1>2, <1>3, <1>4
  <2> QED
    BY <1>4, <2>1, <2>2
<1>8. PICK tree : Shows(tree, Merged(pre), PathsUsed) /\ After(pre, Len(pre), tree)
  BY <1>4, <1>5, <1>6, <1>7, MergingShows
<1>9. Grade(pre).files = tree
  <2>1. Merged(pre) \in Dicts
    BY <1>4, MergedIs
  <2>2. Submission(Merged(pre)) = tree
    BY <1>5, <1>8, <2>1, SubmissionShows
  <2> QED
    BY <2>2 DEF Grade
<1>10. CASE (\A j \in 1..n : ~Wrote(pre[j], f)) /\ tree[f] = "base"
  <2>1. turns = {}
    BY <1>2, <1>3, <1>4, <1>10 DEF Wrote
  <2> QED
    BY <1>9, <1>10, <2>1 DEF pre, Latest
<1>11. CASE \E i \in 1..n : /\ LastTurn(pre, n, f, i)
                            /\ \E k \in 1..Len(pre[i].files) : /\ LastFor(pre[i].files, Len(pre[i].files), f, k)
                                                               /\ tree[f] = pre[i].files[k].value
  <2>1. PICK i \in 1..n : /\ LastTurn(pre, n, f, i)
                          /\ \E k \in 1..Len(pre[i].files) : /\ LastFor(pre[i].files, Len(pre[i].files), f, k)
                                                             /\ tree[f] = pre[i].files[k].value
    BY <1>11
  <2>2. PICK k \in 1..Len(pre[i].files) : LastFor(pre[i].files, Len(pre[i].files), f, k) /\ tree[f] = pre[i].files[k].value
    BY <2>1
  <2>3. i \in turns
    BY <1>2, <1>3, <1>4, <2>1 DEF LastTurn, Wrote
  <2>4. \A j \in turns : j <= i
    <3> SUFFICES ASSUME NEW j \in turns, ~(j <= i) PROVE FALSE
      OBVIOUS
    <3>1. j \in 1..n /\ Wrote(pre[j], f)
      BY <1>2, <1>3, <1>4 DEF Wrote
    <3>2. j \in i + 1..n
      BY <1>2, <3>1
    <3> QED
      BY <2>1, <3>1, <3>2 DEF LastTurn
  <2>5. Max(turns) = i
    <3>1. turns \in SUBSET Int
      BY <1>2
    <3> HIDE DEF turns
    <3> QED
      BY <2>3, <2>4, <3>1, MaxIs
  <2>6. k \in named(i) /\ named(i) \in SUBSET Int /\ \A l \in named(i) : l <= k
    <3>1. k \in 1..Len(replies[i].files) /\ replies[i].files[k].key[2] = f
      BY <1>4, <2>2 DEF LastFor
    <3>2. ASSUME NEW l \in named(i), ~(l <= k) PROVE FALSE
      <4>1. l \in 1..Len(replies[i].files) /\ replies[i].files[l].key[2] = f /\ Len(replies[i].files) \in Nat
        BY <1>2, <1>3, <3>2
      <4>2. l \in k + 1..Len(pre[i].files)
        BY <1>4, <3>1, <3>2, <4>1
      <4> QED
        BY <1>4, <2>2, <4>1, <4>2 DEF LastFor
    <3> QED
      BY <1>2, <1>3, <3>1, <3>2
  <2>7. Max(named(i)) = k
    <3> HIDE DEF named
    <3> QED
      BY <2>6, MaxIs
  <2>8. files = replies[i].files /\ turns # {}
    BY <2>3, <2>5
  <2>9. tree[f] = replies[i].files[Max(named(i))].value
    BY <1>4, <2>2, <2>7
  <2> QED
    BY <1>9, <2>8, <2>9 DEF pre, Latest
<1> QED
  BY <1>4, <1>8, <1>10, <1>11 DEF After

Contents == {"prompt"} \cup ReplyShape \cup GradeShape \cup {NoCode}
Messages == [role : {"user", "assistant"}, content : Contents]

\* The n-th answer and what was said of the work up to it.
AskedOf(n) ==
    LET g == Grade(SubSeq(replies, 1, n))
    IN  /\ ~FullScore(g)
        /\ asked[2 * n] = Assistant(replies[n])
        /\ asked[2 * n + 1] = User(IF g.json THEN g ELSE NoCode)

\* q is how often the loop has asked again.
Conversation(q) ==
    /\ asked \in Seq(Messages) /\ Len(asked) = 2 * q + 1 /\ q <= Len(replies)
    /\ \A i \in 1..2 * q + 1 : asked[i].role = IF i % 2 = 1 THEN "user" ELSE "assistant"
    /\ \A n \in 1..q : AskedOf(n)
    /\ stage = "call" => q = Len(replies)

\* Each turn has its grade, of all that was written up to it, and each row its turn; the
\* loop goes on while its work fails and it has turns left.
BenchIInv ==
    /\ stage \in {"call", "grade", "persist", "done", "died"}
    /\ replies \in Seq(ReplyShape) /\ (stage = "grade" => Len(replies) >= 1)
    /\ grades \in Seq(GradeShape)
    /\ stage \in {"call", "persist", "done"} => Len(grades) = Len(replies)
    /\ stage = "grade" => Len(grades) + 1 = Len(replies)
    /\ Len(grades) <= Len(replies)
    /\ \A n \in 1..Len(grades) : grades[n] = Grade(SubSeq(replies, 1, n))
    /\ \E q \in Nat : Conversation(q) /\ (stage = "grade" => q + 1 = Len(replies))
    /\ stage \in {"persist", "done"} => Len(replies) = TurnLimit \/ FullScore(Grade(replies))
    /\ benchRows \in Seq([attempt : Nat, passed : 0..AllPass]) /\ Len(benchRows) <= Len(grades)
    /\ \A i \in 1..Len(benchRows) : benchRows[i].attempt = i /\ benchRows[i].passed = grades[i].passed
    /\ stage \in {"call", "grade"} => benchRows = <<>>
    /\ stage = "persist" => Len(benchRows) < Len(grades)
    /\ stage = "done" => Len(benchRows) = Len(grades)

LEMMA BenchInitial == BenchInit => BenchIInv
<1> SUFFICES ASSUME BenchInit PROVE BenchIInv
  OBVIOUS
<1>1. User("prompt") \in Messages
  BY DEF Messages, Contents, User
<1>2. asked \in Seq(Messages) /\ Len(asked) = 1 /\ asked[1] = User("prompt")
  BY <1>1 DEF BenchInit
<1>3. Conversation(0)
  <2>1. Len(asked) = 2 * 0 + 1 /\ 0 <= Len(replies) /\ 0 = Len(replies)
    BY <1>2 DEF BenchInit
  <2>2. \A i \in 1..2 * 0 + 1 : asked[i].role = IF i % 2 = 1 THEN "user" ELSE "assistant"
    <3>1. \A i \in 1..2 * 0 + 1 : i = 1 /\ i % 2 = 1
      OBVIOUS
    <3> QED
      BY <1>2, <3>1 DEF User
  <2> QED
    BY <1>2, <2>1, <2>2 DEF Conversation
<1>4. stage = "call" /\ replies = <<>> /\ grades = <<>> /\ benchRows = <<>>
  BY DEF BenchInit
<1>5. Len(replies) = 0 /\ Len(grades) = 0 /\ Len(benchRows) = 0 /\ replies \in Seq(ReplyShape)
      /\ grades \in Seq(GradeShape) /\ benchRows \in Seq([attempt : Nat, passed : 0..AllPass])
  BY <1>4, EmptySeq
<1>6. 0 \in Nat
  OBVIOUS
<1> QED
  BY <1>3, <1>4, <1>5, <1>6 DEF BenchIInv

\* What was said of the work before an answer is not changed by the answer.
LEMMA EarlierWork ==
  ASSUME NEW rs \in Seq(ReplyShape), NEW r \in ReplyShape, NEW n \in 1..Len(rs)
  PROVE  SubSeq(Append(rs, r), 1, n) = SubSeq(rs, 1, n) /\ Append(rs, r)[n] = rs[n]
<1>1. PICK z \in Nat : z = Len(rs)
  BY LenProperties
<1>2. Append(rs, r) \in Seq(ReplyShape) /\ Len(Append(rs, r)) = z + 1 /\ \A i \in 1..z : Append(rs, r)[i] = rs[i]
  BY <1>1, AppendProperties
<1> DEFINE more == Append(rs, r)
<1> HIDE DEF more
<1>3. n \in Nat /\ n <= z /\ n <= z + 1 /\ n \in 1..z + 1
  BY <1>1
<1>4. SubSeq(more, 1, n) \in Seq(ReplyShape) /\ Len(SubSeq(more, 1, n)) = n /\ \A i \in 1..n : SubSeq(more, 1, n)[i] = more[i]
  BY <1>2, <1>3, SubSeqProperties DEF more
<1>5. SubSeq(rs, 1, n) \in Seq(ReplyShape) /\ Len(SubSeq(rs, 1, n)) = n /\ \A i \in 1..n : SubSeq(rs, 1, n)[i] = rs[i]
  BY <1>1, <1>3, SubSeqProperties
<1>6. \A i \in 1..n : more[i] = rs[i]
  BY <1>1, <1>2, <1>3 DEF more
<1>7. SubSeq(more, 1, n) = SubSeq(rs, 1, n)
  <2> DEFINE s == SubSeq(more, 1, n)
             t == SubSeq(rs, 1, n)
  <2>1. s \in Seq(ReplyShape) /\ t \in Seq(ReplyShape) /\ Len(s) = Len(t) /\ \A i \in 1..Len(s) : s[i] = t[i]
    BY <1>4, <1>5, <1>6
  <2> HIDE DEF s, t
  <2>2. s = t
    BY <2>1, SeqEqual
  <2> QED
    BY <2>2 DEF s, t
<1> QED
  BY <1>2, <1>3, <1>6, <1>7, <1>1 DEF more

\* A model's answer is one more turn.
LEMMA CallKeeps == BenchIInv /\ (\E a \in Answers : Call(a)) => BenchIInv'
<1> SUFFICES ASSUME BenchIInv, NEW a \in Answers, Call(a) PROVE BenchIInv'
  OBVIOUS
<1> DEFINE r == [text |-> a.text, files |-> ExtractFiles(a.blocks)]
<1>1. r \in ReplyShape
  <2>1. a \in [text : BOOLEAN, blocks : Seq(Block)]
    BY BenchAssumption
  <2>2. a.text \in BOOLEAN /\ a.blocks \in Seq(Block)
    BY <2>1
  <2>3. ExtractFiles(a.blocks) \in Dicts
    BY <2>2, ExtractIs
  <2> QED
    BY <2>2, <2>3 DEF ReplyShape
<1>2. /\ stage = "call" /\ stage' = "grade" /\ replies' = Append(replies, r)
      /\ asked' = asked /\ grades' = grades /\ benchRows' = benchRows
  BY DEF Call
<1> HIDE DEF r
<1>3. PICK z \in Nat : z = Len(replies)
  BY LenProperties DEF BenchIInv
<1>4. replies \in Seq(ReplyShape) /\ Len(grades) = z /\ grades \in Seq(GradeShape) /\ benchRows = <<>>
  BY <1>2, <1>3 DEF BenchIInv
<1>5. replies' \in Seq(ReplyShape) /\ Len(replies') = z + 1
  BY <1>1, <1>2, <1>3, <1>4, AppendProperties
<1>6. \A n \in 1..z : SubSeq(replies', 1, n) = SubSeq(replies, 1, n) /\ replies'[n] = replies[n]
  BY <1>1, <1>2, <1>3, <1>4, EarlierWork
<1>7. PICK q \in Nat : Conversation(q)
  BY DEF BenchIInv
<1>8. Conversation(q)' /\ q = z
  <2>1. q = z /\ q <= Len(replies') /\ stage' # "call"
    BY <1>2, <1>3, <1>5, <1>7 DEF Conversation
  <2>2. \A n \in 1..q : AskedOf(n)'
    <3> SUFFICES ASSUME NEW n \in 1..q PROVE AskedOf(n)'
      OBVIOUS
    <3>1. AskedOf(n) /\ n \in 1..z
      BY <1>7, <2>1 DEF Conversation
    <3> QED
      BY <1>2, <1>6, <3>1 DEF AskedOf
  <2>3. asked' \in Seq(Messages) /\ Len(asked') = 2 * q + 1
        /\ \A i \in 1..2 * q + 1 : asked'[i].role = IF i % 2 = 1 THEN "user" ELSE "assistant"
    BY <1>2, <1>7 DEF Conversation
  <2> QED
    BY <2>1, <2>2, <2>3 DEF Conversation
<1>9. \A n \in 1..Len(grades') : grades'[n] = Grade(SubSeq(replies', 1, n))
  <2>1. \A n \in 1..z : grades[n] = Grade(SubSeq(replies, 1, n))
    BY <1>4 DEF BenchIInv
  <2> QED
    BY <1>2, <1>4, <1>6, <2>1
<1>10. \E p \in Nat : Conversation(p)' /\ (stage' = "grade" => p + 1 = Len(replies'))
  BY <1>5, <1>8
<1>11. Len(benchRows') = 0 /\ benchRows' = <<>> /\ benchRows' \in Seq([attempt : Nat, passed : 0..AllPass])
  BY <1>2, <1>4, EmptySeq
<1> QED
  BY <1>2, <1>3, <1>4, <1>5, <1>9, <1>10, <1>11 DEF BenchIInv

\* What is told of a grade is a message.
LEMMA FeedbackIs == \A g \in GradeShape : Feedback(g) \in Messages /\ Feedback(g) = User(IF g.json THEN g ELSE NoCode)
  BY DEF Feedback, User, Messages, Contents

LEMMA WholeOf == \A rs \in Seq(ReplyShape) : SubSeq(rs, 1, Len(rs)) = rs
<1> SUFFICES ASSUME NEW rs \in Seq(ReplyShape) PROVE SubSeq(rs, 1, Len(rs)) = rs
  OBVIOUS
<1> QED
  BY SubSeqFull

\* A turn is graded: the loop ends, or it asks again about the work.
LEMMA GradeTurnKeeps == BenchIInv /\ GradeTurn => BenchIInv'
<1> SUFFICES ASSUME BenchIInv, GradeTurn PROVE BenchIInv'
  OBVIOUS
<1> DEFINE g == Grade(replies)
<1>1. /\ stage = "grade" /\ grades' = Append(grades, g) /\ replies' = replies /\ benchRows' = benchRows
      /\ \/ /\ FullScore(g) \/ Len(replies) = TurnLimit
            /\ stage' = "persist" /\ asked' = asked
         \/ /\ ~(FullScore(g) \/ Len(replies) = TurnLimit)
            /\ stage' = "call"
            /\ asked' = asked \o <<Assistant(replies[Len(replies)]), Feedback(g)>>
  BY DEF GradeTurn, TurnGrade
<1>2. PICK z \in Nat : z + 1 = Len(replies) /\ Len(grades) = z
  <2>1. Len(grades) \in Nat
    BY LenProperties DEF BenchIInv
  <2> QED
    BY <1>1, <2>1 DEF BenchIInv
<1>3. replies \in Seq(ReplyShape) /\ replies # <<>> /\ SubSeq(replies, 1, z + 1) = replies /\ replies[z + 1] \in ReplyShape
  <2>1. replies \in Seq(ReplyShape)
    BY DEF BenchIInv
  <2>2. replies # <<>>
    BY <1>2, EmptySeq
  <2>3. z + 1 \in 1..Len(replies)
    BY <1>2
  <2> QED
    BY <1>2, <2>1, <2>2, <2>3, WholeOf, ElementOfSeq
<1>4. g \in GradeShape
  BY <1>3, GradeIs
<1> HIDE DEF g
<1>5. grades' \in Seq(GradeShape) /\ Len(grades') = z + 1 /\ grades'[z + 1] = g /\ \A i \in 1..z : grades'[i] = grades[i]
  BY <1>1, <1>2, <1>4, AppendProperties DEF BenchIInv
<1>6. \A n \in 1..Len(grades') : grades'[n] = Grade(SubSeq(replies', 1, n))
  <2>1. \A n \in 1..z : grades[n] = Grade(SubSeq(replies, 1, n))
    BY <1>2 DEF BenchIInv
  <2>2. \A n \in 1..z + 1 : n \in 1..z \/ n = z + 1
    OBVIOUS
  <2>3. g = Grade(SubSeq(replies, 1, z + 1))
    BY <1>3 DEF g
  <2> QED
    BY <1>1, <1>5, <2>1, <2>2, <2>3
<1>7. PICK q \in Nat : Conversation(q) /\ q + 1 = Len(replies)
  BY <1>1 DEF BenchIInv
<1>8. q = z
  BY <1>2, <1>7
<1>9. benchRows = <<>> /\ Len(benchRows) = 0
  BY <1>1, EmptySeq DEF BenchIInv
<1>10. AllPass \in Nat /\ g.passed \in 0..AllPass
  BY <1>4, BenchAssumption, FS_CardinalityType DEF AllPass, GradeShape
<1>11. CASE stage' = "persist"
  <2>1. (FullScore(g) \/ Len(replies) = TurnLimit) /\ asked' = asked
    BY <1>1, <1>11
  <2>2. Conversation(q)'
    <3>1. \A n \in 1..q : AskedOf(n)'
      BY <1>1, <1>7, <2>1 DEF Conversation, AskedOf
    <3>2. stage' # "call"
      BY <1>11
    <3> QED
      BY <1>1, <1>7, <2>1, <3>1, <3>2 DEF Conversation
  <2>3. \E p \in Nat : Conversation(p)' /\ (stage' = "grade" => p + 1 = Len(replies'))
    BY <1>11, <2>2
  <2>4. Len(replies') = TurnLimit \/ FullScore(Grade(replies'))
    BY <1>1, <1>10, <2>1 DEF g
  <2>5. Len(benchRows') < Len(grades') /\ Len(benchRows') <= Len(grades') /\ \A i \in 1..Len(benchRows') : FALSE
    BY <1>1, <1>5, <1>9
  <2>6. Len(replies') = z + 1 /\ replies' \in Seq(ReplyShape)
    BY <1>1, <1>2, <1>3
  <2>7. benchRows' \in Seq([attempt : Nat, passed : 0..AllPass])
    BY <1>1 DEF BenchIInv
  <2>8. /\ stage' \in {"call", "grade", "persist", "done", "died"} /\ stage' \notin {"call", "grade", "done"}
        /\ Len(grades') = Len(replies') /\ Len(grades') <= Len(replies')
    BY <1>5, <1>11, <2>6
  <2> QED
    BY <1>5, <1>6, <2>3, <2>4, <2>5, <2>6, <2>7, <2>8 DEF BenchIInv
<1>12. CASE stage' = "call"
  <2> DEFINE said == Assistant(replies[z + 1])
             told == Feedback(g)
  <2>1. ~(FullScore(g) \/ Len(replies) = TurnLimit) /\ asked' = asked \o <<said, told>>
    BY <1>1, <1>2, <1>12
  <2>2. said \in Messages /\ told \in Messages /\ said.role = "assistant" /\ told.role = "user"
        /\ said = Assistant(replies[z + 1]) /\ told = User(IF g.json THEN g ELSE NoCode)
    BY <1>3, <1>4, FeedbackIs DEF Messages, Contents, Assistant, User
  <2> HIDE DEF said, told
  <2>3. asked \in Seq(Messages) /\ Len(asked) = 2 * z + 1
        /\ \A i \in 1..2 * z + 1 : asked[i].role = IF i % 2 = 1 THEN "user" ELSE "assistant"
    BY <1>7, <1>8 DEF Conversation
  <2> DEFINE two == <<said, told>>
  <2>4. two \in Seq(Messages) /\ Len(two) = 2 /\ two[1] = said /\ two[2] = told
    BY <2>2
  <2> HIDE DEF two
  <2>5. /\ asked' \in Seq(Messages) /\ Len(asked') = 2 * z + 3
        /\ \A i \in 1..2 * z + 1 : asked'[i] = asked[i]
        /\ asked'[2 * z + 2] = said /\ asked'[2 * z + 3] = told
    <3>1. asked' = asked \o two
      BY <2>1 DEF two
    <3>2. PICK m \in Nat : m = 2 * z + 1
      OBVIOUS
    <3>3. /\ asked' \in Seq(Messages) /\ Len(asked') = m + 2
          /\ \A i \in 1..m : asked'[i] = asked[i]
          /\ asked'[m + 1] = two[1] /\ asked'[m + 2] = two[2]
      <4>1. \A s \in Seq(Messages), t \in Seq(Messages) :
              /\ s \o t \in Seq(Messages) /\ Len(s \o t) = Len(s) + Len(t)
              /\ \A i \in 1..Len(s) + Len(t) : (s \o t)[i] = IF i <= Len(s) THEN s[i] ELSE t[i - Len(s)]
        BY ConcatProperties
      <4>2. /\ asked' \in Seq(Messages) /\ Len(asked') = m + 2
            /\ \A i \in 1..m + 2 : asked'[i] = IF i <= m THEN asked[i] ELSE two[i - m]
        <5> DEFINE more == asked \o two
        <5>1. /\ more \in Seq(Messages) /\ Len(more) = Len(asked) + Len(two)
              /\ \A i \in 1..Len(asked) + Len(two) : more[i] = IF i <= Len(asked) THEN asked[i] ELSE two[i - Len(asked)]
          BY <2>3, <2>4, <4>1
        <5> HIDE DEF more
        <5>2. Len(asked) = m /\ Len(two) = 2 /\ asked' = more
          BY <2>3, <2>4, <3>1, <3>2 DEF more
        <5> QED
          BY <5>1, <5>2
      <4>3. m + 1 \in 1..m + 2 /\ m + 2 \in 1..m + 2 /\ ~(m + 1 <= m) /\ ~(m + 2 <= m)
            /\ (m + 1) - m = 1 /\ (m + 2) - m = 2
        BY <3>2
      <4>4. \A i \in 1..m : i \in 1..m + 2 /\ i <= m
        BY <3>2
      <4> QED
        BY <4>2, <4>3, <4>4
    <3> QED
      BY <2>4, <3>2, <3>3
  <2>6. \A i \in 1..2 * (z + 1) + 1 : asked'[i].role = IF i % 2 = 1 THEN "user" ELSE "assistant"
    <3> SUFFICES ASSUME NEW i \in 1..2 * (z + 1) + 1
                 PROVE  asked'[i].role = IF i % 2 = 1 THEN "user" ELSE "assistant"
      OBVIOUS
    <3>1. CASE i \in 1..2 * z + 1
      BY <2>3, <2>5, <3>1
    <3>2. CASE i = 2 * z + 2
      <4>1. i % 2 = 0
        BY <3>2
      <4> QED
        BY <2>2, <2>5, <3>2, <4>1
    <3>3. CASE i = 2 * z + 3
      <4>1. i % 2 = 1
        BY <3>3
      <4> QED
        BY <2>2, <2>5, <3>3, <4>1
    <3> QED
      BY <3>1, <3>2, <3>3
  <2>7. \A n \in 1..z + 1 : AskedOf(n)'
    <3> SUFFICES ASSUME NEW n \in 1..z + 1 PROVE AskedOf(n)'
      OBVIOUS
    <3>1. CASE n \in 1..z
      <4>1. AskedOf(n)
        BY <1>7, <1>8, <3>1 DEF Conversation
      <4>2. 2 * n \in 1..2 * z + 1 /\ 2 * n + 1 \in 1..2 * z + 1
        BY <3>1
      <4> QED
        BY <1>1, <2>5, <4>1, <4>2 DEF AskedOf
    <3>2. CASE n = z + 1
      <4>1. SubSeq(replies', 1, n) = replies /\ replies'[n] = replies[z + 1]
        BY <1>1, <1>3, <3>2
      <4>2. Grade(SubSeq(replies', 1, n)) = g
        BY <4>1 DEF g
      <4>3. ~FullScore(g)
        BY <1>10, <2>1
      <4>4. asked'[2 * n] = said /\ asked'[2 * n + 1] = told
        <5>1. 2 * n = 2 * z + 2 /\ 2 * n + 1 = 2 * z + 3
          BY <3>2
        <5> QED
          BY <2>5, <5>1
      <4> QED
        BY <2>2, <4>1, <4>2, <4>3, <4>4 DEF AskedOf
    <3> QED
      BY <3>1, <3>2
  <2>8. Conversation(z + 1)'
    <3>1. 2 * z + 3 = 2 * (z + 1) + 1
      OBVIOUS
    <3> QED
      BY <1>1, <1>2, <2>5, <2>6, <2>7, <3>1 DEF Conversation
  <2>9. \E p \in Nat : Conversation(p)' /\ (stage' = "grade" => p + 1 = Len(replies'))
    BY <1>12, <2>8
  <2>10. Len(benchRows') = 0 /\ benchRows' = <<>> /\ \A i \in 1..Len(benchRows') : FALSE
    BY <1>1, <1>9
  <2>11. Len(replies') = z + 1 /\ replies' \in Seq(ReplyShape)
    BY <1>1, <1>2, <1>3
  <2>12. benchRows' \in Seq([attempt : Nat, passed : 0..AllPass])
    BY <1>1 DEF BenchIInv
  <2> QED
    BY <1>5, <1>6, <1>12, <2>9, <2>10, <2>11, <2>12 DEF BenchIInv
<1> QED
  BY <1>1, <1>11, <1>12

\* A turn is recorded.
LEMMA PersistKeeps == BenchIInv /\ Persist => BenchIInv'
<1> SUFFICES ASSUME BenchIInv, Persist PROVE BenchIInv'
  OBVIOUS
<1> DEFINE R == [attempt : Nat, passed : 0..AllPass]
           row == [attempt |-> Len(benchRows) + 1, passed |-> grades[Len(benchRows) + 1].passed]
<1>1. /\ stage = "persist" /\ asked' = asked /\ replies' = replies /\ grades' = grades
      /\ benchRows' = Append(benchRows, row)
      /\ stage' = IF Len(benchRows') = Len(grades) THEN "done" ELSE "persist"
  BY DEF Persist
<1>2. PICK n \in Nat : n = Len(benchRows)
  BY LenProperties DEF BenchIInv
<1>3. PICK z \in Nat : z = Len(grades)
  BY LenProperties DEF BenchIInv
<1>4. n + 1 <= z /\ n + 1 \in 1..z
  <2>1. n < z
    BY <1>1, <1>2, <1>3 DEF BenchIInv
  <2> QED
    BY <2>1
<1>5. grades[n + 1] \in GradeShape
  BY <1>3, <1>4, ElementOfSeq DEF BenchIInv
<1>6. row \in R /\ row.attempt = n + 1 /\ row.passed = grades[n + 1].passed
  BY <1>2, <1>5 DEF GradeShape
<1>7. benchRows \in Seq(R) /\ \A i \in 1..n : benchRows[i].attempt = i /\ benchRows[i].passed = grades[i].passed
  BY <1>2 DEF BenchIInv
<1> HIDE DEF row, R
<1>8. benchRows' \in Seq(R) /\ Len(benchRows') = n + 1 /\ benchRows'[n + 1] = row /\ \A i \in 1..n : benchRows'[i] = benchRows[i]
  BY <1>1, <1>2, <1>6, <1>7, AppendProperties
<1>9. \A i \in 1..Len(benchRows') : benchRows'[i].attempt = i /\ benchRows'[i].passed = grades'[i].passed
  <2>1. \A i \in 1..n + 1 : i \in 1..n \/ i = n + 1
    OBVIOUS
  <2> QED
    BY <1>1, <1>6, <1>7, <1>8, <2>1
<1>10. /\ stage' \in {"persist", "done"} /\ stage' \notin {"call", "grade", "died"}
       /\ stage' = "done" => Len(benchRows') = Len(grades')
       /\ stage' = "persist" => Len(benchRows') < Len(grades')
       /\ Len(benchRows') <= Len(grades')
  BY <1>1, <1>3, <1>4, <1>8
<1>11. PICK q \in Nat : Conversation(q)
  BY DEF BenchIInv
<1>12. Conversation(q)'
  <2>1. \A i \in 1..q : AskedOf(i)'
    BY <1>1, <1>11 DEF Conversation, AskedOf
  <2> QED
    BY <1>1, <1>10, <1>11, <2>1 DEF Conversation
<1>13. \E p \in Nat : Conversation(p)' /\ (stage' = "grade" => p + 1 = Len(replies'))
  BY <1>10, <1>12
<1>14. /\ replies' \in Seq(ReplyShape) /\ grades' \in Seq(GradeShape) /\ Len(grades') = Len(replies') /\ Len(grades') <= Len(replies')
       /\ Len(replies') = TurnLimit \/ FullScore(Grade(replies'))
       /\ \A i \in 1..Len(grades') : grades'[i] = Grade(SubSeq(replies', 1, i))
  BY <1>1, <1>3 DEF BenchIInv
<1> QED
  BY <1>8, <1>9, <1>10, <1>13, <1>14 DEF BenchIInv, R

\* A loop that died leaves what it had.
LEMMA DieInLoopKeeps == BenchIInv /\ DieInLoop => BenchIInv'
<1> SUFFICES ASSUME BenchIInv, DieInLoop PROVE BenchIInv'
  OBVIOUS
<1>1. stage' = "died" /\ asked' = asked /\ replies' = replies /\ grades' = grades /\ benchRows' = benchRows
  BY DEF DieInLoop
<1>2. PICK q \in Nat : Conversation(q)
  BY DEF BenchIInv
<1>3. Conversation(q)'
  <2>1. \A i \in 1..q : AskedOf(i)'
    BY <1>1, <1>2 DEF Conversation, AskedOf
  <2> QED
    BY <1>1, <1>2, <2>1 DEF Conversation
<1>4. \E p \in Nat : Conversation(p)' /\ (stage' = "grade" => p + 1 = Len(replies'))
  BY <1>1, <1>3
<1> QED
  BY <1>1, <1>4 DEF BenchIInv

LEMMA BenchInductive == BenchSpec => []BenchIInv
<1>1. BenchIInv /\ [BenchNext]_benchVars => BenchIInv'
  <2> SUFFICES ASSUME BenchIInv, [BenchNext]_benchVars PROVE BenchIInv'
    OBVIOUS
  <2>1. CASE UNCHANGED benchVars
    <3>1. stage' = stage /\ asked' = asked /\ replies' = replies /\ grades' = grades /\ benchRows' = benchRows
      BY <2>1 DEF benchVars
    <3> QED
      BY <3>1 DEF BenchIInv, Conversation, AskedOf
  <2> QED
    BY <2>1, CallKeeps, GradeTurnKeeps, PersistKeeps, DieInLoopKeeps DEF BenchNext
<1> QED
  BY <1>1, BenchInitial, PTL DEF BenchSpec

\* For any files, paths, answers and number of turns: the work that is graded is the last
\* version of each file where no file went by two paths, the agent is asked again about
\* what it left, as long as that is short of the full score and turns are left, and each
\* turn has its row.
THEOREM LoopsAreHonest == BenchSpec => []LoopHonest
<1>1. BenchIInv => LoopHonest
  <2> SUFFICES ASSUME BenchIInv PROVE LoopHonest
    OBVIOUS
  <2>1. PICK z \in Nat : z = Len(replies)
    BY LenProperties DEF BenchIInv
  <2>2. PICK n \in Nat : n = Len(grades) /\ DOMAIN grades = 1..n
    BY LenProperties DEF BenchIInv
  <2>3. OnePathWins
    <3>1. ASSUME grades # <<>>, OneSpelling PROVE \A f \in Files : Last(grades).files[f] = Latest(DOMAIN grades, f)
      <4>1. n # 0 /\ n \in 1..n /\ n \in 1..Len(replies)
        <5>1. n # 0
          BY <2>2, <3>1, EmptySeq DEF BenchIInv
        <5>2. n <= z
          BY <2>1, <2>2 DEF BenchIInv
        <5> QED
          BY <2>1, <5>1, <5>2
      <4>2. Last(grades) = Grade(SubSeq(replies, 1, n))
        BY <2>2, <4>1 DEF BenchIInv, Last
      <4>3. replies \in Seq(ReplyShape)
        BY DEF BenchIInv
      <4>4. ASSUME NEW f \in Files PROVE Grade(SubSeq(replies, 1, n)).files[f] = Latest(DOMAIN grades, f)
        <5>1. DOMAIN grades = 1..n
          BY <2>2
        <5> QED
          BY <3>1, <4>1, <4>3, <5>1, GradedLatest
      <4> QED
        BY <4>2, <4>4
    <3> QED
      BY <3>1, Zenon DEF OnePathWins, LaterTurnsWin, Latest
  <2>4. AskedAboutItsWork
    <3>1. PICK q \in Nat : Conversation(q)
      BY DEF BenchIInv
    <3>2. Len(asked) = 2 * q + 1 /\ DOMAIN asked = 1..2 * q + 1
      BY <3>1, LenProperties DEF Conversation
    <3>3. \A i \in DOMAIN asked : asked[i].role = IF i % 2 = 1 THEN "user" ELSE "assistant"
      BY <3>1, <3>2 DEF Conversation
    <3>4. (Len(asked) - 1) \div 2 = q
      <4>1. \A p \in Nat : ((2 * p + 1) - 1) \div 2 = p
        OBVIOUS
      <4> QED
        BY <3>2, <4>1
    <3>5. \A i \in 1..q : AskedOf(i)
      BY <3>1 DEF Conversation
    <3>6. stage \in {"persist", "done"} => Len(replies) = TurnLimit \/ FullScore(Grade(replies))
      BY DEF BenchIInv
    <3> QED
      BY <3>3, <3>4, <3>5, <3>6 DEF AskedAboutItsWork, AskedOf
  <2>5. RowsAreTurns
    <3>1. DOMAIN benchRows = 1..Len(benchRows)
      BY LenProperties DEF BenchIInv
    <3> QED
      BY <3>1 DEF BenchIInv, RowsAreTurns
  <2> QED
    BY <2>3, <2>4, <2>5 DEF LoopHonest
<1> QED
  BY <1>1, BenchInductive, PTL

----------------------------------------------------------------------------
(* Spend *)

\* The sum of the first of several amounts.
LEMMA AddingIs ==
  ASSUME NEW amounts \in Seq(Nat)
  PROVE  /\ Adding(amounts) \in [0..Len(amounts) -> Nat] /\ Adding(amounts)[0] = 0
         /\ \A i \in 1..Len(amounts) : Adding(amounts)[i] = Adding(amounts)[i - 1] + amounts[i]
<1> DEFINE n == Len(amounts)
           base == 0
           step == [i \in 1..n |-> [was \in Nat |-> was + amounts[i]]]
           Eq(g) == g = [i \in 0..n |-> IF i = 0 THEN 0 ELSE g[i - 1] + amounts[i]]
           upto == CHOOSE g : Eq(g)
<1>1. n \in Nat /\ base \in Nat /\ \A i \in 1..n : amounts[i] \in Nat
  BY LenProperties, ElementOfSeq, EmptySeq
<1>2. \A i \in 1..n : \A was \in Nat : (was + amounts[i]) \in Nat
  <2> HIDE DEF n
  <2> QED
    BY <1>1
<1>3. step \in [1..n -> [Nat -> Nat]]
  <2> HIDE DEF n
  <2> QED
    BY <1>2
<1>4. PICK g \in [0..n -> Nat] : g[0] = base /\ \A i \in 1..n : g[i] = step[i][g[i - 1]]
  <2>1. Recurs(Nat, n, base, step)
    <3> HIDE DEF n, base, step
    <3> QED
      BY <1>1, <1>3, RecursionUpTo
  <2> HIDE DEF step, n
  <2> QED
    BY <2>1 DEF Recurs
<1>5. Eq(g)
  <2>1. ASSUME NEW i \in 0..n PROVE g[i] = IF i = 0 THEN 0 ELSE g[i - 1] + amounts[i]
    <3>1. CASE i = 0
      BY <1>4, <3>1
    <3>2. CASE i # 0
      <4>1. i \in 1..n /\ g[i - 1] \in Nat
        <5>1. i \in 1..n /\ i - 1 \in 0..n
          BY <1>1, <3>2
        <5> HIDE DEF n
        <5> QED
          BY <1>4, <5>1
      <4> HIDE DEF n
      <4> QED
        BY <1>4, <3>2, <4>1
    <3> QED
      BY <3>1, <3>2
  <2> QED
    BY <2>1
<1>6. Eq(upto)
  <2> HIDE DEF Eq
  <2> QED
    BY <1>5
<1>7. Adding(amounts) = upto
  BY DEF Adding
<1> HIDE DEF upto
<1>8. upto[0] = 0 /\ \A i \in 1..n : upto[i] = upto[i - 1] + amounts[i]
  <2>1. \A i \in 0..n : upto[i] = IF i = 0 THEN 0 ELSE upto[i - 1] + amounts[i]
    BY <1>6
  <2>2. 0 \in 0..n /\ \A i \in 1..n : i \in 0..n /\ i # 0
    BY <1>1
  <2> HIDE DEF n
  <2> QED
    BY <2>1, <2>2
<1>9. \A i \in 0..n : upto[i] \in Nat
  <2> DEFINE S == {i \in 0..n : upto[i] \in Nat}
  <2>1. 0 \in S
    <3>1. 0 \in 0..n /\ upto[0] \in Nat
      <4> HIDE DEF n
      <4> QED
        BY <1>1, <1>8
    <3> QED
      BY <3>1
  <2>2. ASSUME NEW i \in 0 + 1..n, i - 1 \in S PROVE i \in S
    <3>1. i \in 1..n /\ i \in 0..n /\ upto[i - 1] \in Nat
      BY <1>1, <2>2
    <3>2. upto[i] \in Nat
      <4> HIDE DEF n
      <4> QED
        BY <1>2, <1>8, <3>1
    <3> QED
      BY <3>1, <3>2
  <2> HIDE DEF S, n
  <2>3. \A i \in 0..n : i \in S
    BY <1>1, <2>1, <2>2, UpTo
  <2> QED
    BY <2>3 DEF S
<1>10. upto \in [0..n -> Nat]
  <2>1. upto = [i \in 0..n |-> IF i = 0 THEN 0 ELSE upto[i - 1] + amounts[i]]
    BY <1>6
  <2> HIDE DEF n
  <2> QED
    BY <1>9, <2>1
<1> QED
  BY <1>7, <1>8, <1>10

LEMMA TotalIs ==
  ASSUME NEW s \in Seq(Nat)
  PROVE  /\ Len(s) \in Nat /\ \A i \in 1..Len(s) : s[i] \in Nat
         /\ Adding(s) \in [0..Len(s) -> Nat] /\ Adding(s)[0] = 0
         /\ \A i \in 1..Len(s) : Adding(s)[i] = Adding(s)[i - 1] + s[i]
         /\ Total(s) = Adding(s)[Len(s)] /\ Total(s) \in Nat
<1>1. Len(s) \in Nat /\ \A i \in 1..Len(s) : s[i] \in Nat
  BY LenProperties, ElementOfSeq
<1>2. Len(s) \in 0..Len(s)
  BY <1>1
<1> QED
  BY <1>1, <1>2, AddingIs DEF Total

LEMMA TotalZero ==
  ASSUME NEW s \in Seq(Nat), \A i \in 1..Len(s) : s[i] = 0
  PROVE  Total(s) = 0
<1> DEFINE f == Adding(s)
           S == {i \in 0..Len(s) : f[i] = 0}
<1>1. /\ Len(s) \in Nat /\ f \in [0..Len(s) -> Nat] /\ f[0] = 0
      /\ \A i \in 1..Len(s) : f[i] = f[i - 1] + s[i]
      /\ Total(s) = f[Len(s)]
  BY TotalIs
<1> HIDE DEF f
<1>2. PICK z \in Nat : z = Len(s)
  BY <1>1
<1>3. 0 \in S
  BY <1>1, <1>2
<1>4. ASSUME NEW i \in 0 + 1..z, i - 1 \in S PROVE i \in S
  <2>1. i \in 1..z /\ i \in 0..z /\ f[i - 1] = 0
    BY <1>2, <1>4
  <2> QED
    BY <1>1, <1>2, <2>1
<1> HIDE DEF S
<1>5. \A i \in 0..z : i \in S
  BY <1>2, <1>3, <1>4, UpTo
<1>6. z \in S
  BY <1>2, <1>5
<1> QED
  BY <1>1, <1>2, <1>6 DEF S

\* Sums of what is the same are the same.
LEMMA AddingAgree ==
  ASSUME NEW s \in Seq(Nat), NEW t \in Seq(Nat), NEW n \in Nat, n <= Len(s), n <= Len(t), \A i \in 1..n : s[i] = t[i]
  PROVE  Adding(s)[n] = Adding(t)[n]
<1> DEFINE f == Adding(s)
           g == Adding(t)
           S == {i \in 0..n : f[i] = g[i]}
<1>1. PICK y \in Nat, z \in Nat : y = Len(s) /\ z = Len(t) /\ n <= y /\ n <= z
  BY TotalIs
<1>2. /\ f \in [0..y -> Nat] /\ f[0] = 0 /\ \A i \in 1..y : f[i] = f[i - 1] + s[i]
      /\ g \in [0..z -> Nat] /\ g[0] = 0 /\ \A i \in 1..z : g[i] = g[i - 1] + t[i]
  BY <1>1, TotalIs
<1> HIDE DEF f, g
<1>3. 0 \in S
  BY <1>2
<1>4. ASSUME NEW i \in 0 + 1..n, i - 1 \in S PROVE i \in S
  <2>1. i \in 1..n /\ i \in 0..n /\ i \in 1..y /\ i \in 1..z /\ f[i - 1] = g[i - 1]
    BY <1>1, <1>4
  <2> QED
    BY <1>2, <2>1
<1> HIDE DEF S
<1>5. \A i \in 0..n : i \in S
  BY <1>3, <1>4, UpTo
<1>6. n \in S
  BY <1>5
<1> QED
  BY <1>6 DEF S, f, g

\* One more amount at the end.
LEMMA TotalMore ==
  ASSUME NEW s \in Seq(Nat), NEW t \in Seq(Nat), Len(t) = Len(s) + 1, \A i \in 1..Len(s) : t[i] = s[i]
  PROVE  Total(t) = Total(s) + t[Len(s) + 1]
<1>1. PICK z \in Nat : z = Len(s) /\ Len(t) = z + 1
  BY TotalIs
<1>2. Adding(t)[z] = Adding(s)[z]
  <2>1. z <= Len(s) /\ z <= Len(t)
    BY <1>1
  <2>2. \A i \in 1..z : t[i] = s[i]
    BY <1>1
  <2> QED
    BY <2>1, <2>2, AddingAgree
<1>3. Total(s) = Adding(s)[z] /\ Total(t) = Adding(t)[z + 1]
  BY <1>1, TotalIs
<1>4. Adding(t)[z + 1] = Adding(t)[z] + t[z + 1]
  <2>1. \A i \in 1..z + 1 : Adding(t)[i] = Adding(t)[i - 1] + t[i]
    BY <1>1, TotalIs
  <2>2. z + 1 \in 1..z + 1 /\ (z + 1) - 1 = z
    OBVIOUS
  <2> QED
    BY <2>1, <2>2
<1> QED
  BY <1>1, <1>2, <1>3, <1>4

\* One more at the beginning.
LEMMA TotalHead ==
  ASSUME NEW s \in Seq(Nat), NEW t \in Seq(Nat), Len(s) = Len(t) + 1, \A i \in 1..Len(t) : t[i] = s[i + 1]
  PROVE  Total(s) = s[1] + Total(t)
<1> DEFINE f == Adding(s)
           g == Adding(t)
           S == {i \in 0..Len(t) : f[i + 1] = s[1] + g[i]}
<1>1. PICK z \in Nat : z = Len(t) /\ Len(s) = z + 1
  BY TotalIs
<1>2. /\ f \in [0..z + 1 -> Nat] /\ f[0] = 0 /\ \A i \in 1..z + 1 : f[i] = f[i - 1] + s[i]
      /\ g \in [0..z -> Nat] /\ g[0] = 0 /\ \A i \in 1..z : g[i] = g[i - 1] + t[i]
      /\ \A i \in 1..z + 1 : s[i] \in Nat
      /\ Total(s) = f[z + 1] /\ Total(t) = g[z]
  BY <1>1, TotalIs
<1> HIDE DEF f, g
<1>3. 0 \in S
  <2>1. 1 \in 1..z + 1 /\ 1 - 1 = 0 /\ 0 + 1 = 1 /\ 0 \in 0..z
    OBVIOUS
  <2>2. f[1] = f[0] + s[1] /\ s[1] \in Nat
    BY <1>2, <2>1
  <2> QED
    BY <1>1, <1>2, <2>1, <2>2
<1>4. ASSUME NEW i \in 0 + 1..z, i - 1 \in S PROVE i \in S
  <2>1. i \in 1..z /\ i \in 0..z /\ i - 1 \in 0..z /\ i + 1 \in 1..z + 1 /\ (i + 1) - 1 = i /\ (i - 1) + 1 = i /\ 1 \in 1..z + 1
    BY <1>4
  <2>2. f[i] = s[1] + g[i - 1]
    BY <1>4, <2>1
  <2>3. f[i + 1] = f[i] + s[i + 1] /\ g[i] = g[i - 1] + t[i] /\ t[i] = s[i + 1]
    BY <1>1, <1>2, <2>1
  <2>4. s[1] \in Nat /\ g[i - 1] \in Nat /\ s[i + 1] \in Nat
    BY <1>2, <2>1
  <2>5. f[i + 1] = s[1] + g[i]
    BY <2>2, <2>3, <2>4
  <2> QED
    BY <1>1, <2>1, <2>5
<1> HIDE DEF S
<1>5. \A i \in 0..z : i \in S
  BY <1>1, <1>3, <1>4, UpTo
<1>6. z \in S
  BY <1>5
<1> QED
  BY <1>1, <1>2, <1>6 DEF S

\* More of one of them.
LEMMA TotalChanged ==
  ASSUME NEW s \in Seq(Nat), NEW t \in Seq(Nat), Len(t) = Len(s), NEW k \in 1..Len(s), NEW x \in Nat,
         t[k] = s[k] + x, \A i \in 1..Len(s) : i # k => t[i] = s[i]
  PROVE  Total(t) = Total(s) + x
<1> DEFINE f == Adding(s)
           g == Adding(t)
           S == {i \in 0..Len(s) : g[i] = IF i < k THEN f[i] ELSE f[i] + x}
<1>1. PICK z \in Nat : z = Len(s) /\ Len(t) = z
  BY TotalIs
<1>2. /\ f \in [0..z -> Nat] /\ f[0] = 0 /\ \A i \in 1..z : f[i] = f[i - 1] + s[i]
      /\ g \in [0..z -> Nat] /\ g[0] = 0 /\ \A i \in 1..z : g[i] = g[i - 1] + t[i]
      /\ \A i \in 1..z : s[i] \in Nat
      /\ Total(s) = f[z] /\ Total(t) = g[z]
  BY <1>1, TotalIs
<1> HIDE DEF f, g
<1>3. 0 \in S
  BY <1>1, <1>2
<1>4. ASSUME NEW i \in 0 + 1..z, i - 1 \in S PROVE i \in S
  <2>1. i \in 1..z /\ i \in 0..z /\ i - 1 \in 0..z
    BY <1>4
  <2>2. /\ g[i] = g[i - 1] + t[i] /\ f[i] = f[i - 1] + s[i] /\ s[i] \in Nat /\ f[i - 1] \in Nat
        /\ g[i - 1] = IF i - 1 < k THEN f[i - 1] ELSE f[i - 1] + x
    BY <1>2, <1>4, <2>1
  <2>3. CASE i < k
    BY <1>1, <2>1, <2>2, <2>3
  <2>4. CASE i = k
    BY <1>1, <2>1, <2>2, <2>4
  <2>5. CASE i > k
    <3>1. t[i] = s[i] /\ ~(i < k) /\ ~(i - 1 < k)
      BY <1>1, <2>1, <2>5
    <3>2. g[i] = f[i] + x
      <4>1. g[i - 1] = f[i - 1] + x
        BY <2>2, <3>1
      <4>2. g[i] = (f[i - 1] + x) + s[i]
        BY <2>2, <3>1, <4>1
      <4>3. \A p, q, r \in Nat : (p + q) + r = (p + r) + q
        OBVIOUS
      <4>4. f[i - 1] \in Nat /\ s[i] \in Nat /\ x \in Nat /\ f[i] = f[i - 1] + s[i]
        BY <2>2
      <4>5. (f[i - 1] + x) + s[i] = (f[i - 1] + s[i]) + x
        BY <4>3, <4>4
      <4> QED
        BY <4>2, <4>4, <4>5
    <3> QED
      BY <1>1, <2>1, <3>1, <3>2
  <2> QED
    BY <1>1, <2>1, <2>3, <2>4, <2>5
<1> HIDE DEF S
<1>5. \A i \in 0..z : i \in S
  BY <1>1, <1>3, <1>4, UpTo
<1>6. z \in S /\ ~(z < k)
  BY <1>1, <1>5
<1> QED
  BY <1>1, <1>2, <1>6 DEF S

\* The first of them come to no more than all.
LEMMA TotalPrefix ==
  ASSUME NEW s \in Seq(Nat), NEW t \in Seq(Nat), Len(t) <= Len(s), \A i \in 1..Len(t) : t[i] = s[i]
  PROVE  Total(t) <= Total(s)
<1> DEFINE f == Adding(s)
<1>1. PICK y \in Nat, z \in Nat : y = Len(s) /\ z = Len(t) /\ z <= y
  BY TotalIs
<1>2. /\ f \in [0..y -> Nat] /\ f[0] = 0 /\ \A i \in 1..y : f[i] = f[i - 1] + s[i]
      /\ \A i \in 1..y : s[i] \in Nat
      /\ Total(s) = f[y]
  BY <1>1, TotalIs
<1>3. Total(t) = f[z]
  <2>1. Total(t) = Adding(t)[z]
    BY <1>1, TotalIs
  <2>2. z <= Len(s) /\ z <= Len(t) /\ \A i \in 1..z : t[i] = s[i]
    BY <1>1
  <2> QED
    BY <2>1, <2>2, AddingAgree
<1> HIDE DEF f
<1> DEFINE S == {i \in z..y : f[z] <= f[i]}
<1>4. z \in S
  BY <1>1, <1>2
<1>5. ASSUME NEW i \in z + 1..y, i - 1 \in S PROVE i \in S
  <2>1. i \in 1..y /\ i \in z..y /\ i - 1 \in 0..y /\ z \in 0..y
    BY <1>1, <1>5
  <2>2. f[i] = f[i - 1] + s[i] /\ s[i] \in Nat /\ f[i - 1] \in Nat /\ f[z] \in Nat /\ f[z] <= f[i - 1]
    BY <1>2, <1>5, <2>1
  <2> QED
    BY <2>1, <2>2
<1> HIDE DEF S
<1>6. \A i \in z..y : i \in S
  BY <1>1, <1>4, <1>5, UpTo
<1>7. y \in S
  BY <1>1, <1>6
<1> QED
  BY <1>2, <1>3, <1>7 DEF S

----------------------------------------------------------------------------
\* What was charged

Events == [model : STRING, amount : Nat]

LEMMA SummedAre ==
  ASSUME NEW rows, NEW R, \A r \in R : r.amount \in Nat, rows \in Seq(R)
  PROVE  /\ [i \in DOMAIN rows |-> rows[i].amount] \in Seq(Nat)
         /\ Len([i \in DOMAIN rows |-> rows[i].amount]) = Len(rows)
         /\ \A i \in 1..Len(rows) : [k \in DOMAIN rows |-> rows[k].amount][i] = rows[i].amount
         /\ Summed(rows) = Total([i \in DOMAIN rows |-> rows[i].amount])
         /\ Summed(rows) \in Nat
<1> DEFINE s == [i \in DOMAIN rows |-> rows[i].amount]
<1>1. PICK n \in Nat : n = Len(rows) /\ DOMAIN rows = 1..n
  BY LenProperties
<1>2. \A i \in 1..n : rows[i].amount \in Nat
  <2>1. \A i \in 1..n : rows[i] \in R
    BY <1>1, ElementOfSeq
  <2> QED
    BY <2>1
<1>3. s \in [1..n -> Nat] /\ \A i \in 1..n : s[i] = rows[i].amount
  BY <1>1, <1>2
<1>4. Summed(rows) = Total(s)
  BY DEF Summed
<1> HIDE DEF s
<1>5. s \in Seq(Nat)
  BY <1>3, SeqDef
<1>6. Len(s) = n
  <2>1. DOMAIN s = 1..n
    BY <1>3
  <2> QED
    BY <1>5, <2>1, LenProperties
<1>7. Total(s) \in Nat
  BY <1>5, TotalIs
<1> QED
  BY <1>1, <1>3, <1>4, <1>5, <1>6, <1>7 DEF s

\* A bucket more, or more in one: what an event charges is added.
LEMMA BucketAdds ==
  ASSUME NEW models \in Seq(Events), NEW event \in Events
  PROVE  Bucket(models, event) \in Seq(Events) /\ Summed(Bucket(models, event)) = Summed(models) + event.amount
<1> DEFINE new == Bucket(models, event)
           s == [i \in DOMAIN models |-> models[i].amount]
           t == [i \in DOMAIN new |-> new[i].amount]
<1>1. PICK n \in Nat : n = Len(models) /\ DOMAIN models = 1..n
  BY LenProperties
<1>2. \A r \in Events : r.amount \in Nat
  BY DEF Events
<1>3. s \in Seq(Nat) /\ Len(s) = n /\ (\A i \in 1..n : s[i] = models[i].amount) /\ Summed(models) = Total(s)
  BY <1>1, <1>2, SummedAre
<1>4. \A i \in 1..n : models[i] \in Events
  BY <1>1, ElementOfSeq
<1>5. CASE \E i \in DOMAIN models : models[i].model = event.model
  <2> DEFINE k == CHOOSE i \in DOMAIN models : models[i].model = event.model
  <2>1. k \in 1..n
    BY <1>1, <1>5
  <2>2. new = [models EXCEPT ![k].amount = @ + event.amount]
    BY <1>5 DEF Bucket
  <2> HIDE DEF k
  <2> DEFINE own == [models[k] EXCEPT !.amount = @ + event.amount]
  <2>3. own \in Events /\ own.amount = models[k].amount + event.amount
    BY <1>4, <2>1 DEF Events
  <2>4. new \in [1..n -> Events] /\ \A i \in 1..n : new[i] = IF i = k THEN own ELSE models[i]
    <3>1. new = [i \in 1..n |-> IF i = k THEN own ELSE models[i]]
      BY <1>1, <2>1, <2>2
    <3> HIDE DEF own, new
    <3> QED
      BY <1>4, <2>3, <3>1
  <2> HIDE DEF own, new
  <2>5. new \in Seq(Events) /\ Len(new) = n
    <3>1. new \in Seq(Events)
      BY <2>4, SeqDef
    <3>2. DOMAIN new = 1..n
      BY <2>4
    <3> QED
      BY <3>1, <3>2, LenProperties
  <2>6. t \in Seq(Nat) /\ Len(t) = n /\ (\A i \in 1..n : t[i] = new[i].amount) /\ Summed(new) = Total(t)
    BY <1>2, <2>5, SummedAre
  <2> HIDE DEF s, t
  <2>7. t[k] = s[k] + event.amount /\ \A i \in 1..n : i # k => t[i] = s[i]
    BY <1>3, <2>1, <2>3, <2>4, <2>6
  <2>8. event.amount \in Nat
    BY <1>2
  <2>9. Total(t) = Total(s) + event.amount
    <3>1. Len(t) = Len(s) /\ k \in 1..Len(s) /\ \A i \in 1..Len(s) : i # k => t[i] = s[i]
      BY <1>3, <2>1, <2>6, <2>7
    <3> QED
      BY <1>3, <2>6, <2>7, <2>8, <3>1, TotalChanged
  <2> QED
    BY <1>3, <2>5, <2>6, <2>9 DEF new
<1>6. CASE ~ \E i \in DOMAIN models : models[i].model = event.model
  <2>1. new = Append(models, event)
    BY <1>6 DEF Bucket
  <2> HIDE DEF new
  <2>2. new \in Seq(Events) /\ Len(new) = n + 1 /\ new[n + 1] = event /\ \A i \in 1..n : new[i] = models[i]
    BY <1>1, <2>1, AppendProperties
  <2>3. t \in Seq(Nat) /\ Len(t) = n + 1 /\ (\A i \in 1..n + 1 : t[i] = new[i].amount) /\ Summed(new) = Total(t)
    BY <1>2, <2>2, SummedAre
  <2> HIDE DEF s, t
  <2>4. t[n + 1] = event.amount /\ \A i \in 1..n : t[i] = s[i]
    <3>1. n + 1 \in 1..n + 1 /\ \A i \in 1..n : i \in 1..n + 1
      OBVIOUS
    <3> QED
      BY <1>3, <2>2, <2>3, <3>1
  <2>5. Total(t) = Total(s) + t[n + 1]
    <3>1. Len(t) = Len(s) + 1 /\ (\A i \in 1..Len(s) : t[i] = s[i]) /\ Len(s) = n
      BY <1>3, <2>3, <2>4
    <3>2. Total(t) = Total(s) + t[Len(s) + 1]
      BY <1>3, <2>3, <3>1, TotalMore
    <3> QED
      BY <3>1, <3>2
  <2> QED
    BY <1>3, <2>2, <2>3, <2>4, <2>5 DEF new
<1> QED
  BY <1>5, <1>6

LEMMA BucketIs == \A models \in Seq(Events), e \in Events : Bucket(models, e) \in Seq(Events)
  BY BucketAdds

\* The buckets after the first events.
LEMMA BucketingIs ==
  ASSUME NEW events \in Seq(Events)
  PROVE  /\ Bucketing(events) \in [0..Len(events) -> Seq(Events)] /\ Bucketing(events)[0] = <<>>
         /\ \A i \in 1..Len(events) : Bucketing(events)[i] = Bucket(Bucketing(events)[i - 1], events[i])
<1> DEFINE n == Len(events)
           base == <<>>
           step == [i \in 1..n |-> [was \in Seq(Events) |-> Bucket(was, events[i])]]
           Eq(g) == g = [i \in 0..n |-> IF i = 0 THEN <<>> ELSE Bucket(g[i - 1], events[i])]
           upto == CHOOSE g : Eq(g)
<1>1. n \in Nat /\ base \in Seq(Events) /\ \A i \in 1..n : events[i] \in Events
  BY LenProperties, ElementOfSeq, EmptySeq
<1>2. \A i \in 1..n : \A was \in Seq(Events) : (Bucket(was, events[i])) \in Seq(Events)
  <2> HIDE DEF n
  <2> QED
    BY <1>1, BucketIs
<1>3. step \in [1..n -> [Seq(Events) -> Seq(Events)]]
  <2> HIDE DEF n
  <2> QED
    BY <1>2
<1>4. PICK g \in [0..n -> Seq(Events)] : g[0] = base /\ \A i \in 1..n : g[i] = step[i][g[i - 1]]
  <2>1. Recurs(Seq(Events), n, base, step)
    <3> HIDE DEF n, base, step
    <3> QED
      BY <1>1, <1>3, RecursionUpTo
  <2> HIDE DEF step, n
  <2> QED
    BY <2>1 DEF Recurs
<1>5. Eq(g)
  <2>1. ASSUME NEW i \in 0..n PROVE g[i] = IF i = 0 THEN <<>> ELSE Bucket(g[i - 1], events[i])
    <3>1. CASE i = 0
      BY <1>4, <3>1
    <3>2. CASE i # 0
      <4>1. i \in 1..n /\ g[i - 1] \in Seq(Events)
        <5>1. i \in 1..n /\ i - 1 \in 0..n
          BY <1>1, <3>2
        <5> HIDE DEF n
        <5> QED
          BY <1>4, <5>1
      <4> HIDE DEF n
      <4> QED
        BY <1>4, <3>2, <4>1
    <3> QED
      BY <3>1, <3>2
  <2> QED
    BY <2>1
<1>6. Eq(upto)
  <2> HIDE DEF Eq
  <2> QED
    BY <1>5
<1>7. Bucketing(events) = upto
  BY DEF Bucketing
<1> HIDE DEF upto
<1>8. upto[0] = <<>> /\ \A i \in 1..n : upto[i] = Bucket(upto[i - 1], events[i])
  <2>1. \A i \in 0..n : upto[i] = IF i = 0 THEN <<>> ELSE Bucket(upto[i - 1], events[i])
    BY <1>6
  <2>2. 0 \in 0..n /\ \A i \in 1..n : i \in 0..n /\ i # 0
    BY <1>1
  <2> HIDE DEF n
  <2> QED
    BY <2>1, <2>2
<1>9. \A i \in 0..n : upto[i] \in Seq(Events)
  <2> DEFINE S == {i \in 0..n : upto[i] \in Seq(Events)}
  <2>1. 0 \in S
    <3>1. 0 \in 0..n /\ upto[0] \in Seq(Events)
      <4> HIDE DEF n
      <4> QED
        BY <1>1, <1>8
    <3> QED
      BY <3>1
  <2>2. ASSUME NEW i \in 0 + 1..n, i - 1 \in S PROVE i \in S
    <3>1. i \in 1..n /\ i \in 0..n /\ upto[i - 1] \in Seq(Events)
      BY <1>1, <2>2
    <3>2. upto[i] \in Seq(Events)
      <4> HIDE DEF n
      <4> QED
        BY <1>2, <1>8, <3>1
    <3> QED
      BY <3>1, <3>2
  <2> HIDE DEF S, n
  <2>3. \A i \in 0..n : i \in S
    BY <1>1, <2>1, <2>2, UpTo
  <2> QED
    BY <2>3 DEF S
<1>10. upto \in [0..n -> Seq(Events)]
  <2>1. upto = [i \in 0..n |-> IF i = 0 THEN <<>> ELSE Bucket(upto[i - 1], events[i])]
    BY <1>6
  <2> HIDE DEF n
  <2> QED
    BY <1>9, <2>1
<1> QED
  BY <1>7, <1>8, <1>10

\* The buckets hold what the events charge.
LEMMA BucketsAddUp ==
  ASSUME NEW events \in Seq(Events)
  PROVE  Bucketing(events)[Len(events)] \in Seq(Events) /\ Summed(Bucketing(events)[Len(events)]) = Summed(events)
<1> DEFINE b == Bucketing(events)
           s == [i \in DOMAIN events |-> events[i].amount]
           f == Adding(s)
           S == {i \in 0..Len(events) : Summed(b[i]) = f[i]}
<1>1. PICK z \in Nat : z = Len(events)
  BY LenProperties
<1>2. b \in [0..z -> Seq(Events)] /\ b[0] = <<>> /\ \A i \in 1..z : b[i] = Bucket(b[i - 1], events[i])
  BY <1>1, BucketingIs
<1>3. s \in Seq(Nat) /\ Len(s) = z /\ (\A i \in 1..z : s[i] = events[i].amount) /\ Summed(events) = Total(s)
  <2>1. \A r \in Events : r.amount \in Nat
    BY DEF Events
  <2> QED
    BY <1>1, <2>1, SummedAre
<1> HIDE DEF s, b
<1>4. f \in [0..z -> Nat] /\ f[0] = 0 /\ (\A i \in 1..z : f[i] = f[i - 1] + s[i]) /\ Total(s) = f[z]
  BY <1>3, TotalIs
<1> HIDE DEF f
<1>5. 0 \in S
  <2> DEFINE none == <<>>
  <2>1. none \in Seq(Events) /\ Len(none) = 0
    BY EmptySeq
  <2> HIDE DEF none
  <2>2. Summed(none) = 0
    <3> DEFINE c == [i \in DOMAIN none |-> none[i].amount]
    <3>1. \A r \in Events : r.amount \in Nat
      BY DEF Events
    <3>2. c \in Seq(Nat) /\ Len(c) = 0 /\ Summed(none) = Total(c)
      BY <2>1, <3>1, SummedAre
    <3> HIDE DEF c
    <3>3. \A i \in 1..Len(c) : c[i] = 0
      BY <3>2
    <3> QED
      BY <3>2, <3>3, TotalZero
  <2> QED
    BY <1>1, <1>2, <1>4, <2>2 DEF none
<1>6. ASSUME NEW i \in 0 + 1..z, i - 1 \in S PROVE i \in S
  <2>1. i \in 1..z /\ i \in 0..z /\ i - 1 \in 0..z
    BY <1>6
  <2>2. b[i - 1] \in Seq(Events) /\ events[i] \in Events /\ b[i] = Bucket(b[i - 1], events[i])
    BY <1>1, <1>2, <2>1, ElementOfSeq
  <2>3. Summed(b[i]) = Summed(b[i - 1]) + events[i].amount
    BY <2>2, BucketAdds
  <2> QED
    BY <1>1, <1>3, <1>4, <1>6, <2>1, <2>3
<1> HIDE DEF S
<1>7. \A i \in 0..z : i \in S
  BY <1>1, <1>5, <1>6, UpTo
<1>8. z \in S /\ z \in 0..z
  BY <1>7
<1> QED
  BY <1>1, <1>2, <1>3, <1>4, <1>8 DEF S, b

\* Prefixes charge no more, and the whole of a sequence is one.
LEMMA SummedOfPrefix ==
  ASSUME NEW events \in Seq(Events), NEW first \in Seq(Events), Len(first) <= Len(events),
         \A i \in 1..Len(first) : first[i] = events[i]
  PROVE  Summed(first) <= Summed(events) /\ Summed(first) \in Nat /\ Summed(events) \in Nat
<1> DEFINE s == [i \in DOMAIN events |-> events[i].amount]
           t == [i \in DOMAIN first |-> first[i].amount]
<1>1. \A r \in Events : r.amount \in Nat
  BY DEF Events
<1>2. s \in Seq(Nat) /\ Len(s) = Len(events) /\ (\A i \in 1..Len(events) : s[i] = events[i].amount)
      /\ Summed(events) = Total(s) /\ Summed(events) \in Nat
  BY <1>1, SummedAre
<1>3. t \in Seq(Nat) /\ Len(t) = Len(first) /\ (\A i \in 1..Len(first) : t[i] = first[i].amount)
      /\ Summed(first) = Total(t) /\ Summed(first) \in Nat
  BY <1>1, SummedAre
<1> HIDE DEF s, t
<1>4. PICK y \in Nat, z \in Nat : y = Len(events) /\ z = Len(first) /\ z <= y
  BY LenProperties
<1>5. \A i \in 1..z : t[i] = s[i]
  <2>1. \A i \in 1..z : i \in 1..y
    BY <1>4
  <2> QED
    BY <1>2, <1>3, <1>4, <2>1
<1>6. Total(t) <= Total(s)
  BY <1>2, <1>3, <1>4, <1>5, TotalPrefix
<1> QED
  BY <1>2, <1>3, <1>6

----------------------------------------------------------------------------
\* What is billed

AskSpans == {ask.span : ask \in Asks}
AllSources == {"admin-api", "admin-api-cost", "usage-events", "usage-events-rollup", "manual-csv"}
RowShape == {r \in [arm : Arms, span : AskSpans, provider : {"anthropic", "cursor"}, source : AllSources, amount : Nat] :
                r.source = "admin-api" => r.amount = 0}

\* What a row adds to a source of an arm.
Counted(r, a, s) == r.arm = a /\ r.source = s /\ Overlaps(r.span)
Weight(r, a, s) == IF Counted(r, a, s) THEN r.amount ELSE 0
Weights(rows, a, s) == [i \in DOMAIN rows |-> Weight(rows[i], a, s)]

LEMMA WeightsAre ==
  ASSUME NEW rows \in Seq(RowShape), NEW a, NEW s
  PROVE  /\ Len(rows) \in Nat
         /\ Weights(rows, a, s) \in Seq(Nat) /\ Len(Weights(rows, a, s)) = Len(rows)
         /\ \A i \in 1..Len(rows) : Weights(rows, a, s)[i] = Weight(rows[i], a, s)
         /\ Billed(rows, a, s) = Total(Weights(rows, a, s)) /\ Billed(rows, a, s) \in Nat
<1> DEFINE w == Weights(rows, a, s)
<1>1. PICK n \in Nat : n = Len(rows) /\ DOMAIN rows = 1..n
  BY LenProperties
<1>2. \A i \in 1..n : Weight(rows[i], a, s) \in Nat
  <2> SUFFICES ASSUME NEW i \in 1..n PROVE Weight(rows[i], a, s) \in Nat
    OBVIOUS
  <2>1. rows[i] \in RowShape
    BY <1>1, ElementOfSeq
  <2>2. rows[i].amount \in Nat
    BY <2>1 DEF RowShape
  <2> QED
    BY <2>2 DEF Weight
<1>3. w \in [1..n -> Nat] /\ \A i \in 1..n : w[i] = Weight(rows[i], a, s)
  BY <1>1, <1>2 DEF Weights
<1>4. Billed(rows, a, s) = Total(w)
  BY DEF Billed, Weights, Weight, Counted
<1> HIDE DEF w
<1>5. w \in Seq(Nat)
  BY <1>3, SeqDef
<1>6. Len(w) = n
  <2>1. DOMAIN w = 1..n
    BY <1>3
  <2> QED
    BY <1>5, <2>1, LenProperties
<1>7. Total(w) \in Nat
  BY <1>5, TotalIs
<1> QED
  BY <1>1, <1>3, <1>4, <1>5, <1>6, <1>7 DEF w

LEMMA WeightIs == \A r \in RowShape : \A a, s : Weight(r, a, s) \in Nat
  BY DEF RowShape, Weight

\* A row that is added.
LEMMA BilledMore ==
  ASSUME NEW rows \in Seq(RowShape), NEW r \in RowShape, NEW a, NEW s
  PROVE  Append(rows, r) \in Seq(RowShape) /\ Billed(Append(rows, r), a, s) = Billed(rows, a, s) + Weight(r, a, s)
<1> DEFINE new == Append(rows, r)
           v == Weights(rows, a, s)
           w == Weights(new, a, s)
<1>1. PICK n \in Nat : n = Len(rows)
  BY LenProperties
<1>2. new \in Seq(RowShape) /\ Len(new) = n + 1 /\ new[n + 1] = r /\ \A i \in 1..n : new[i] = rows[i]
  BY <1>1, AppendProperties
<1> HIDE DEF new
<1>3. v \in Seq(Nat) /\ Len(v) = n /\ (\A i \in 1..n : v[i] = Weight(rows[i], a, s)) /\ Billed(rows, a, s) = Total(v)
  BY <1>1, WeightsAre
<1>4. w \in Seq(Nat) /\ Len(w) = n + 1 /\ (\A i \in 1..n + 1 : w[i] = Weight(new[i], a, s)) /\ Billed(new, a, s) = Total(w)
  BY <1>2, WeightsAre
<1> HIDE DEF v, w
<1>5. w[n + 1] = Weight(r, a, s) /\ \A i \in 1..n : w[i] = v[i]
  <2>1. n + 1 \in 1..n + 1 /\ \A i \in 1..n : i \in 1..n + 1
    OBVIOUS
  <2> QED
    BY <1>2, <1>3, <1>4, <2>1
<1>6. Total(w) = Total(v) + w[n + 1]
  <2>1. Len(w) = Len(v) + 1 /\ (\A i \in 1..Len(v) : w[i] = v[i]) /\ Len(v) = n
    BY <1>3, <1>4, <1>5
  <2>2. Total(w) = Total(v) + w[Len(v) + 1]
    BY <1>3, <1>4, <2>1, TotalMore
  <2> QED
    BY <2>1, <2>2
<1> QED
  BY <1>2, <1>3, <1>4, <1>5, <1>6 DEF new

\* The first row and the others.
LEMMA BilledHead ==
  ASSUME NEW rows \in Seq(RowShape), rows # <<>>, NEW a, NEW s
  PROVE  /\ Head(rows) \in RowShape /\ Tail(rows) \in Seq(RowShape)
         /\ Billed(rows, a, s) = Weight(Head(rows), a, s) + Billed(Tail(rows), a, s)
<1> DEFINE rest == Tail(rows)
           v == Weights(rows, a, s)
           w == Weights(rest, a, s)
<1>1. PICK n \in Nat : Len(rows) = n + 1
  <2>1. Len(rows) \in Nat /\ Len(rows) # 0
    BY LenProperties, EmptySeq
  <2>2. Len(rows) - 1 \in Nat /\ Len(rows) = (Len(rows) - 1) + 1
    BY <2>1
  <2> QED
    BY <2>2
<1>2. rest \in Seq(RowShape) /\ Len(rest) = n /\ (\A i \in 1..n : rest[i] = rows[i + 1]) /\ Head(rows) = rows[1] /\ Head(rows) \in RowShape
  BY <1>1, HeadTailProperties, ElementOfSeq
<1> HIDE DEF rest
<1>3. v \in Seq(Nat) /\ Len(v) = n + 1 /\ (\A i \in 1..n + 1 : v[i] = Weight(rows[i], a, s)) /\ Billed(rows, a, s) = Total(v)
  BY <1>1, WeightsAre
<1>4. w \in Seq(Nat) /\ Len(w) = n /\ (\A i \in 1..n : w[i] = Weight(rest[i], a, s)) /\ Billed(rest, a, s) = Total(w)
  <2>1. /\ w \in Seq(Nat) /\ Len(w) = Len(rest) /\ (\A i \in 1..Len(rest) : w[i] = Weight(rest[i], a, s))
        /\ Billed(rest, a, s) = Total(w)
    <3>1. rest \in Seq(RowShape)
      BY <1>2
    <3> QED
      BY <3>1, WeightsAre
  <2>2. Len(rest) = n
    BY <1>2
  <2> HIDE DEF w
  <2> QED
    BY <2>1, <2>2
<1> HIDE DEF v, w
<1>5. v[1] = Weight(Head(rows), a, s) /\ \A i \in 1..n : w[i] = v[i + 1]
  <2>1. 1 \in 1..n + 1 /\ \A i \in 1..n : i + 1 \in 1..n + 1
    OBVIOUS
  <2> QED
    BY <1>2, <1>3, <1>4, <2>1
<1>6. Total(v) = v[1] + Total(w)
  <2>1. Len(v) = Len(w) + 1 /\ \A i \in 1..Len(w) : w[i] = v[i + 1]
    BY <1>3, <1>4, <1>5
  <2> QED
    BY <1>3, <1>4, <2>1, TotalHead
<1> QED
  BY <1>2, <1>3, <1>4, <1>5, <1>6 DEF rest

\* Rows of which none counts.
LEMMA BilledNone ==
  ASSUME NEW rows \in Seq(RowShape), NEW a, NEW s, \A i \in 1..Len(rows) : Weight(rows[i], a, s) = 0
  PROVE  Billed(rows, a, s) = 0
<1> DEFINE w == Weights(rows, a, s)
<1>1. w \in Seq(Nat) /\ Len(w) = Len(rows) /\ (\A i \in 1..Len(rows) : w[i] = Weight(rows[i], a, s)) /\ Billed(rows, a, s) = Total(w)
  BY WeightsAre
<1> HIDE DEF w
<1>2. \A i \in 1..Len(w) : w[i] = 0
  BY <1>1
<1> QED
  BY <1>1, <1>2, TotalZero

\* Rows of which each counts: what they charge in all.
LEMMA BilledAll ==
  ASSUME NEW rows \in Seq(RowShape), NEW a, NEW s, \A i \in 1..Len(rows) : Counted(rows[i], a, s)
  PROVE  Billed(rows, a, s) = Summed(rows)
<1> DEFINE w == Weights(rows, a, s)
           v == [i \in DOMAIN rows |-> rows[i].amount]
<1>1. w = v
  <2>1. DOMAIN rows = 1..Len(rows)
    BY LenProperties
  <2> QED
    BY <2>1 DEF Weights, Weight
<1>2. Billed(rows, a, s) = Total(w)
  BY WeightsAre
<1> QED
  BY <1>1, <1>2 DEF Summed

----------------------------------------------------------------------------
\* What a collector makes of the bill

Providers == {"anthropic", "cursor"}
Kinds == {"admin-api-cost", "usage-events", "usage-events-rollup", "manual-csv"}

ProviderOf(s) == IF s = "admin-api-cost" THEN "anthropic" ELSE "cursor"
SourceOf(ask, provider) ==
    IF provider = "anthropic" THEN "admin-api-cost" ELSE IF ask.csv THEN "manual-csv" ELSE "usage-events"

\* The most that one pull can add to a source.
Amount(b, s) == IF s = "admin-api-cost" THEN b.anthropic ELSE Summed(Learned(b.cursor, s = "manual-csv"))

\* A pull that may add to a source, and the runs that it is for.
Fits(ask, s) == ProviderOf(s) \in ask.providers /\ (s # "admin-api-cost" => (ask.csv <=> s = "manual-csv"))
Aims(ask, a) == ask.arm = a /\ ~ask.dry /\ Overlaps(ask.span)

\* Charged, of any bill.
Dues(b, ask, provider) ==
    IF provider = "anthropic" THEN b.anthropic
    ELSE Summed(Learned(IF ask.csv THEN b.cursor ELSE SubSeq(b.cursor, 1, Min({PageSize * MaxPages, Len(b.cursor)})), ask.csv))

\* Rows that hold what one provider charged, and no more.
RowsFit(rows, b, ask, provider) ==
    /\ rows \in Seq(RowShape)
    /\ \A a \in Arms, s \in Kinds :
          Billed(rows, a, s) <= IF ask.arm = a /\ Overlaps(ask.span) /\ Fits(ask, s) /\ ProviderOf(s) = provider
                                THEN Amount(b, s) ELSE 0
    /\ Overlaps(ask.span) => Billed(rows, ask.arm, SourceOf(ask, provider)) >= Dues(b, ask, provider)

LEMMA AskIs ==
  ASSUME NEW ask \in Asks
  PROVE  /\ ask.arm \in Arms /\ ask.providers \subseteq Providers /\ ask.csv \in BOOLEAN /\ ask.dry \in BOOLEAN
         /\ ask.span \in AskSpans /\ ask.span.from \in Nat /\ ask.span.to \in Nat /\ ask.span.from <= ask.span.to
  BY SpendAssumption DEF AskSpans, Providers

LEMMA BillIs ==
  ASSUME NEW b \in Bills
  PROVE  b.anthropic \in Nat /\ b.cursor \in Seq(Events)
  BY SpendAssumption DEF Events

\* A span that holds a moment of the runs is one that overlaps them.
LEMMA WritesAims ==
  ASSUME NEW p, p.ask \in Asks, NEW a
  PROVE  Writes(p, a) <=> Aims(p.ask, a)
<1>1. PICK f \in Nat, t \in Nat : f = p.ask.span.from /\ t = p.ask.span.to /\ f <= t
  BY AskIs
<1>2. PICK g \in Nat, u \in Nat : g = Ran.from /\ u = Ran.to /\ g <= u
  BY SpendAssumption
<1>3. (\E x \in f..t : x \in g..u) <=> (f <= u /\ t >= g)
  <2>1. CASE f <= u /\ t >= g
    <3>1. CASE f <= g
      <4>1. g \in f..t /\ g \in g..u
        BY <1>2, <2>1, <3>1
      <4> QED
        BY <2>1, <4>1
    <3>2. CASE g <= f
      <4>1. f \in f..t /\ f \in g..u
        BY <1>1, <2>1, <3>2
      <4> QED
        BY <2>1, <4>1
    <3> QED
      BY <3>1, <3>2
  <2>2. CASE ~(f <= u /\ t >= g)
    BY <2>2
  <2> QED
    BY <2>1, <2>2
<1> QED
  BY <1>1, <1>2, <1>3 DEF Writes, Aims, Overlaps

LEMMA EmptyRows ==
  ASSUME NEW a, NEW s
  PROVE  <<>> \in Seq(RowShape) /\ Billed(<<>>, a, s) = 0
<1> DEFINE none == <<>>
<1>1. none \in Seq(RowShape) /\ Len(none) = 0
  BY EmptySeq
<1> HIDE DEF none
<1>2. \A i \in 1..Len(none) : Weight(none[i], a, s) = 0
  BY <1>1
<1>3. Billed(none, a, s) = 0
  BY <1>1, <1>2, BilledNone
<1> QED
  BY <1>1, <1>3 DEF none

\* A row of the pull under way.
LEMMA RowIs ==
  ASSUME asking.ask \in Asks, NEW provider \in Providers, NEW source \in AllSources, NEW c \in Nat,
         source = "admin-api" => c = 0
  PROVE  /\ Row(provider, source, c) \in RowShape /\ Row(provider, source, c).amount = c
         /\ \A a, s : Counted(Row(provider, source, c), a, s)
                         <=> asking.ask.arm = a /\ s = source /\ Overlaps(asking.ask.span)
         /\ \A a, s : Weight(Row(provider, source, c), a, s)
                         = IF asking.ask.arm = a /\ s = source /\ Overlaps(asking.ask.span) THEN c ELSE 0
<1> DEFINE r == Row(provider, source, c)
<1>1. asking.ask.arm \in Arms /\ asking.ask.span \in AskSpans
  BY AskIs
<1>2. r.arm = asking.ask.arm /\ r.span = asking.ask.span /\ r.source = source /\ r.amount = c
  BY DEF Row
<1>3. r \in RowShape
  BY <1>1 DEF RowShape, Row, Providers
<1> HIDE DEF r
<1>4. \A a, s : Counted(r, a, s) <=> asking.ask.arm = a /\ s = source /\ Overlaps(asking.ask.span)
  BY <1>2 DEF Counted
<1> QED
  BY <1>2, <1>3, <1>4 DEF Weight, r

LEMMA AnthropicRowsFit ==
  ASSUME asking.ask \in Asks, bill \in Bills, "anthropic" \in asking.ask.providers
  PROVE  RowsFit(AnthropicRows, bill, asking.ask, "anthropic")
<1> DEFINE u == Row("anthropic", "admin-api", 0)
           r == Row("anthropic", "admin-api-cost", bill.anthropic)
           hits(a, s) == asking.ask.arm = a /\ s = "admin-api-cost" /\ Overlaps(asking.ask.span)
<1>1. bill.anthropic \in Nat
  BY BillIs
<1>2. "anthropic" \in Providers /\ "admin-api" \in AllSources /\ "admin-api-cost" \in AllSources /\ 0 \in Nat
  BY DEF Providers, AllSources
<1>3. u \in RowShape /\ \A a, s : Weight(u, a, s) = 0
  BY <1>2, RowIs
<1>4. r \in RowShape /\ \A a, s : Weight(r, a, s) = IF hits(a, s) THEN bill.anthropic ELSE 0
  BY <1>1, <1>2, RowIs
<1>5. AnthropicRows = Append(Append(<<>>, u), r)
  BY DEF AnthropicRows, UsageRows
<1> HIDE DEF u, r
<1>6. ASSUME NEW a, NEW s
      PROVE  AnthropicRows \in Seq(RowShape) /\ Billed(AnthropicRows, a, s) = IF hits(a, s) THEN bill.anthropic ELSE 0
  <2> DEFINE one == Append(<<>>, u)
  <2>1. one \in Seq(RowShape) /\ Billed(one, a, s) = Billed(<<>>, a, s) + Weight(u, a, s)
    <3> DEFINE none == <<>>
    <3>1. none \in Seq(RowShape)
      BY EmptyRows
    <3> HIDE DEF none
    <3>2. Append(none, u) \in Seq(RowShape) /\ Billed(Append(none, u), a, s) = Billed(none, a, s) + Weight(u, a, s)
      BY <1>3, <3>1, BilledMore
    <3> QED
      BY <3>2 DEF none
  <2>2. Billed(one, a, s) = 0
    BY <1>3, <2>1, EmptyRows
  <2> HIDE DEF one
  <2>3. Append(one, r) \in Seq(RowShape) /\ Billed(Append(one, r), a, s) = Billed(one, a, s) + Weight(r, a, s)
    BY <1>4, <2>1, BilledMore
  <2> QED
    BY <1>1, <1>4, <1>5, <2>2, <2>3 DEF one
<1> HIDE DEF hits
<1>7. ASSUME NEW a \in Arms, NEW s \in Kinds
      PROVE  Billed(AnthropicRows, a, s)
                <= IF asking.ask.arm = a /\ Overlaps(asking.ask.span) /\ Fits(asking.ask, s) /\ ProviderOf(s) = "anthropic"
                   THEN Amount(bill, s) ELSE 0
  <2>1. CASE s = "admin-api-cost"
    <3>1. Fits(asking.ask, s) /\ ProviderOf(s) = "anthropic" /\ Amount(bill, s) = bill.anthropic
      BY <2>1 DEF Fits, ProviderOf, Amount
    <3> QED
      BY <1>1, <1>6, <2>1, <3>1 DEF hits
  <2>2. CASE s # "admin-api-cost"
    <3>1. ProviderOf(s) = "cursor" /\ ~hits(a, s)
      BY <2>2 DEF ProviderOf, hits
    <3> QED
      BY <1>6, <3>1
  <2> QED
    BY <2>1, <2>2
<1>8. Overlaps(asking.ask.span) =>
        Billed(AnthropicRows, asking.ask.arm, SourceOf(asking.ask, "anthropic")) >= Dues(bill, asking.ask, "anthropic")
  <2>1. SourceOf(asking.ask, "anthropic") = "admin-api-cost" /\ Dues(bill, asking.ask, "anthropic") = bill.anthropic
    BY DEF SourceOf, Dues
  <2> QED
    BY <1>1, <1>6, <2>1 DEF hits
<1> QED
  BY <1>6, <1>7, <1>8 DEF RowsFit

\* Rows of one source, one for every amount.
LEMMA RowsOf ==
  ASSUME asking.ask \in Asks, NEW source \in AllSources \ {"admin-api"}, NEW events \in Seq(Events), NEW rows,
         rows = [i \in DOMAIN events |-> Row("cursor", source, events[i].amount)]
  PROVE  /\ rows \in Seq(RowShape)
         /\ \A a, s : Billed(rows, a, s) = IF asking.ask.arm = a /\ s = source /\ Overlaps(asking.ask.span)
                                           THEN Summed(events) ELSE 0
<1>1. PICK n \in Nat : n = Len(events) /\ DOMAIN events = 1..n
  BY LenProperties
<1>2. \A i \in 1..n : events[i].amount \in Nat
  <2>1. \A i \in 1..n : events[i] \in Events
    BY <1>1, ElementOfSeq
  <2> QED
    BY <2>1 DEF Events
<1>3. ASSUME NEW i \in 1..n
      PROVE  /\ rows[i] \in RowShape /\ rows[i].amount = events[i].amount
             /\ \A a, s : Counted(rows[i], a, s) <=> asking.ask.arm = a /\ s = source /\ Overlaps(asking.ask.span)
  <2>1. rows[i] = Row("cursor", source, events[i].amount)
    BY <1>1
  <2>2. events[i].amount \in Nat /\ "cursor" \in Providers /\ source \in AllSources /\ source # "admin-api"
    BY <1>2 DEF Providers
  <2> QED
    BY <2>1, <2>2, RowIs
<1>4. rows \in [1..n -> RowShape]
  BY <1>1, <1>3
<1>5. rows \in Seq(RowShape)
  BY <1>4, SeqDef
<1>6. Len(rows) = n
  <2>1. DOMAIN rows = 1..n
    BY <1>4
  <2> QED
    BY <1>5, <2>1, LenProperties
<1>7. Summed(rows) = Summed(events)
  <2>1. [i \in DOMAIN rows |-> rows[i].amount] = [i \in DOMAIN events |-> events[i].amount]
    BY <1>1, <1>3, <1>4
  <2> QED
    BY <2>1 DEF Summed
<1>8. ASSUME NEW a, NEW s
      PROVE  Billed(rows, a, s) = IF asking.ask.arm = a /\ s = source /\ Overlaps(asking.ask.span) THEN Summed(events) ELSE 0
  <2>1. CASE asking.ask.arm = a /\ s = source /\ Overlaps(asking.ask.span)
    <3>1. \A i \in 1..Len(rows) : Counted(rows[i], a, s)
      <4> SUFFICES ASSUME NEW i \in 1..n PROVE Counted(rows[i], a, s)
        BY <1>6
      <4>1. Counted(rows[i], a, s) <=> asking.ask.arm = a /\ s = source /\ Overlaps(asking.ask.span)
        BY <1>3
      <4> QED
        BY <2>1, <4>1
    <3> QED
      BY <1>5, <1>7, <2>1, <3>1, BilledAll
  <2>2. CASE ~(asking.ask.arm = a /\ s = source /\ Overlaps(asking.ask.span))
    <3>1. \A i \in 1..Len(rows) : Weight(rows[i], a, s) = 0
      BY <1>3, <1>6, <2>2 DEF Weight
    <3> QED
      BY <1>5, <2>2, <3>1, BilledNone
  <2> QED
    BY <2>1, <2>2
<1> QED
  BY <1>5, <1>8

\* The first events of the bill.
Prefix(events, b) ==
    /\ events \in Seq(Events) /\ Len(events) <= Len(b.cursor)
    /\ \A i \in 1..Len(events) : events[i] = b.cursor[i]

\* The least of two numbers.
LEMMA LeastOfTwo ==
  ASSUME NEW x \in Nat, NEW y \in Nat
  PROVE  Min({x, y}) = IF x <= y THEN x ELSE y
<1> DEFINE least == IF x <= y THEN x ELSE y
           Q(m) == m \in {x, y} /\ \A z \in {x, y} : m <= z
<1>1. Q(least)
  OBVIOUS
<1>2. \A m : Q(m) => m = least
  OBVIOUS
<1>3. Min({x, y}) = CHOOSE m : Q(m)
  BY DEF Min
<1> HIDE DEF least, Q
<1>4. Q(CHOOSE m : Q(m))
  BY <1>1
<1> QED
  BY <1>2, <1>3, <1>4 DEF least

\* What the pages can hold of the events.
LEMMA MostIs ==
  ASSUME NEW b \in Bills
  PROVE  LET reach == IF PageSize * MaxPages <= Len(b.cursor) THEN PageSize * MaxPages ELSE Len(b.cursor)
             most == SubSeq(b.cursor, 1, Min({PageSize * MaxPages, Len(b.cursor)}))
         IN  Prefix(most, b) /\ Len(most) = reach /\ reach \in Nat
<1> DEFINE reach == IF PageSize * MaxPages <= Len(b.cursor) THEN PageSize * MaxPages ELSE Len(b.cursor)
<1>1. PICK n \in Nat : n = Len(b.cursor) /\ b.cursor \in Seq(Events)
  BY BillIs, LenProperties
<1>2. PICK m \in Nat : m = PageSize * MaxPages
  BY SpendAssumption
<1>3. Min({m, n}) = IF m <= n THEN m ELSE n
  BY LeastOfTwo
<1>4. PICK k \in Nat : k = Min({PageSize * MaxPages, Len(b.cursor)}) /\ k = reach /\ k <= n
  BY <1>1, <1>2, <1>3
<1>5. \A i \in 1..k : b.cursor[i] \in Events
  <2>1. \A i \in 1..k : i \in 1..Len(b.cursor)
    BY <1>1, <1>4
  <2> QED
    BY <1>1, <2>1, ElementOfSeq
<1> DEFINE most == SubSeq(b.cursor, 1, k)
<1>6. /\ most \in Seq(Events) /\ Len(most) = IF 1 <= k THEN k - 1 + 1 ELSE 0
      /\ \A i \in 1..k - 1 + 1 : most[i] = b.cursor[1 + i - 1]
  BY <1>5, SubSeqProperties
<1> HIDE DEF most, reach
<1>7. Len(most) = k /\ \A i \in 1..k : most[i] = b.cursor[i]
  <2>1. k - 1 + 1 = k /\ (IF 1 <= k THEN k - 1 + 1 ELSE 0) = k /\ \A i \in 1..k : 1 + i - 1 = i
    OBVIOUS
  <2> QED
    BY <1>6, <2>1
<1>8. Prefix(most, b)
  BY <1>1, <1>4, <1>6, <1>7 DEF Prefix
<1> QED
  BY <1>4, <1>7, <1>8 DEF most, reach

LEMMA SummedIs == \A events \in Seq(Events) : Summed(events) \in Nat
<1>1. \A r \in Events : r.amount \in Nat
  BY DEF Events
<1> QED
  BY <1>1, SummedAre

\* Whole cents are events too, as many and the same ones.
LEMMA WholeIs ==
  ASSUME NEW events \in Seq(Events)
  PROVE  /\ WholeCents(events) \in Seq(Events) /\ Len(WholeCents(events)) = Len(events)
         /\ \A i \in 1..Len(events) : WholeCents(events)[i] = [events[i] EXCEPT !.amount = @ - (@ % 10)]
<1> DEFINE whole == WholeCents(events)
           cut(e) == [e EXCEPT !.amount = @ - (@ % 10)]
<1>1. PICK n \in Nat : n = Len(events) /\ DOMAIN events = 1..n
  BY LenProperties
<1>2. \A x \in Nat : x - (x % 10) \in Nat
  OBVIOUS
<1>3. ASSUME NEW e \in Events PROVE cut(e) \in Events
  BY <1>2 DEF Events
<1>4. \A i \in 1..n : events[i] \in Events
  BY <1>1, ElementOfSeq
<1>5. whole = [i \in 1..n |-> cut(events[i])]
  BY <1>1 DEF WholeCents
<1> HIDE DEF cut, whole
<1>6. whole \in [1..n -> Events] /\ \A i \in 1..n : whole[i] = cut(events[i])
  BY <1>3, <1>4, <1>5
<1>7. whole \in Seq(Events) /\ DOMAIN whole = 1..n
  BY <1>6, SeqDef
<1>8. Len(whole) = n
  BY <1>1, <1>7, LenProperties
<1> QED
  BY <1>1, <1>6, <1>7, <1>8 DEF whole, cut

LEMMA LearnedIs ==
  ASSUME NEW events \in Seq(Events), NEW csv
  PROVE  Learned(events, csv) \in Seq(Events) /\ Summed(Learned(events, csv)) \in Nat
<1>1. Learned(events, csv) \in Seq(Events)
  BY WholeIs DEF Learned
<1> QED
  BY <1>1, SummedIs

\* Less is learned from fewer events.
LEMMA WholeOfPrefix ==
  ASSUME NEW events \in Seq(Events), NEW first \in Seq(Events), Len(first) <= Len(events),
         \A i \in 1..Len(first) : first[i] = events[i]
  PROVE  /\ Summed(WholeCents(first)) <= Summed(WholeCents(events))
         /\ Summed(WholeCents(first)) \in Nat /\ Summed(WholeCents(events)) \in Nat
<1> DEFINE more == WholeCents(events)
           less == WholeCents(first)
<1>1. PICK y \in Nat, z \in Nat : y = Len(events) /\ z = Len(first) /\ z <= y
  BY LenProperties
<1>2. more \in Seq(Events) /\ Len(more) = y /\ \A i \in 1..y : more[i] = [events[i] EXCEPT !.amount = @ - (@ % 10)]
  BY <1>1, WholeIs
<1>3. less \in Seq(Events) /\ Len(less) = z /\ \A i \in 1..z : less[i] = [first[i] EXCEPT !.amount = @ - (@ % 10)]
  BY <1>1, WholeIs
<1> HIDE DEF more, less
<1>4. \A i \in 1..Len(less) : less[i] = more[i]
  <2> SUFFICES ASSUME NEW i \in 1..z PROVE less[i] = more[i]
    BY <1>3
  <2>1. i \in 1..y /\ first[i] = events[i]
    BY <1>1
  <2>2. less[i] = [first[i] EXCEPT !.amount = @ - (@ % 10)]
    BY <1>3
  <2>3. more[i] = [events[i] EXCEPT !.amount = @ - (@ % 10)]
    BY <1>2, <2>1
  <2> QED
    BY <2>1, <2>2, <2>3
<1>5. Summed(less) <= Summed(more) /\ Summed(less) \in Nat /\ Summed(more) \in Nat
  BY <1>1, <1>2, <1>3, <1>4, SummedOfPrefix
<1> QED
  BY <1>5 DEF more, less

\* What there is to be charged is a number.
LEMMA DuesAre ==
  ASSUME NEW b \in Bills, NEW ask, NEW provider
  PROVE  Dues(b, ask, provider) \in Nat
<1>1. b.anthropic \in Nat /\ Summed(Learned(b.cursor, ask.csv)) \in Nat
  BY BillIs, LearnedIs
<1>2. Summed(Learned(SubSeq(b.cursor, 1, Min({PageSize * MaxPages, Len(b.cursor)})), ask.csv)) \in Nat
  <2> DEFINE most == SubSeq(b.cursor, 1, Min({PageSize * MaxPages, Len(b.cursor)}))
  <2>1. most \in Seq(Events)
    BY MostIs DEF Prefix
  <2> HIDE DEF most
  <2>2. Summed(Learned(most, ask.csv)) \in Nat
    BY <2>1, LearnedIs
  <2> QED
    BY <2>2 DEF most
<1> QED
  BY <1>1, <1>2 DEF Dues

\* Events that reach as far as the pages can charge what there is to be charged.
LEMMA PrefixCharges ==
  ASSUME NEW b \in Bills, NEW ask, ~ask.csv, NEW events, Prefix(events, b),
         Len(events) = Len(b.cursor) \/ Len(events) >= PageSize * MaxPages
  PROVE  Dues(b, ask, "cursor") <= Summed(WholeCents(events))
<1> DEFINE most == SubSeq(b.cursor, 1, Min({PageSize * MaxPages, Len(b.cursor)}))
           reach == IF PageSize * MaxPages <= Len(b.cursor) THEN PageSize * MaxPages ELSE Len(b.cursor)
<1>1. Prefix(most, b) /\ Len(most) = reach /\ reach \in Nat
  BY MostIs
<1>2. Dues(b, ask, "cursor") = Summed(WholeCents(most))
  BY DEF Dues, Learned
<1> HIDE DEF most
<1>3. PICK n \in Nat, l \in Nat, m \in Nat :
        n = Len(b.cursor) /\ l = Len(events) /\ m = PageSize * MaxPages /\ l <= n
  <2>1. Len(events) \in Nat /\ Len(events) <= Len(b.cursor)
    BY LenProperties DEF Prefix
  <2>2. Len(b.cursor) \in Nat /\ PageSize * MaxPages \in Nat
    BY BillIs, LenProperties, SpendAssumption
  <2> QED
    BY <2>1, <2>2
<1>4. Len(most) \in Nat /\ Len(most) <= l
  BY <1>1, <1>3
<1> HIDE DEF reach
<1>5. \A i \in 1..Len(most) : most[i] = events[i]
  <2>1. \A i \in 1..Len(most) : i \in 1..Len(events)
    BY <1>3, <1>4
  <2> QED
    BY <1>1, <2>1 DEF Prefix
<1>6. events \in Seq(Events) /\ most \in Seq(Events)
  BY <1>1 DEF Prefix
<1> QED
  BY <1>2, <1>3, <1>4, <1>5, <1>6, WholeOfPrefix

\* The file's rows.
LEMMA CsvRowsFit ==
  ASSUME asking.ask \in Asks, bill \in Bills, asking.ask.csv, "cursor" \in asking.ask.providers
  PROVE  RowsFit(CsvRows(bill.cursor), bill, asking.ask, "cursor")
<1> DEFINE rows == CsvRows(bill.cursor)
           all == Summed(bill.cursor)
<1>1. bill.cursor \in Seq(Events)
  BY BillIs
<1>2. "manual-csv" \in AllSources \ {"admin-api"}
  BY DEF AllSources
<1>3. rows = [i \in DOMAIN bill.cursor |-> Row("cursor", "manual-csv", bill.cursor[i].amount)]
  BY DEF CsvRows
<1> HIDE DEF rows
<1>4. /\ rows \in Seq(RowShape)
      /\ \A a, s : Billed(rows, a, s) = IF asking.ask.arm = a /\ s = "manual-csv" /\ Overlaps(asking.ask.span) THEN all ELSE 0
  BY <1>1, <1>2, <1>3, RowsOf
<1>5. all \in Nat
  BY <1>1, SummedIs
<1> HIDE DEF all
<1>6. ASSUME NEW a \in Arms, NEW s \in Kinds
      PROVE  Billed(rows, a, s)
                <= IF asking.ask.arm = a /\ Overlaps(asking.ask.span) /\ Fits(asking.ask, s) /\ ProviderOf(s) = "cursor"
                   THEN Amount(bill, s) ELSE 0
  <2>1. Billed(rows, a, s) = IF asking.ask.arm = a /\ s = "manual-csv" /\ Overlaps(asking.ask.span) THEN all ELSE 0
    BY <1>4
  <2>2. s = "manual-csv" => Fits(asking.ask, s) /\ ProviderOf(s) = "cursor" /\ Amount(bill, s) = all
    BY DEF Fits, ProviderOf, Amount, Learned, all
  <2>3. Fits(asking.ask, s) /\ ProviderOf(s) = "cursor" => s = "manual-csv"
    BY DEF Fits, ProviderOf
  <2> QED
    BY <1>5, <2>1, <2>2, <2>3
<1>7. Overlaps(asking.ask.span) =>
        Billed(rows, asking.ask.arm, SourceOf(asking.ask, "cursor")) >= Dues(bill, asking.ask, "cursor")
  <2>1. SourceOf(asking.ask, "cursor") = "manual-csv" /\ Dues(bill, asking.ask, "cursor") = all
    BY DEF SourceOf, Dues, Learned, all
  <2>2. Overlaps(asking.ask.span) => Billed(rows, asking.ask.arm, "manual-csv") = all
    BY <1>4
  <2> QED
    BY <1>5, <2>1, <2>2
<1> QED
  BY <1>4, <1>6, <1>7 DEF RowsFit, rows

\* The interface's rows, when the events that were read reach as far as they can.
LEMMA CursorRowsFit ==
  ASSUME asking.ask \in Asks, bill \in Bills, ~asking.ask.csv, "cursor" \in asking.ask.providers,
         NEW events, Prefix(events, bill), Dues(bill, asking.ask, "cursor") <= Summed(WholeCents(events))
  PROVE  RowsFit(CursorRows(events), bill, asking.ask, "cursor")
<1> DEFINE whole == WholeCents(events)
           models == Bucketing(whole)[Len(whole)]
           own == [i \in DOMAIN models |-> Row("cursor", "usage-events", models[i].amount)]
           roll == Row("cursor", "usage-events-rollup", Summed(whole))
           rows == CursorRows(events)
           hits(a) == asking.ask.arm = a /\ Overlaps(asking.ask.span)
<1>1. rows = Append(own, roll)
  BY Zenon DEF CursorRows
<1>2. bill.cursor \in Seq(Events) /\ events \in Seq(Events)
  BY BillIs DEF Prefix
<1> DEFINE total == Summed(WholeCents(bill.cursor))
<1>3. whole \in Seq(Events) /\ Summed(whole) \in Nat /\ total \in Nat /\ Summed(whole) <= total
      /\ Dues(bill, asking.ask, "cursor") <= Summed(whole)
  BY <1>2, WholeIs, WholeOfPrefix DEF Prefix
<1> HIDE DEF whole
<1>4. models \in Seq(Events) /\ Summed(models) = Summed(whole)
  BY <1>3, BucketsAddUp
<1> HIDE DEF models
<1>5. "cursor" \in Providers /\ "usage-events" \in AllSources \ {"admin-api"} /\ "usage-events-rollup" \in AllSources
      /\ "usage-events-rollup" # "admin-api"
  BY DEF Providers, AllSources
<1>6. /\ own \in Seq(RowShape)
      /\ \A a, s : Billed(own, a, s) = IF asking.ask.arm = a /\ s = "usage-events" /\ Overlaps(asking.ask.span)
                                       THEN Summed(models) ELSE 0
  <2>1. own = [i \in DOMAIN models |-> Row("cursor", "usage-events", models[i].amount)]
    OBVIOUS
  <2> HIDE DEF own
  <2> QED
    BY <1>4, <1>5, <2>1, RowsOf
<1> HIDE DEF own
<1>7. /\ roll \in RowShape
      /\ \A a, s : Weight(roll, a, s) = IF asking.ask.arm = a /\ s = "usage-events-rollup" /\ Overlaps(asking.ask.span)
                                        THEN Summed(whole) ELSE 0
  <2>1. Summed(whole) \in Nat
    BY <1>3
  <2> QED
    BY <1>5, <2>1, RowIs
<1> HIDE DEF roll, rows
<1>8. ASSUME NEW a, NEW s
      PROVE  rows \in Seq(RowShape)
             /\ Billed(rows, a, s) = IF hits(a) /\ s \in {"usage-events", "usage-events-rollup"} THEN Summed(whole) ELSE 0
  <2>1. rows \in Seq(RowShape) /\ Billed(rows, a, s) = Billed(own, a, s) + Weight(roll, a, s)
    BY <1>1, <1>6, <1>7, BilledMore
  <2>2. Billed(own, a, s) = IF hits(a) /\ s = "usage-events" THEN Summed(whole) ELSE 0
    BY <1>4, <1>6
  <2>3. Weight(roll, a, s) = IF hits(a) /\ s = "usage-events-rollup" THEN Summed(whole) ELSE 0
    BY <1>7
  <2> HIDE DEF hits
  <2> QED
    BY <1>3, <2>1, <2>2, <2>3
<1>9. ASSUME NEW a \in Arms, NEW s \in Kinds
      PROVE  Billed(rows, a, s)
                <= IF asking.ask.arm = a /\ Overlaps(asking.ask.span) /\ Fits(asking.ask, s) /\ ProviderOf(s) = "cursor"
                   THEN Amount(bill, s) ELSE 0
  <2>1. Billed(rows, a, s) = IF hits(a) /\ s \in {"usage-events", "usage-events-rollup"} THEN Summed(whole) ELSE 0
    BY <1>8
  <2>2. s \in {"usage-events", "usage-events-rollup"} =>
          Fits(asking.ask, s) /\ ProviderOf(s) = "cursor" /\ Amount(bill, s) = total
    BY DEF Fits, ProviderOf, Amount, Learned
  <2>3. Fits(asking.ask, s) /\ ProviderOf(s) = "cursor" => s \in {"usage-events", "usage-events-rollup"}
    BY DEF Fits, ProviderOf, Kinds
  <2> QED
    BY <1>3, <2>1, <2>2, <2>3
<1>10. Overlaps(asking.ask.span) =>
        Billed(rows, asking.ask.arm, SourceOf(asking.ask, "cursor")) >= Dues(bill, asking.ask, "cursor")
  <2>1. SourceOf(asking.ask, "cursor") = "usage-events"
    BY DEF SourceOf
  <2>2. Overlaps(asking.ask.span) => Billed(rows, asking.ask.arm, "usage-events") = Summed(whole)
    BY <1>8
  <2>3. Dues(bill, asking.ask, "cursor") \in Nat
    BY DuesAre
  <2> QED
    BY <1>3, <2>1, <2>2, <2>3
<1> QED
  BY <1>8, <1>9, <1>10 DEF RowsFit, rows

----------------------------------------------------------------------------
\* The pull under way

PullRecord == [stage : {"ask", "write", "exit", "ended"}, at : Providers, left : SUBSET Providers, ask : Asks,
               todo : Seq(RowShape), page : Nat, events : Seq(Events), failed : BOOLEAN]
Begun == [ask : Asks, code : {None, 0, 2, 130}]
Running == asking.stage \notin {"none", "ended"}

SpendShape ==
    /\ bill \in Bills /\ spent \in Seq(RowShape) /\ pulls \in Seq(Begun)
    /\ asking.stage # "none" =>
          /\ asking \in PullRecord
          /\ Prefix(asking.events, bill) /\ Len(asking.events) = (asking.page - 1) * PageSize
          /\ asking.page \in 1..MaxPages
    /\ Running => /\ pulls # <<>> /\ pulls[Len(pulls)].ask = asking.ask
                  /\ asking.left \subseteq asking.ask.providers
    /\ asking.stage = "exit" => asking.left = {}
    /\ asking.stage \in {"ask", "write"} => asking.at \in asking.left
    /\ asking.stage \in {"ask", "exit"} => asking.todo = <<>>
    /\ asking.stage = "write" => ~asking.ask.dry

\* The pull moves on to what is left.
MovesOn(was, now, left) ==
    /\ now \in PullRecord /\ now.left = left /\ now.stage = (IF left = {} THEN "exit" ELSE "ask")
    /\ left # {} => now.at \in left
    /\ now.ask = was.ask /\ now.todo = was.todo /\ now.page = was.page /\ now.events = was.events
    /\ now.failed = was.failed

LEMMA OnwardIs ==
  ASSUME NEW was \in PullRecord, NEW left \in SUBSET Providers
  PROVE  MovesOn(was, Onward(was, left), left)
<1> DEFINE now == Onward(was, left)
<1>1. now = [was EXCEPT !.stage = IF left = {} THEN "exit" ELSE "ask", !.left = left,
                         !.at = IF "anthropic" \in left THEN "anthropic" ELSE "cursor"]
  BY DEF Onward
<1>2. /\ now.left = left /\ now.stage = (IF left = {} THEN "exit" ELSE "ask")
      /\ now.at = (IF "anthropic" \in left THEN "anthropic" ELSE "cursor")
      /\ now.ask = was.ask /\ now.todo = was.todo /\ now.page = was.page /\ now.events = was.events
      /\ now.failed = was.failed
  BY <1>1 DEF PullRecord
<1>3. now \in PullRecord
  BY <1>1 DEF PullRecord, Providers
<1>4. left # {} => now.at \in left
  BY <1>2 DEF Providers
<1> QED
  BY <1>2, <1>3, <1>4 DEF MovesOn

\* What a step of a pull can be, for the table and for what was asked.
StepStarts ==
    \E ask \in Asks :
        /\ ~Running /\ pulls' = Append(pulls, [ask |-> ask, code |-> None]) /\ spent' = spent
        /\ asking'.ask = ask /\ asking'.left = ask.providers
        /\ asking'.stage = (IF ask.providers = {} THEN "exit" ELSE "ask") /\ asking'.failed = FALSE
Kept == pulls' = pulls /\ asking'.ask = asking.ask
StepReads == /\ Kept /\ spent' = spent /\ asking.stage = "ask" /\ asking'.stage = "ask"
             /\ asking'.left = asking.left /\ asking'.at = asking.at /\ asking'.failed = asking.failed
StepMoves ==
    /\ Kept /\ spent' = spent /\ asking.stage \in {"ask", "write"}
    /\ asking'.left = asking.left \ {asking.at} /\ asking'.stage = (IF asking'.left = {} THEN "exit" ELSE "ask")
    /\ \/ asking'.failed
       \/ asking'.failed = asking.failed /\ (asking.ask.dry \/ (asking.stage = "write" /\ asking.todo = <<>>))
StepCollects ==
    /\ Kept /\ spent' = spent /\ asking.stage = "ask" /\ asking'.stage = "write"
    /\ asking'.left = asking.left /\ asking'.at = asking.at /\ asking'.failed = asking.failed
    /\ RowsFit(asking'.todo, bill, asking.ask, asking.at)
StepRecords ==
    /\ Kept /\ asking.stage = "write" /\ asking'.stage = "write"
    /\ asking'.left = asking.left /\ asking'.at = asking.at /\ asking'.failed = asking.failed
    /\ asking.todo # <<>> /\ spent' = Append(spent, Head(asking.todo)) /\ asking'.todo = Tail(asking.todo)
StepEnds ==
    \E code \in {0, 2, 130} :
        /\ Running /\ asking'.stage = "ended" /\ spent' = spent
        /\ pulls' = [pulls EXCEPT ![Len(pulls)].code = code]
        /\ code = 0 => asking.stage = "exit" /\ ~asking.failed
SpendStep == bill' = bill /\ (StepStarts \/ StepReads \/ StepMoves \/ StepCollects \/ StepRecords \/ StepEnds)

LEMMA PageTimes ==
  ASSUME NEW p \in Nat, NEW s \in Nat
  PROVE  (p + 1 - 1) * s = (p - 1) * s + s /\ p * s = (p - 1) * s + s /\ (1 - 1) * s = 0
  OBVIOUS

LEMMA StartPullShape ==
  ASSUME SpendShape, NEW ask \in Asks, StartPull(ask)
  PROVE  SpendShape' /\ SpendStep
<1> DEFINE new == [stage |-> "ask", at |-> "cursor", left |-> {}, ask |-> ask, todo |-> <<>>,
                   page |-> 1, events |-> <<>>, failed |-> FALSE]
           begun == [ask |-> ask, code |-> None]
<1>1. bill' = bill /\ spent' = spent /\ pulls' = Append(pulls, begun) /\ asking' = Onward(new, ask.providers) /\ ~Running
  BY DEF StartPull, Running
<1>2. new \in PullRecord
  <2>1. <<>> \in Seq(RowShape) /\ <<>> \in Seq(Events)
    BY EmptySeq
  <2> QED
    BY <2>1 DEF PullRecord, Providers
<1>3. new.ask = ask /\ new.todo = <<>> /\ new.page = 1 /\ new.events = <<>> /\ new.failed = FALSE
  OBVIOUS
<1> HIDE DEF new
<1>4. MovesOn(new, asking', ask.providers)
  BY <1>1, <1>2, AskIs, OnwardIs
<1>5. /\ asking' \in PullRecord /\ asking'.left = ask.providers /\ asking'.ask = ask /\ asking'.todo = <<>>
      /\ asking'.page = 1 /\ asking'.events = <<>> /\ asking'.failed = FALSE
      /\ asking'.stage = (IF ask.providers = {} THEN "exit" ELSE "ask")
      /\ asking'.stage = "ask" => asking'.at \in asking'.left
  BY <1>3, <1>4 DEF MovesOn
<1>6. begun \in Begun /\ begun.ask = ask
  BY DEF Begun
<1> HIDE DEF begun
<1>7. pulls' \in Seq(Begun) /\ pulls' # <<>> /\ pulls'[Len(pulls')] = begun
  <2>1. pulls \in Seq(Begun)
    BY DEF SpendShape
  <2>2. Len(pulls) \in Nat /\ pulls' \in Seq(Begun) /\ Len(pulls') = Len(pulls) + 1 /\ pulls'[Len(pulls) + 1] = begun
    BY <1>1, <1>6, <2>1, LenProperties, AppendProperties
  <2> QED
    BY <2>2, EmptySeq
<1>8. Prefix(asking'.events, bill) /\ Len(asking'.events) = (asking'.page - 1) * PageSize /\ asking'.page \in 1..MaxPages
  <2>1. PageSize \in Nat /\ MaxPages \in Nat /\ 1 <= MaxPages
    BY SpendAssumption
  <2>2. (1 - 1) * PageSize = 0
    BY <2>1, PageTimes
  <2> DEFINE none == <<>>
  <2>3. none \in Seq(Events) /\ Len(none) = 0
    BY EmptySeq
  <2>4. Len(bill.cursor) \in Nat
    BY BillIs, LenProperties DEF SpendShape
  <2> HIDE DEF none
  <2>5. Prefix(none, bill)
    BY <2>3, <2>4 DEF Prefix
  <2>6. asking'.events = none /\ asking'.page = 1
    BY <1>5 DEF none
  <2> QED
    BY <2>1, <2>2, <2>3, <2>5, <2>6
<1>9. asking'.stage \in {"ask", "exit"}
  BY <1>5
<1>10. SpendShape'
  <2>1. (bill \in Bills /\ spent \in Seq(RowShape) /\ pulls \in Seq(Begun))'
    BY <1>1, <1>7 DEF SpendShape
  <2>2. asking'.stage = "exit" => asking'.left = {}
    BY <1>5
  <2> QED
    BY <1>1, <1>5, <1>6, <1>7, <1>8, <1>9, <2>1, <2>2 DEF SpendShape
<1>11. StepStarts
  BY <1>1, <1>5 DEF StepStarts, begun
<1> QED
  BY <1>1, <1>10, <1>11 DEF SpendStep

\* A pull that goes on with the same ask: what is left to show.
LEMMA PullGoesOn ==
  ASSUME SpendShape, asking.stage # "none", asking.stage # "ended", bill' = bill, spent' \in Seq(RowShape), pulls' = pulls,
         asking' \in PullRecord, asking'.ask = asking.ask, asking'.left \subseteq asking.left,
         Prefix(asking'.events, bill), Len(asking'.events) = (asking'.page - 1) * PageSize, asking'.page \in 1..MaxPages,
         asking'.stage = "exit" => asking'.left = {},
         asking'.stage \in {"ask", "write"} => asking'.at \in asking'.left,
         asking'.stage \in {"ask", "exit"} => asking'.todo = <<>>,
         asking'.stage = "write" => ~asking.ask.dry
  PROVE  SpendShape'
<1>1. bill \in Bills /\ pulls \in Seq(Begun) /\ pulls # <<>> /\ pulls[Len(pulls)].ask = asking.ask
      /\ asking.left \subseteq asking.ask.providers
  BY DEF SpendShape, Running
<1>2. asking'.left \subseteq asking'.ask.providers
  BY <1>1
<1>3. (bill \in Bills /\ spent \in Seq(RowShape) /\ pulls \in Seq(Begun))'
  BY <1>1
<1>4. (pulls # <<>> /\ pulls[Len(pulls)].ask = asking.ask)'
  BY <1>1
<1> QED
  BY <1>2, <1>3, <1>4 DEF SpendShape

\* The pull moves on, its rows written or given up.
LEMMA MovesShape ==
  ASSUME SpendShape, asking.stage \in {"ask", "write"}, bill' = bill, spent' = spent, pulls' = pulls,
         NEW was \in PullRecord, was.at = asking.at, was.left = asking.left, was.ask = asking.ask, was.todo = <<>>,
         was.page = asking.page, was.events = asking.events,
         was.failed \/ (was.failed = asking.failed /\ (asking.ask.dry \/ (asking.stage = "write" /\ asking.todo = <<>>))),
         asking' = NextProvider(was)
  PROVE  SpendShape' /\ SpendStep
<1>1. MovesOn(was, asking', was.left \ {was.at})
  <2>1. was.left \ {was.at} \in SUBSET Providers
    BY DEF PullRecord
  <2> QED
    BY <2>1, OnwardIs DEF NextProvider
<1>2. /\ asking' \in PullRecord /\ asking'.left = asking.left \ {asking.at} /\ asking'.ask = asking.ask
      /\ asking'.todo = <<>> /\ asking'.page = asking.page /\ asking'.events = asking.events
      /\ asking'.failed = was.failed /\ asking'.stage = (IF asking'.left = {} THEN "exit" ELSE "ask")
      /\ asking'.stage = "ask" => asking'.at \in asking'.left
  BY <1>1 DEF MovesOn
<1>3. Prefix(asking.events, bill) /\ Len(asking.events) = (asking.page - 1) * PageSize /\ asking.page \in 1..MaxPages
      /\ spent \in Seq(RowShape)
  BY DEF SpendShape
<1>4. SpendShape'
  <2>1. /\ asking'.left \subseteq asking.left /\ asking'.stage \in {"exit", "ask"}
        /\ asking.stage # "none" /\ asking.stage # "ended"
        /\ asking'.stage = "exit" => asking'.left = {}
    BY <1>2
  <2>2. /\ Prefix(asking'.events, bill) /\ Len(asking'.events) = (asking'.page - 1) * PageSize
        /\ asking'.page \in 1..MaxPages /\ spent' \in Seq(RowShape)
    BY <1>2, <1>3
  <2>3. asking'.stage # "write"
    BY <2>1
  <2> QED
    BY <1>2, <2>1, <2>2, <2>3, PullGoesOn
<1>5. StepMoves
  BY <1>2 DEF StepMoves, Kept
<1> QED
  BY <1>4, <1>5 DEF SpendStep

LEMMA CollectedShape ==
  ASSUME SpendShape, asking.stage = "ask", bill' = bill, spent' = spent, pulls' = pulls,
         NEW rows, Collected(rows), RowsFit(rows, bill, asking.ask, asking.at)
  PROVE  SpendShape' /\ SpendStep
<1>1. /\ asking \in PullRecord /\ asking.todo = <<>> /\ asking.at \in asking.left /\ spent \in Seq(RowShape)
      /\ Prefix(asking.events, bill) /\ Len(asking.events) = (asking.page - 1) * PageSize /\ asking.page \in 1..MaxPages
  BY DEF SpendShape
<1>2. CASE asking.ask.dry
  <2>1. asking' = NextProvider(asking)
    BY <1>2 DEF Collected
  <2> QED
    BY <1>1, <1>2, <2>1, MovesShape
<1>3. CASE ~asking.ask.dry
  <2>1. asking' = [asking EXCEPT !.stage = "write", !.todo = rows]
    BY <1>3 DEF Collected
  <2>2. rows \in Seq(RowShape)
    BY DEF RowsFit
  <2>3. asking' \in PullRecord
    BY <1>1, <2>1, <2>2 DEF PullRecord
  <2>4. /\ asking'.stage = "write" /\ asking'.todo = rows /\ asking'.left = asking.left /\ asking'.at = asking.at
        /\ asking'.ask = asking.ask /\ asking'.page = asking.page /\ asking'.events = asking.events
        /\ asking'.failed = asking.failed
    BY <1>1, <2>1 DEF PullRecord
  <2>5. SpendShape'
    <3>1. /\ asking'.stage # "exit" /\ asking'.stage \notin {"ask", "exit"}
          /\ asking'.at \in asking'.left /\ asking'.left \subseteq asking.left /\ spent' \in Seq(RowShape)
      BY <1>1, <2>4
    <3>2. /\ Prefix(asking'.events, bill) /\ Len(asking'.events) = (asking'.page - 1) * PageSize
          /\ asking'.page \in 1..MaxPages
      BY <1>1, <2>4
    <3> QED
      BY <1>3, <2>3, <2>4, <3>1, <3>2, PullGoesOn
  <2>6. StepCollects
    BY <2>4 DEF StepCollects, Kept
  <2> QED
    BY <2>5, <2>6 DEF SpendStep
<1> QED
  BY <1>2, <1>3

LEMMA CollectAnthropicShape ==
  ASSUME SpendShape, CollectAnthropic
  PROVE  SpendShape' /\ SpendStep
<1>1. asking.stage = "ask" /\ asking.at = "anthropic" /\ Collected(AnthropicRows)
      /\ bill' = bill /\ spent' = spent /\ pulls' = pulls
  BY DEF CollectAnthropic, Asking
<1>2. asking.ask \in Asks /\ bill \in Bills /\ "anthropic" \in asking.ask.providers
  BY <1>1 DEF SpendShape, Running, PullRecord
<1>3. RowsFit(AnthropicRows, bill, asking.ask, asking.at)
  BY <1>1, <1>2, AnthropicRowsFit
<1> QED
  BY <1>1, <1>3, CollectedShape

LEMMA ReadCsvShape ==
  ASSUME SpendShape, ReadCsv
  PROVE  SpendShape' /\ SpendStep
<1>1. asking.stage = "ask" /\ asking.at = "cursor" /\ asking.ask.csv /\ Collected(CsvRows(bill.cursor))
      /\ bill' = bill /\ spent' = spent /\ pulls' = pulls
  BY DEF ReadCsv, Asking
<1>2. asking.ask \in Asks /\ bill \in Bills /\ "cursor" \in asking.ask.providers
  BY <1>1 DEF SpendShape, Running, PullRecord
<1>3. RowsFit(CsvRows(bill.cursor), bill, asking.ask, asking.at)
  BY <1>1, <1>2, CsvRowsFit
<1> QED
  BY <1>1, <1>3, CollectedShape

\* A page more of the events.
LEMMA PageRead ==
  ASSUME SpendShape, asking.stage = "ask"
  PROVE  LET first == (asking.page - 1) * PageSize + 1
             here == SubSeq(bill.cursor, first, Min({first + PageSize - 1, Len(bill.cursor)}))
             all == asking.events \o here
         IN  /\ Prefix(all, bill)
             /\ here = <<>> => Len(all) = Len(bill.cursor)
             /\ Len(all) = Len(bill.cursor) \/ Len(all) = asking.page * PageSize
<1> DEFINE first == (asking.page - 1) * PageSize + 1
           here == SubSeq(bill.cursor, first, Min({first + PageSize - 1, Len(bill.cursor)}))
           all == asking.events \o here
<1>1. PICK n \in Nat : n = Len(bill.cursor) /\ bill.cursor \in Seq(Events)
  BY BillIs, LenProperties DEF SpendShape
<1>2. PICK p \in Nat, k \in Nat, m \in Nat : /\ p = asking.page /\ k = (p - 1) * PageSize /\ m = p * PageSize /\ m = k + PageSize
                               /\ k = Len(asking.events) /\ k <= n
  <2>1. asking.page \in Nat /\ asking.page >= 1 /\ PageSize \in Nat
    BY SpendAssumption DEF SpendShape
  <2>2. Len(asking.events) \in Nat /\ Len(asking.events) = (asking.page - 1) * PageSize /\ Len(asking.events) <= Len(bill.cursor)
    BY LenProperties DEF SpendShape, Prefix
  <2>3. asking.page * PageSize = (asking.page - 1) * PageSize + PageSize
    BY <2>1, PageTimes
  <2> QED
    BY <1>1, <2>1, <2>2, <2>3
<1>3. first = k + 1 /\ first + PageSize - 1 = m /\ PageSize \in Nat /\ PageSize >= 1
  BY <1>2, SpendAssumption
<1>4. PICK e \in Nat : e = Min({first + PageSize - 1, Len(bill.cursor)}) /\ e <= m /\ e <= n /\ (e = m \/ e = n)
  <2>1. Min({m, n}) = IF m <= n THEN m ELSE n
    BY LeastOfTwo
  <2>2. PICK e \in Nat : e = (IF m <= n THEN m ELSE n)
    OBVIOUS
  <2>3. e <= m /\ e <= n /\ (e = m \/ e = n) /\ Min({m, n}) = e
    BY <2>1, <2>2
  <2>4. Min({first + PageSize - 1, Len(bill.cursor)}) = e
    <3> HIDE DEF first
    <3> QED
      BY <1>1, <1>3, <2>3
  <2> HIDE DEF first
  <2> QED
    BY <2>3, <2>4
<1>5. \A i \in k + 1..e : bill.cursor[i] \in Events
  <2>1. \A i \in k + 1..e : i \in 1..n
    BY <1>4
  <2> QED
    BY <1>1, <2>1, ElementOfSeq
<1>6. here = SubSeq(bill.cursor, k + 1, e)
  BY <1>2, <1>3, <1>4
<1> HIDE DEF here, first
<1>7. /\ here \in Seq(Events) /\ Len(here) = IF k + 1 <= e THEN e - (k + 1) + 1 ELSE 0
      /\ \A i \in 1..e - (k + 1) + 1 : here[i] = bill.cursor[k + 1 + i - 1]
  BY <1>5, <1>6, SubSeqProperties
<1>8. e >= k /\ (e = k => k = n) /\ Len(here) = e - k /\ \A i \in 1..e - k : here[i] = bill.cursor[k + i]
  <2>1. e >= k /\ (e = k => k = n)
    <3>1. PICK z \in Nat : z = PageSize /\ z >= 1 /\ m = k + z
      BY <1>2, <1>3
    <3> QED
      BY <1>2, <1>4, <3>1
  <2>2. e - (k + 1) + 1 = e - k /\ (IF k + 1 <= e THEN e - (k + 1) + 1 ELSE 0) = e - k
    BY <2>1
  <2>3. \A i \in 1..e - k : k + 1 + i - 1 = k + i
    OBVIOUS
  <2> QED
    BY <1>7, <2>1, <2>2, <2>3
<1>9. asking.events \in Seq(Events) /\ \A i \in 1..k : asking.events[i] = bill.cursor[i]
  BY <1>2 DEF SpendShape, Prefix
<1>10. /\ all \in Seq(Events) /\ Len(all) = Len(asking.events) + Len(here)
       /\ \A i \in 1..Len(asking.events) + Len(here) :
             all[i] = IF i <= Len(asking.events) THEN asking.events[i] ELSE here[i - Len(asking.events)]
  BY <1>7, <1>9, ConcatProperties
<1> HIDE DEF all
<1>11. Len(all) = e /\ \A i \in 1..e : all[i] = IF i <= k THEN asking.events[i] ELSE here[i - k]
  <2>1. Len(asking.events) + Len(here) = e /\ Len(asking.events) = k
    BY <1>2, <1>8
  <2> QED
    BY <1>10, <2>1
<1>12. \A i \in 1..e : all[i] = bill.cursor[i]
  <2> SUFFICES ASSUME NEW i \in 1..e PROVE all[i] = bill.cursor[i]
    OBVIOUS
  <2>1. CASE i <= k
    <3>1. i \in 1..k
      BY <2>1
    <3> QED
      BY <1>9, <1>11, <2>1, <3>1
  <2>2. CASE i > k
    <3>1. i - k \in 1..e - k /\ k + (i - k) = i
      BY <2>2
    <3>2. here[i - k] = bill.cursor[k + (i - k)]
      BY <1>8, <3>1
    <3> QED
      BY <1>11, <2>2, <3>1, <3>2
  <2> QED
    BY <2>1, <2>2
<1>13. Prefix(all, bill)
  <2>1. all \in Seq(Events)
    BY <1>10
  <2>2. Len(all) <= Len(bill.cursor)
    BY <1>1, <1>4, <1>11
  <2>3. \A i \in 1..Len(all) : all[i] = bill.cursor[i]
    BY <1>11, <1>12
  <2> QED
    BY <2>1, <2>2, <2>3 DEF Prefix
<1>14. here = <<>> => Len(all) = n
  <2> SUFFICES ASSUME here = <<>> PROVE e = n
    BY <1>11
  <2>1. Len(here) = 0
    BY EmptySeq
  <2> QED
    BY <1>2, <1>4, <1>8, <2>1
<1>15. Len(all) = n \/ Len(all) = asking.page * PageSize
  BY <1>2, <1>4, <1>11
<1> QED
  BY <1>1, <1>13, <1>14, <1>15 DEF all, here, first

LEMMA FetchPageShape ==
  ASSUME SpendShape, FetchPage
  PROVE  SpendShape' /\ SpendStep
<1> DEFINE first == (asking.page - 1) * PageSize + 1
           here == SubSeq(bill.cursor, first, Min({first + PageSize - 1, Len(bill.cursor)}))
           all == asking.events \o here
<1>1. /\ asking.stage = "ask" /\ asking.at = "cursor" /\ ~asking.ask.csv
      /\ bill' = bill /\ spent' = spent /\ pulls' = pulls
      /\ IF here = <<>> \/ Len(all) >= Len(bill.cursor) \/ asking.page = MaxPages
         THEN Collected(CursorRows(all))
         ELSE asking' = [asking EXCEPT !.page = @ + 1, !.events = all]
  BY DEF FetchPage, Asking
<1>2. asking.ask \in Asks /\ bill \in Bills /\ "cursor" \in asking.ask.providers
  BY <1>1 DEF SpendShape, Running, PullRecord
<1>3. /\ Prefix(all, bill) /\ (here = <<>> => Len(all) = Len(bill.cursor))
      /\ Len(all) = Len(bill.cursor) \/ Len(all) = asking.page * PageSize
  BY <1>1, PageRead
<1> HIDE DEF first, here, all
<1>4. PICK n \in Nat, e \in Nat, m \in Nat : n = Len(bill.cursor) /\ e = Len(all) /\ m = PageSize * MaxPages /\ e <= n
  <2>1. Len(all) \in Nat /\ Len(all) <= Len(bill.cursor)
    BY <1>3, LenProperties DEF Prefix
  <2>2. Len(bill.cursor) \in Nat /\ PageSize * MaxPages \in Nat
    BY <1>2, BillIs, LenProperties, SpendAssumption
  <2> QED
    BY <2>1, <2>2
<1>5. CASE here = <<>> \/ Len(all) >= Len(bill.cursor) \/ asking.page = MaxPages
  <2>1. Len(all) = Len(bill.cursor) \/ Len(all) >= PageSize * MaxPages
    <3>1. CASE e = n
      BY <1>4, <3>1
    <3>2. CASE e # n
      <4>1. asking.page = MaxPages
        BY <1>3, <1>4, <1>5, <3>2
      <4>2. MaxPages * PageSize = PageSize * MaxPages
        BY SpendAssumption
      <4>3. Len(all) = asking.page * PageSize
        BY <1>3, <1>4, <3>2
      <4>4. e = m
        BY <1>4, <4>1, <4>2, <4>3
      <4> QED
        BY <1>4, <4>4
    <3> QED
      BY <3>1, <3>2
  <2>2. Dues(bill, asking.ask, "cursor") <= Summed(WholeCents(all))
    BY <1>1, <1>2, <1>3, <2>1, PrefixCharges
  <2>3. RowsFit(CursorRows(all), bill, asking.ask, asking.at)
    BY <1>1, <1>2, <1>3, <2>2, CursorRowsFit
  <2> QED
    BY <1>1, <1>5, <2>3, CollectedShape
<1>6. CASE ~(here = <<>> \/ Len(all) >= Len(bill.cursor) \/ asking.page = MaxPages)
  <2>1. asking' = [asking EXCEPT !.page = @ + 1, !.events = all]
    BY <1>1, <1>6
  <2>2. asking \in PullRecord /\ asking.page \in 1..MaxPages /\ spent \in Seq(RowShape) /\ asking.todo = <<>> /\ asking.at \in asking.left
    BY <1>1 DEF SpendShape
  <2>3. asking.page + 1 \in Nat /\ asking.page + 1 \in 1..MaxPages /\ all \in Seq(Events)
    <3>1. MaxPages \in Nat
      BY SpendAssumption
    <3> QED
      BY <1>3, <1>6, <2>2, <3>1 DEF Prefix
  <2>4. asking' \in PullRecord
    BY <2>1, <2>2, <2>3 DEF PullRecord
  <2>5. /\ asking'.stage = "ask" /\ asking'.todo = <<>> /\ asking'.left = asking.left /\ asking'.at = asking.at
        /\ asking'.ask = asking.ask /\ asking'.page = asking.page + 1 /\ asking'.events = all
        /\ asking'.failed = asking.failed
    BY <1>1, <2>1, <2>2 DEF PullRecord
  <2>6. Len(all) = (asking'.page - 1) * PageSize
    <3>1. Len(all) = asking.page * PageSize
      BY <1>3, <1>4, <1>6
    <3>2. asking'.page - 1 = asking.page
      BY <2>2, <2>5
    <3> QED
      BY <3>1, <3>2
  <2>7. SpendShape'
    <3>1. asking'.stage # "exit" /\ asking'.stage # "write" /\ asking'.at \in asking'.left /\ asking'.left \subseteq asking.left
      BY <2>2, <2>5
    <3>2. Prefix(asking'.events, bill) /\ Len(asking'.events) = (asking'.page - 1) * PageSize /\ asking'.page \in 1..MaxPages
      BY <1>3, <2>3, <2>5, <2>6
    <3> QED
      BY <1>1, <2>2, <2>4, <2>5, <3>1, <3>2, PullGoesOn
  <2>8. StepReads
    BY <1>1, <2>5 DEF StepReads, Kept
  <2> QED
    BY <1>1, <2>7, <2>8 DEF SpendStep
<1> QED
  BY <1>5, <1>6

LEMMA RecordRowShape ==
  ASSUME SpendShape, RecordRow
  PROVE  SpendShape' /\ SpendStep
<1>1. /\ asking.stage = "write" /\ bill' = bill /\ pulls' = pulls
      /\ asking \in PullRecord /\ asking.at \in asking.left /\ spent \in Seq(RowShape) /\ ~asking.ask.dry
      /\ Prefix(asking.events, bill) /\ Len(asking.events) = (asking.page - 1) * PageSize /\ asking.page \in 1..MaxPages
  BY DEF RecordRow, SpendShape
<1>2. CASE asking.todo = <<>>
  <2>1. asking' = NextProvider(asking) /\ spent' = spent
    BY <1>2 DEF RecordRow
  <2> QED
    BY <1>1, <1>2, <2>1, MovesShape
<1>3. CASE asking.todo # <<>>
  <2>1. asking' = [asking EXCEPT !.todo = Tail(@)] /\ spent' = Append(spent, Head(asking.todo))
    BY <1>3 DEF RecordRow
  <2>2. asking.todo \in Seq(RowShape)
    BY <1>1 DEF PullRecord
  <2>3. Head(asking.todo) \in RowShape /\ Tail(asking.todo) \in Seq(RowShape)
    BY <1>3, <2>2, HeadTailProperties
  <2>4. spent' \in Seq(RowShape)
    BY <1>1, <2>1, <2>3, AppendProperties
  <2>5. asking' \in PullRecord
    BY <1>1, <2>1, <2>3 DEF PullRecord
  <2>6. /\ asking'.stage = "write" /\ asking'.todo = Tail(asking.todo) /\ asking'.left = asking.left /\ asking'.at = asking.at
        /\ asking'.ask = asking.ask /\ asking'.page = asking.page /\ asking'.events = asking.events
        /\ asking'.failed = asking.failed
    BY <1>1, <2>1 DEF PullRecord
  <2>7. SpendShape'
    <3>1. /\ asking'.stage # "exit" /\ asking'.stage \notin {"ask", "exit"}
          /\ asking'.at \in asking'.left /\ asking'.left \subseteq asking.left
      BY <1>1, <2>6
    <3>2. /\ Prefix(asking'.events, bill) /\ Len(asking'.events) = (asking'.page - 1) * PageSize
          /\ asking'.page \in 1..MaxPages
      BY <1>1, <2>6
    <3> QED
      BY <1>1, <2>4, <2>5, <2>6, <3>1, <3>2, PullGoesOn
  <2>8. StepRecords
    BY <1>1, <1>3, <2>1, <2>6 DEF StepRecords, Kept
  <2> QED
    BY <1>1, <2>7, <2>8 DEF SpendStep
<1> QED
  BY <1>2, <1>3

LEMMA ProviderFailsShape ==
  ASSUME SpendShape, ProviderFails
  PROVE  SpendShape' /\ SpendStep
<1> DEFINE was == [asking EXCEPT !.todo = <<>>, !.failed = TRUE]
<1>1. asking.stage \in {"ask", "write"} /\ asking' = NextProvider(was) /\ bill' = bill /\ spent' = spent /\ pulls' = pulls
  BY DEF ProviderFails
<1>2. asking \in PullRecord
  BY <1>1 DEF SpendShape
<1>3. <<>> \in Seq(RowShape)
  BY EmptySeq
<1>4. /\ was \in PullRecord /\ was.at = asking.at /\ was.left = asking.left /\ was.ask = asking.ask /\ was.todo = <<>>
      /\ was.page = asking.page /\ was.events = asking.events /\ was.failed = TRUE
  BY <1>2, <1>3 DEF PullRecord
<1> HIDE DEF was
<1> QED
  BY <1>1, <1>4, MovesShape

\* The exit code of the last pull is noted.
LEMMA CodeSet ==
  ASSUME NEW ps \in Seq(Begun), ps # <<>>, NEW code \in {0, 2, 130}
  PROVE  LET qs == [ps EXCEPT ![Len(ps)].code = code]
         IN  /\ qs \in Seq(Begun) /\ Len(qs) = Len(ps) /\ Len(ps) \in Nat /\ Len(ps) # 0
             /\ \A i \in 1..Len(ps) : qs[i].ask = ps[i].ask /\ (i # Len(ps) => qs[i] = ps[i])
             /\ qs[Len(ps)].code = code
<1>1. PICK n \in Nat : n = Len(ps) /\ n # 0 /\ \A i \in 1..n : ps[i] \in Begun
  BY LenProperties, ElementOfSeq, EmptySeq
<1> DEFINE new == [ps[n] EXCEPT !.code = code]
           qs == [ps EXCEPT ![n] = new]
<1>2. n \in 1..n /\ ps[n] \in Begun
  BY <1>1
<1>3. new \in Begun /\ new.ask = ps[n].ask /\ new.code = code
  BY <1>2 DEF Begun
<1>4. [ps EXCEPT ![Len(ps)].code = code] = qs
  BY <1>1
<1> HIDE DEF new
<1>5. qs \in Seq(Begun) /\ Len(qs) = n /\ \A i \in 1..n : qs[i] = IF i = n THEN new ELSE ps[i]
  BY <1>1, <1>2, <1>3, ExceptSeq
<1> HIDE DEF qs
<1>6. qs[n].code = code /\ \A i \in 1..n : qs[i].ask = ps[i].ask /\ (i # n => qs[i] = ps[i])
  BY <1>2, <1>3, <1>5
<1> QED
  BY <1>1, <1>4, <1>5, <1>6

LEMMA EndsShape ==
  ASSUME SpendShape, NEW code \in {0, 2, 130}, Ends(code), Running, code = 0 => asking.stage = "exit" /\ ~asking.failed
  PROVE  SpendShape' /\ SpendStep
<1>1. /\ asking' = [asking EXCEPT !.stage = "ended"] /\ pulls' = [pulls EXCEPT ![Len(pulls)].code = code]
      /\ bill' = bill /\ spent' = spent
  BY DEF Ends
<1>2. /\ asking \in PullRecord /\ pulls \in Seq(Begun) /\ bill \in Bills /\ spent \in Seq(RowShape)
      /\ Prefix(asking.events, bill) /\ Len(asking.events) = (asking.page - 1) * PageSize /\ asking.page \in 1..MaxPages
  BY DEF SpendShape, Running
<1>3. /\ asking' \in PullRecord /\ asking'.stage = "ended" /\ asking'.events = asking.events /\ asking'.page = asking.page
  BY <1>1, <1>2 DEF PullRecord
<1>4. pulls' \in Seq(Begun)
  <2>1. pulls # <<>>
    BY DEF SpendShape
  <2> QED
    BY <1>1, <1>2, <2>1, CodeSet
<1>5. SpendShape'
  <2>1. (bill \in Bills /\ spent \in Seq(RowShape) /\ pulls \in Seq(Begun))'
    BY <1>1, <1>2, <1>4
  <2>2. /\ Prefix(asking'.events, bill') /\ Len(asking'.events) = (asking'.page - 1) * PageSize
        /\ asking'.page \in 1..MaxPages
    BY <1>1, <1>2, <1>3
  <2>3. /\ asking'.stage \notin {"ask", "write"} /\ asking'.stage \notin {"ask", "exit"} /\ asking'.stage # "exit"
        /\ asking'.stage # "write" /\ ~Running'
    BY <1>3 DEF Running
  <2> QED
    BY <1>3, <2>1, <2>2, <2>3 DEF SpendShape
<1>6. StepEnds
  BY <1>1, <1>3 DEF StepEnds
<1> QED
  BY <1>1, <1>5, <1>6 DEF SpendStep

\* Every step of a pull keeps it in shape and is one of these.
LEMMA SpendSteps ==
  ASSUME SpendShape, SpendNext
  PROVE  SpendShape' /\ SpendStep
<1>1. ASSUME NEW ask \in Asks, StartPull(ask) PROVE SpendShape' /\ SpendStep
  BY <1>1, StartPullShape
<1>2. ASSUME ExitPull PROVE SpendShape' /\ SpendStep
  <2> DEFINE code == IF asking.failed THEN 2 ELSE 0
  <2>1. asking.stage = "exit" /\ Ends(code)
    BY <1>2 DEF ExitPull
  <2>2. asking.failed \in BOOLEAN
    BY <2>1 DEF SpendShape, PullRecord
  <2>3. code \in {0, 2, 130} /\ (code = 0 => ~asking.failed) /\ Running
    BY <2>1, <2>2 DEF Running
  <2> HIDE DEF code
  <2> QED
    BY <2>1, <2>3, EndsShape
<1>3. ASSUME Interrupted PROVE SpendShape' /\ SpendStep
  <2>1. Running /\ Ends(130)
    BY <1>3 DEF Interrupted, Running
  <2> QED
    BY <2>1, EndsShape
<1> QED
  BY <1>1, <1>2, <1>3, CollectAnthropicShape, FetchPageShape, ReadCsvShape, RecordRowShape, ProviderFailsShape DEF SpendNext

LEMMA SpendStarts == SpendInit => SpendShape
<1> SUFFICES ASSUME SpendInit PROVE SpendShape
  OBVIOUS
<1>1. spent \in Seq(RowShape) /\ pulls \in Seq(Begun) /\ bill \in Bills /\ asking.stage = "none"
  BY EmptySeq DEF SpendInit, NoPull
<1> QED
  BY <1>1 DEF SpendShape, Running

----------------------------------------------------------------------------
\* Nothing that was asked for is missing

Covered(b, rows, ask, provider) == Billed(rows, ask.arm, SourceOf(ask, provider)) >= Dues(b, ask, provider)

SpendCovers ==
    /\ \A i \in 1..Len(pulls) :
          pulls[i].code = 0 /\ Aims(pulls[i].ask, pulls[i].ask.arm) =>
              \A provider \in pulls[i].ask.providers : Covered(bill, spent, pulls[i].ask, provider)
    /\ Running /\ ~asking.failed /\ Aims(asking.ask, asking.ask.arm) =>
          /\ \A provider \in asking.ask.providers \ asking.left : Covered(bill, spent, asking.ask, provider)
          /\ asking.stage = "write" =>
                Billed(spent, asking.ask.arm, SourceOf(asking.ask, asking.at))
                + Billed(asking.todo, asking.ask.arm, SourceOf(asking.ask, asking.at)) >= Dues(bill, asking.ask, asking.at)

\* A row that is recorded moves its cents from what is to do to the table.
LEMMA RecordedIs ==
  ASSUME SpendShape, StepRecords, NEW a, NEW s
  PROVE  /\ Billed(spent', a, s) + Billed(asking'.todo, a, s) = Billed(spent, a, s) + Billed(asking.todo, a, s)
         /\ Billed(spent', a, s) >= Billed(spent, a, s)
<1> DEFINE todo == asking.todo
           row == Head(todo)
           rest == Tail(todo)
<1>1. spent \in Seq(RowShape) /\ todo \in Seq(RowShape) /\ todo # <<>> /\ spent' = Append(spent, row) /\ asking'.todo = rest
  BY DEF SpendShape, StepRecords, PullRecord
<1> HIDE DEF todo
<1>2. row \in RowShape /\ rest \in Seq(RowShape) /\ Billed(todo, a, s) = Weight(row, a, s) + Billed(rest, a, s)
  BY <1>1, BilledHead
<1> HIDE DEF row, rest
<1>3. Billed(spent', a, s) = Billed(spent, a, s) + Weight(row, a, s)
  BY <1>1, <1>2, BilledMore
<1>4. Weight(row, a, s) \in Nat /\ Billed(spent, a, s) \in Nat /\ Billed(rest, a, s) \in Nat
  BY <1>1, <1>2, WeightIs, WeightsAre
<1> QED
  BY <1>1, <1>2, <1>3, <1>4 DEF todo

\* The table only grows.
LEMMA TableGrows ==
  ASSUME SpendShape, SpendStep, NEW a, NEW s
  PROVE  Billed(spent, a, s) \in Nat /\ Billed(spent', a, s) >= Billed(spent, a, s)
<1>1. Billed(spent, a, s) \in Nat
  BY WeightsAre DEF SpendShape
<1>2. StepRecords \/ spent' = spent
  BY DEF SpendStep, StepStarts, StepReads, StepMoves, StepCollects, StepEnds
<1> QED
  BY <1>1, <1>2, RecordedIs

LEMMA CoveredStays ==
  ASSUME SpendShape, SpendShape', SpendStep, NEW ask, NEW provider, Covered(bill, spent, ask, provider)
  PROVE  Covered(bill', spent', ask, provider)
<1> DEFINE a == ask.arm
           s == SourceOf(ask, provider)
<1>1. Billed(spent, a, s) \in Nat /\ Billed(spent', a, s) >= Billed(spent, a, s)
  BY TableGrows
<1>2. bill' = bill /\ Dues(bill, ask, provider) \in Nat
  BY DuesAre DEF SpendStep, SpendShape
<1>3. Billed(spent', a, s) \in Nat
  BY WeightsAre DEF SpendShape
<1> QED
  BY <1>1, <1>2, <1>3 DEF Covered

\* Pulls that ended.
LEMMA EndedCovered ==
  ASSUME SpendShape, SpendShape', SpendStep, SpendCovers, NEW i \in 1..Len(pulls'), pulls'[i].code = 0,
         Aims(pulls'[i].ask, pulls'[i].ask.arm), NEW provider \in pulls'[i].ask.providers
  PROVE  Covered(bill', spent', pulls'[i].ask, provider)
<1>1. PICK n \in Nat : n = Len(pulls) /\ pulls \in Seq(Begun)
  BY LenProperties DEF SpendShape
<1>2. ASSUME i \in 1..n, pulls'[i] = pulls[i] PROVE Covered(bill', spent', pulls'[i].ask, provider)
  <2>1. Covered(bill, spent, pulls[i].ask, provider)
    BY <1>1, <1>2 DEF SpendCovers
  <2> QED
    BY <1>2, <2>1, CoveredStays
<1>3. CASE StepStarts
  <2>1. PICK ask \in Asks : pulls' = Append(pulls, [ask |-> ask, code |-> None])
    BY <1>3 DEF StepStarts
  <2> DEFINE begun == [ask |-> ask, code |-> None]
  <2>2. begun \in Begun /\ begun.code # 0
    BY SpendAssumption DEF Begun
  <2>3. pulls' = Append(pulls, begun)
    BY <2>1
  <2> HIDE DEF begun
  <2>4. Len(pulls') = n + 1 /\ pulls'[n + 1] = begun /\ \A k \in 1..n : pulls'[k] = pulls[k]
    BY <1>1, <2>2, <2>3, AppendProperties
  <2>5. i # n + 1
    BY <2>2, <2>4
  <2>6. i \in 1..n /\ pulls'[i] = pulls[i]
    BY <2>4, <2>5
  <2> QED
    BY <1>2, <2>6
<1>4. CASE StepEnds
  <2>1. PICK code \in {0, 2, 130} : /\ Running /\ pulls' = [pulls EXCEPT ![Len(pulls)].code = code]
                                    /\ code = 0 => asking.stage = "exit" /\ ~asking.failed
    BY <1>4 DEF StepEnds
  <2>2. pulls # <<>> /\ pulls[Len(pulls)].ask = asking.ask
    BY <2>1 DEF SpendShape
  <2>3. Len(pulls') = n /\ (\A k \in 1..n : pulls'[k].ask = pulls[k].ask /\ (k # n => pulls'[k] = pulls[k])) /\ pulls'[n].code = code
    <3> DEFINE noted == [pulls EXCEPT ![Len(pulls)].code = code]
    <3>1. /\ Len(noted) = Len(pulls) /\ noted[Len(pulls)].code = code
          /\ \A k \in 1..Len(pulls) : noted[k].ask = pulls[k].ask /\ (k # Len(pulls) => noted[k] = pulls[k])
      BY <1>1, <2>2, CodeSet
    <3>2. pulls' = noted
      BY <2>1
    <3> HIDE DEF noted
    <3> QED
      BY <1>1, <3>1, <3>2
  <2>4. i \in 1..n
    BY <2>3
  <2>5. CASE i = n
    <3>1. code = 0 /\ pulls'[i].ask = asking.ask
      BY <1>1, <2>2, <2>3, <2>4, <2>5
    <3>2. asking.stage = "exit" /\ ~asking.failed /\ asking.left = {}
      BY <2>1, <3>1 DEF SpendShape
    <3>3. provider \in asking.ask.providers \ asking.left /\ Aims(asking.ask, asking.ask.arm)
      BY <3>1, <3>2
    <3>4. Covered(bill, spent, asking.ask, provider)
      BY <2>1, <3>2, <3>3 DEF SpendCovers
    <3> QED
      BY <3>1, <3>4, CoveredStays
  <2>6. CASE i # n
    BY <1>2, <2>3, <2>4, <2>6
  <2> QED
    BY <2>5, <2>6
<1>5. CASE pulls' = pulls
  BY <1>1, <1>2, <1>5
<1> QED
  BY <1>3, <1>4, <1>5 DEF SpendStep, StepReads, StepMoves, StepCollects, StepRecords, Kept

\* The pull under way.
LEMMA UnderwayCovered ==
  ASSUME SpendShape, SpendShape', SpendStep, SpendCovers, Running', ~asking'.failed, Aims(asking'.ask, asking'.ask.arm)
  PROVE  /\ \A provider \in asking'.ask.providers \ asking'.left : Covered(bill', spent', asking'.ask, provider)
         /\ asking'.stage = "write" =>
               Billed(spent', asking'.ask.arm, SourceOf(asking'.ask, asking'.at))
               + Billed(asking'.todo, asking'.ask.arm, SourceOf(asking'.ask, asking'.at)) >= Dues(bill', asking'.ask, asking'.at)
<1> DEFINE Goal == /\ \A provider \in asking'.ask.providers \ asking'.left : Covered(bill', spent', asking'.ask, provider)
                   /\ asking'.stage = "write" =>
                         Billed(spent', asking'.ask.arm, SourceOf(asking'.ask, asking'.at))
                         + Billed(asking'.todo, asking'.ask.arm, SourceOf(asking'.ask, asking'.at)) >= Dues(bill', asking'.ask, asking'.at)
           a == asking.ask.arm
           s == SourceOf(asking.ask, asking.at)
<1>1. bill' = bill /\ spent \in Seq(RowShape)
  BY DEF SpendStep, SpendShape
<1>2. Billed(spent, a, s) \in Nat
  BY <1>1, WeightsAre
\* As long as it goes on with the same ask, what was covered stays so.
<1>3. ASSUME Running, asking'.ask = asking.ask, asking'.left = asking.left, asking'.failed = asking.failed
      PROVE  \A provider \in asking'.ask.providers \ asking'.left : Covered(bill', spent', asking'.ask, provider)
  <2> SUFFICES ASSUME NEW provider \in asking'.ask.providers \ asking'.left PROVE Covered(bill', spent', asking'.ask, provider)
    OBVIOUS
  <2>1. Covered(bill, spent, asking.ask, provider)
    BY <1>3 DEF SpendCovers
  <2> QED
    BY <1>3, <2>1, CoveredStays
<1>4. CASE StepStarts
  <2>1. asking'.left = asking'.ask.providers /\ asking'.stage # "write"
    BY <1>4 DEF StepStarts
  <2> QED
    BY <2>1
<1>5. CASE StepReads
  <2>1. Running /\ asking'.ask = asking.ask /\ asking'.left = asking.left /\ asking'.failed = asking.failed /\ asking'.stage # "write"
    BY <1>5 DEF StepReads, Kept, Running
  <2> QED
    BY <1>3, <2>1
<1>6. CASE StepMoves
  <2>1. /\ Running /\ asking'.ask = asking.ask /\ asking'.left = asking.left \ {asking.at} /\ asking'.stage # "write"
        /\ asking'.failed = asking.failed /\ asking.stage = "write" /\ asking.todo = <<>> /\ spent' = spent
    BY <1>6 DEF StepMoves, Kept, Running, Aims
  <2>2. Covered(bill, spent, asking.ask, asking.at)
    <3>1. Billed(spent, a, s) + Billed(asking.todo, a, s) >= Dues(bill, asking.ask, asking.at)
      BY <2>1 DEF SpendCovers
    <3>2. Billed(asking.todo, a, s) = 0
      BY <2>1, EmptyRows
    <3> HIDE DEF a, s
    <3>3. Billed(spent, a, s) >= Dues(bill, asking.ask, asking.at)
      BY <1>2, <3>1, <3>2
    <3> QED
      BY <3>3 DEF Covered, a, s
  <2> SUFFICES ASSUME NEW provider \in asking'.ask.providers \ asking'.left PROVE Covered(bill', spent', asking'.ask, provider)
    BY <2>1
  <2>3. Covered(bill, spent, asking.ask, provider)
    <3>1. CASE provider = asking.at
      BY <2>2, <3>1
    <3>2. CASE provider # asking.at
      <4>1. provider \in asking.ask.providers \ asking.left
        BY <2>1, <3>2
      <4> QED
        BY <2>1, <4>1 DEF SpendCovers
    <3> QED
      BY <3>1, <3>2
  <2> QED
    BY <2>1, <2>3, CoveredStays
<1>7. CASE StepCollects
  <2>1. /\ Running /\ asking'.ask = asking.ask /\ asking'.left = asking.left /\ asking'.failed = asking.failed
        /\ asking'.at = asking.at /\ spent' = spent /\ RowsFit(asking'.todo, bill, asking.ask, asking.at)
    BY <1>7 DEF StepCollects, Kept, Running
  <2>2. Billed(asking'.todo, a, s) >= Dues(bill, asking.ask, asking.at)
    BY <2>1 DEF RowsFit, Aims
  <2>3. Billed(asking'.todo, a, s) \in Nat /\ Dues(bill, asking.ask, asking.at) \in Nat
    <3>1. asking'.todo \in Seq(RowShape) /\ bill \in Bills
      BY <2>1 DEF RowsFit, SpendShape
    <3> QED
      BY <3>1, DuesAre, WeightsAre
  <2>4. Billed(spent, a, s) + Billed(asking'.todo, a, s) >= Dues(bill, asking.ask, asking.at)
    <3> HIDE DEF a, s
    <3> QED
      BY <1>2, <2>2, <2>3
  <2> QED
    BY <1>1, <1>3, <2>1, <2>4
<1>8. CASE StepRecords
  <2>1. /\ Running /\ asking'.ask = asking.ask /\ asking'.left = asking.left /\ asking'.failed = asking.failed
        /\ asking'.at = asking.at /\ asking.stage = "write"
    BY <1>8 DEF StepRecords, Kept, Running
  <2>2. Billed(spent, a, s) + Billed(asking.todo, a, s) >= Dues(bill, asking.ask, asking.at)
    BY <2>1 DEF SpendCovers
  <2>3. Billed(spent', a, s) + Billed(asking'.todo, a, s) = Billed(spent, a, s) + Billed(asking.todo, a, s)
    BY <1>8, RecordedIs
  <2>4. Billed(spent', a, s) + Billed(asking'.todo, a, s) >= Dues(bill, asking.ask, asking.at)
    BY <2>2, <2>3
  <2> QED
    BY <1>1, <1>3, <2>1, <2>4
<1>9. CASE StepEnds
  BY <1>9 DEF StepEnds, Running
<1> QED
  BY <1>4, <1>5, <1>6, <1>7, <1>8, <1>9 DEF SpendStep

LEMMA CoversKeeps ==
  ASSUME SpendShape, SpendShape', SpendStep, SpendCovers
  PROVE  SpendCovers'
<1>1. \A i \in 1..Len(pulls') :
          pulls'[i].code = 0 /\ Aims(pulls'[i].ask, pulls'[i].ask.arm) =>
              \A provider \in pulls'[i].ask.providers : Covered(bill', spent', pulls'[i].ask, provider)
  BY EndedCovered
<1> QED
  BY <1>1, UnderwayCovered DEF SpendCovers

----------------------------------------------------------------------------
\* Nothing is there that was not asked for

AskedFor(ps, a, s) == {i \in 1..Len(ps) : Aims(ps[i].ask, a) /\ Fits(ps[i].ask, s)}

\* What the pull under way may still add to a source, of the provider it is at and of
\* those that are to come.
ToWrite(a, s) == IF asking.stage = "write" THEN Billed(asking.todo, a, s) ELSE 0
IsDue(a, s) ==
    /\ asking.stage \in {"ask", "write"} /\ ProviderOf(s) \in asking.left
    /\ asking.stage = "write" => asking.at # ProviderOf(s)
    /\ Aims(asking.ask, a) /\ Fits(asking.ask, s)
Due(a, s) == IF IsDue(a, s) THEN Amount(bill, s) ELSE 0

SpendWithin ==
    \A a \in Arms, s \in Kinds :
        Billed(spent, a, s) + ToWrite(a, s) + Due(a, s) <= Cardinality(AskedFor(pulls, a, s)) * Amount(bill, s)

LEMMA AskedForIs ==
  ASSUME NEW ps, Len(ps) \in Nat, NEW a, NEW s
  PROVE  IsFiniteSet(AskedFor(ps, a, s)) /\ Cardinality(AskedFor(ps, a, s)) \in Nat /\ AskedFor(ps, a, s) \subseteq 1..Len(ps)
<1>1. AskedFor(ps, a, s) \subseteq 1..Len(ps)
  BY DEF AskedFor
<1>2. IsFiniteSet(1..Len(ps))
  BY FS_Interval
<1>3. IsFiniteSet(AskedFor(ps, a, s))
  BY <1>1, <1>2, FS_Subset
<1> QED
  BY <1>1, <1>3, FS_CardinalityType

LEMMA AmountIs == \A b \in Bills : \A s : Amount(b, s) \in Nat
  BY BillIs, LearnedIs DEF Amount

LEMMA OneMore ==
  ASSUME NEW c \in Nat, NEW m \in Nat
  PROVE  (c + 1) * m = c * m + m /\ c * m \in Nat
  OBVIOUS

\* A pull more, and what it may add.
LEMMA AskedMore ==
  ASSUME NEW ps \in Seq(Begun), NEW ask \in Asks, NEW a, NEW s
  PROVE  LET more == AskedFor(Append(ps, [ask |-> ask, code |-> None]), a, s)
         IN  Cardinality(more) = Cardinality(AskedFor(ps, a, s)) + IF Aims(ask, a) /\ Fits(ask, s) THEN 1 ELSE 0
<1> DEFINE begun == [ask |-> ask, code |-> None]
           qs == Append(ps, begun)
           was == AskedFor(ps, a, s)
<1>1. PICK n \in Nat : n = Len(ps)
  BY LenProperties
<1>2. begun \in Begun /\ begun.ask = ask
  BY DEF Begun
<1> HIDE DEF begun
<1>3. Len(qs) = n + 1 /\ qs[n + 1] = begun /\ \A k \in 1..n : qs[k] = ps[k]
  BY <1>1, <1>2, AppendProperties
<1> HIDE DEF qs
<1>4. IsFiniteSet(was) /\ Cardinality(was) \in Nat /\ n + 1 \notin was
  BY <1>1, AskedForIs
<1>5. was = {i \in 1..n : Aims(qs[i].ask, a) /\ Fits(qs[i].ask, s)}
  BY <1>1, <1>3 DEF AskedFor
<1>6. CASE Aims(ask, a) /\ Fits(ask, s)
  <2>1. AskedFor(qs, a, s) = was \cup {n + 1}
    BY <1>2, <1>3, <1>5, <1>6 DEF AskedFor
  <2> HIDE DEF was
  <2>2. Cardinality(was \cup {n + 1}) = Cardinality(was) + 1
    BY <1>4, FS_AddElement
  <2> QED
    BY <1>6, <2>1, <2>2 DEF qs, begun, was
<1>7. CASE ~(Aims(ask, a) /\ Fits(ask, s))
  <2>1. AskedFor(qs, a, s) = was
    BY <1>2, <1>3, <1>5, <1>7 DEF AskedFor
  <2> HIDE DEF was
  <2> QED
    BY <1>4, <1>7, <2>1 DEF qs, begun, was
<1> QED
  BY <1>6, <1>7

LEMMA WithinKeeps ==
  ASSUME SpendShape, SpendShape', SpendStep, SpendWithin
  PROVE  SpendWithin'
<1> SUFFICES ASSUME NEW a \in Arms, NEW s \in Kinds
             PROVE  Billed(spent', a, s) + ToWrite(a, s)' + Due(a, s)' <= Cardinality(AskedFor(pulls', a, s)) * Amount(bill', s)
  BY DEF SpendWithin
<1> DEFINE askers == AskedFor(pulls, a, s)
           askers2 == AskedFor(pulls', a, s)
<1>1. /\ bill' = bill /\ bill \in Bills /\ spent \in Seq(RowShape) /\ pulls \in Seq(Begun)
      /\ spent' \in Seq(RowShape) /\ Len(pulls) \in Nat
  BY LenProperties DEF SpendStep, SpendShape
<1>2. PICK m \in Nat : m = Amount(bill, s)
  BY <1>1, AmountIs
<1>3. PICK x \in Nat : x = Billed(spent, a, s)
  BY <1>1, WeightsAre
<1>4. PICK y \in Nat : y = ToWrite(a, s)
  <2>1. CASE asking.stage = "write"
    <3>1. asking.todo \in Seq(RowShape)
      BY <2>1 DEF SpendShape, PullRecord
    <3>2. Billed(asking.todo, a, s) \in Nat
      BY <3>1, WeightsAre
    <3> QED
      BY <2>1, <3>2 DEF ToWrite
  <2>2. CASE asking.stage # "write"
    BY <2>2 DEF ToWrite
  <2> QED
    BY <2>1, <2>2
<1>5. PICK z \in Nat : z = Due(a, s) /\ z <= m /\ z = (IF IsDue(a, s) THEN m ELSE 0)
  BY <1>2 DEF Due
<1>6. PICK c \in Nat : c = Cardinality(askers)
  BY <1>1, AskedForIs
<1>7. x + y + z <= c * m
  BY <1>2, <1>3, <1>4, <1>5, <1>6 DEF SpendWithin
<1> HIDE DEF askers, askers2
<1>8. Due(a, s)' = IF IsDue(a, s)' THEN m ELSE 0
  BY <1>1, <1>2 DEF Due
\* It is enough that no more is to be added than was.
<1>9. ASSUME spent' = spent, ToWrite(a, s)' \in Nat, Due(a, s)' \in Nat, ToWrite(a, s)' + Due(a, s)' <= y + z,
             Cardinality(askers2) = c
      PROVE  Billed(spent', a, s) + ToWrite(a, s)' + Due(a, s)' <= Cardinality(askers2) * Amount(bill', s)
  <2> DEFINE p == c * m
  <2>1. p \in Nat /\ x + y + z <= p
    BY <1>7, OneMore
  <2>2. Cardinality(askers2) * Amount(bill', s) = p
    BY <1>1, <1>2, <1>9
  <2> HIDE DEF p
  <2>3. PICK v \in Nat, w \in Nat : v = ToWrite(a, s)' /\ w = Due(a, s)' /\ v + w <= y + z
    BY <1>9
  <2>4. x + v + w <= p
    BY <2>1, <2>3
  <2> QED
    BY <1>3, <1>9, <2>2, <2>3, <2>4
<1>10. ASSUME pulls' = pulls PROVE Cardinality(askers2) = c
  BY <1>6, <1>10 DEF askers, askers2
<1>11. CASE StepStarts
  <2>1. PICK ask \in Asks :
          /\ ~Running /\ pulls' = Append(pulls, [ask |-> ask, code |-> None]) /\ spent' = spent
          /\ asking'.ask = ask /\ asking'.left = ask.providers /\ asking'.stage \in {"exit", "ask"}
    BY <1>11 DEF StepStarts
  <2>2. y = 0 /\ z = 0 /\ ToWrite(a, s)' = 0
    <3>1. asking.stage # "write" /\ asking.stage # "ask" /\ asking'.stage # "write"
      BY <2>1 DEF Running
    <3>2. ~IsDue(a, s)
      BY <3>1 DEF IsDue
    <3> QED
      BY <1>4, <1>5, <3>1, <3>2 DEF ToWrite
  <2>3. IsDue(a, s)' => Aims(ask, a) /\ Fits(ask, s)
    BY <2>1 DEF IsDue
  <2>4. Cardinality(askers2) = c + IF Aims(ask, a) /\ Fits(ask, s) THEN 1 ELSE 0
    BY <1>1, <1>6, <2>1, AskedMore DEF askers, askers2
  <2> DEFINE p == c * m
  <2>5. p \in Nat /\ (c + 1) * m = p + m /\ x <= p
    <3>1. p \in Nat /\ (c + 1) * m = p + m
      BY OneMore
    <3>2. x + y + z <= p
      BY <1>7
    <3> HIDE DEF p
    <3> QED
      BY <2>2, <3>1, <3>2
  <2>6. CASE Aims(ask, a) /\ Fits(ask, s)
    <3>1. Cardinality(askers2) * Amount(bill', s) = p + m
      BY <1>1, <1>2, <2>4, <2>5, <2>6
    <3> HIDE DEF p
    <3>2. PICK w \in Nat : w = Due(a, s)' /\ w <= m
      BY <1>8
    <3>3. x + 0 + w <= p + m
      BY <2>5, <3>2
    <3> QED
      BY <1>3, <2>1, <2>2, <3>1, <3>2, <3>3 DEF askers2
  <2>7. CASE ~(Aims(ask, a) /\ Fits(ask, s))
    <3>1. Cardinality(askers2) = c /\ Due(a, s)' = 0
      BY <1>8, <2>3, <2>4, <2>7
    <3> QED
      BY <1>9, <2>1, <2>2, <3>1 DEF askers2
  <2> QED
    BY <2>6, <2>7
<1>12. CASE StepReads
  <2>1. /\ pulls' = pulls /\ asking'.ask = asking.ask /\ spent' = spent /\ asking.stage = "ask" /\ asking'.stage = "ask"
        /\ asking'.left = asking.left
    BY <1>12 DEF StepReads, Kept
  <2>2. ToWrite(a, s)' = 0 /\ (IsDue(a, s)' => IsDue(a, s))
    BY <2>1 DEF ToWrite, IsDue
  <2>3. Due(a, s)' <= z /\ Due(a, s)' \in Nat
    BY <1>5, <1>8, <2>2
  <2> QED
    BY <1>9, <1>10, <2>1, <2>2, <2>3 DEF askers2
<1>13. CASE StepMoves
  <2>1. /\ pulls' = pulls /\ asking'.ask = asking.ask /\ spent' = spent /\ asking.stage \in {"ask", "write"}
        /\ asking'.left = asking.left \ {asking.at} /\ asking'.stage # "write"
    BY <1>13 DEF StepMoves, Kept
  <2>2. ToWrite(a, s)' = 0 /\ (IsDue(a, s)' => IsDue(a, s))
    BY <2>1 DEF ToWrite, IsDue
  <2>3. Due(a, s)' <= z /\ Due(a, s)' \in Nat
    BY <1>5, <1>8, <2>2
  <2> QED
    BY <1>9, <1>10, <2>1, <2>2, <2>3 DEF askers2
<1>14. CASE StepCollects
  <2>1. /\ pulls' = pulls /\ asking'.ask = asking.ask /\ spent' = spent /\ asking.stage = "ask" /\ asking'.stage = "write"
        /\ asking'.left = asking.left /\ asking'.at = asking.at /\ RowsFit(asking'.todo, bill, asking.ask, asking.at)
    BY <1>14 DEF StepCollects, Kept
  <2>2. ~asking.ask.dry /\ asking.at \in asking.left
    BY <2>1 DEF SpendShape
  <2>3. ToWrite(a, s)' = Billed(asking'.todo, a, s)
    BY <2>1 DEF ToWrite
  <2>4. PICK v \in Nat : v = Billed(asking'.todo, a, s)
    <3>1. asking'.todo \in Seq(RowShape)
      BY <2>1 DEF RowsFit
    <3> QED
      BY <3>1, WeightsAre
  <2>5. v <= IF asking.ask.arm = a /\ Overlaps(asking.ask.span) /\ Fits(asking.ask, s) /\ ProviderOf(s) = asking.at
             THEN m ELSE 0
    BY <1>2, <2>1, <2>4 DEF RowsFit
  <2>6. CASE IsDue(a, s)'
    <3>1. IsDue(a, s) /\ ProviderOf(s) # asking.at
      BY <2>1, <2>6 DEF IsDue
    <3>2. v = 0 /\ z = m /\ Due(a, s)' = m
      BY <1>5, <1>8, <2>5, <2>6, <3>1
    <3> QED
      BY <1>9, <1>10, <2>1, <2>3, <2>4, <3>2 DEF askers2
  <2>7. CASE ~IsDue(a, s)'
    <3>1. Due(a, s)' = 0
      BY <1>8, <2>7
    <3>2. v <= z
      <4>1. CASE asking.ask.arm = a /\ Overlaps(asking.ask.span) /\ Fits(asking.ask, s) /\ ProviderOf(s) = asking.at
        <5>1. IsDue(a, s)
          BY <2>1, <2>2, <4>1 DEF IsDue, Aims
        <5> QED
          BY <1>5, <2>5, <4>1, <5>1
      <4>2. CASE ~(asking.ask.arm = a /\ Overlaps(asking.ask.span) /\ Fits(asking.ask, s) /\ ProviderOf(s) = asking.at)
        BY <2>5, <4>2
      <4> QED
        BY <4>1, <4>2
    <3> QED
      BY <1>9, <1>10, <2>1, <2>3, <2>4, <3>1, <3>2 DEF askers2
  <2> QED
    BY <2>6, <2>7
<1>15. CASE StepRecords
  <2>1. /\ pulls' = pulls /\ asking'.ask = asking.ask /\ asking.stage = "write" /\ asking'.stage = "write"
        /\ asking'.left = asking.left /\ asking'.at = asking.at
    BY <1>15 DEF StepRecords, Kept
  <2>2. ToWrite(a, s)' = Billed(asking'.todo, a, s) /\ ToWrite(a, s) = Billed(asking.todo, a, s)
    BY <2>1 DEF ToWrite
  <2>3. Billed(spent', a, s) + ToWrite(a, s)' = x + y
    BY <1>3, <1>4, <1>15, <2>2, RecordedIs
  <2>4. Due(a, s)' = z
    <3>1. IsDue(a, s)' <=> IsDue(a, s)
      BY <2>1 DEF IsDue
    <3> QED
      BY <1>5, <1>8, <3>1
  <2>5. Cardinality(askers2) * Amount(bill', s) = c * m
    BY <1>1, <1>2, <1>10, <2>1
  <2>6. x + y + z <= Cardinality(askers2) * Amount(bill', s)
    BY <1>7, <2>5
  <2> QED
    BY <2>3, <2>4, <2>6 DEF askers2
<1>16. CASE StepEnds
  <2>1. PICK code \in {0, 2, 130} : /\ Running /\ asking'.stage = "ended" /\ spent' = spent
                                    /\ pulls' = [pulls EXCEPT ![Len(pulls)].code = code]
    BY <1>16 DEF StepEnds
  <2>2. ToWrite(a, s)' = 0 /\ ~IsDue(a, s)'
    BY <2>1 DEF ToWrite, IsDue
  <2>3. Cardinality(askers2) = c
    <3> DEFINE noted == [pulls EXCEPT ![Len(pulls)].code = code]
    <3>1. pulls # <<>>
      BY <2>1 DEF SpendShape
    <3>2. Len(noted) = Len(pulls) /\ \A k \in 1..Len(pulls) : noted[k].ask = pulls[k].ask
      BY <1>1, <3>1, CodeSet
    <3>3. pulls' = noted
      BY <2>1
    <3> HIDE DEF noted
    <3>4. askers2 = askers
      BY <3>2, <3>3 DEF askers, askers2, AskedFor
    <3> QED
      BY <1>6, <3>4
  <2>4. Due(a, s)' = 0
    BY <1>8, <2>2
  <2> QED
    BY <1>9, <2>1, <2>2, <2>3, <2>4 DEF askers2
<1> QED
  BY <1>11, <1>12, <1>13, <1>14, <1>15, <1>16 DEF SpendStep

----------------------------------------------------------------------------
\* The report's amount

SpendIInv == SpendShape /\ SpendCovers /\ SpendWithin

\* The most of three numbers.
LEMMA MostOfThree ==
  ASSUME NEW x \in Nat, NEW y \in Nat, NEW z \in Nat
  PROVE  \E m \in {x, y, z} : Max({x, y, z}) = m /\ x <= m /\ y <= m /\ z <= m
<1>1. PICK m \in {x, y, z} : x <= m /\ y <= m /\ z <= m
  <2>1. CASE y <= x /\ z <= x
    BY <2>1
  <2>2. CASE x <= y /\ z <= y
    BY <2>2
  <2>3. CASE x <= z /\ y <= z
    BY <2>3
  <2> QED
    BY <2>1, <2>2, <2>3
<1> DEFINE S == {x, y, z}
<1>2. S \subseteq Nat /\ m \in S /\ \A w \in S : w <= m
  BY <1>1
<1> HIDE DEF S
<1>3. Max(S) = m
  BY <1>2, MaxIs
<1> QED
  BY <1>1, <1>3 DEF S

\* The amount is one of the three sources and no less than any, or it is the roll-up.
LEMMA HeadlineIs ==
  ASSUME SpendShape, NEW a
  PROVE  /\ \A s \in AllSources : Billed(spent, a, s) \in Nat
         /\ \A s \in Specific : Headline(a) >= Billed(spent, a, s)
         /\ \E s \in Kinds : Headline(a) = Billed(spent, a, s)
<1>1. spent \in Seq(RowShape)
  BY DEF SpendShape
<1>2. PICK x \in Nat, y \in Nat, z \in Nat, r \in Nat :
        /\ x = Billed(spent, a, "usage-events") /\ y = Billed(spent, a, "manual-csv")
        /\ z = Billed(spent, a, "admin-api-cost") /\ r = Billed(spent, a, "usage-events-rollup")
  BY <1>1, WeightsAre
<1>3. Billed(spent, a, "admin-api") = 0
  <2>1. \A i \in 1..Len(spent) : Weight(spent[i], a, "admin-api") = 0
    <3> SUFFICES ASSUME NEW i \in 1..Len(spent) PROVE Weight(spent[i], a, "admin-api") = 0
      OBVIOUS
    <3>1. spent[i] \in RowShape
      BY <1>1, ElementOfSeq
    <3> QED
      BY <3>1 DEF RowShape, Weight, Counted
  <2> QED
    BY <1>1, <2>1, BilledNone
<1>4. {BySource(a, s) : s \in Specific} = {x, y, z}
  BY <1>2 DEF BySource, Specific
<1>5. PICK m \in {x, y, z} : Max({x, y, z}) = m /\ x <= m /\ y <= m /\ z <= m
  BY MostOfThree
<1>6. Everything(a) = x + y + z + 0 + r
  BY <1>2, <1>3 DEF Everything, BySource
<1>7. Headline(a) = IF m > 0 THEN m ELSE x + y + z + 0 + r
  BY <1>4, <1>5, <1>6 DEF Headline
<1>8. PICK h \in Nat : h = Headline(a) /\ h >= x /\ h >= y /\ h >= z /\ (h = x \/ h = y \/ h = z \/ h = r)
  <2>1. CASE m > 0
    BY <1>5, <1>7, <2>1
  <2>2. CASE ~(m > 0)
    <3>1. x = 0 /\ y = 0 /\ z = 0
      BY <1>5, <2>2
    <3>2. Headline(a) = r
      BY <1>7, <2>2, <3>1
    <3> QED
      BY <3>1, <3>2
  <2> QED
    BY <2>1, <2>2
<1>9. \A s \in Specific : Headline(a) >= Billed(spent, a, s)
  BY <1>2, <1>8 DEF Specific
<1>10. \E s \in Kinds : Headline(a) = Billed(spent, a, s)
  BY <1>2, <1>8 DEF Kinds
<1>11. \A s \in AllSources : Billed(spent, a, s) \in Nat
  BY <1>1, WeightsAre
<1> QED
  BY <1>9, <1>10, <1>11

LEMMA CoversHold == SpendIInv => HeadlineCovers
<1> SUFFICES ASSUME SpendIInv, NEW i \in DOMAIN pulls, pulls[i].code = 0, Writes(pulls[i], pulls[i].ask.arm),
                    NEW provider \in pulls[i].ask.providers
             PROVE  Headline(pulls[i].ask.arm) >= Charged(pulls[i].ask, provider)
  BY DEF HeadlineCovers
<1> DEFINE ask == pulls[i].ask
           s == SourceOf(ask, provider)
<1>1. SpendShape /\ SpendCovers /\ pulls \in Seq(Begun) /\ bill \in Bills
  BY DEF SpendIInv, SpendShape
<1>2. i \in 1..Len(pulls) /\ pulls[i] \in Begun
  BY <1>1, LenProperties, ElementOfSeq
<1>3. ask \in Asks
  BY <1>2 DEF Begun
<1>4. Aims(ask, ask.arm)
  BY <1>3, WritesAims
<1>5. Covered(bill, spent, ask, provider)
  BY <1>1, <1>2, <1>4 DEF SpendCovers
<1>6. s \in Specific /\ s \in AllSources
  BY DEF SourceOf, Specific, AllSources
<1>7. Charged(ask, provider) = Dues(bill, ask, provider) /\ Dues(bill, ask, provider) \in Nat
  BY <1>1, DuesAre DEF Charged, Dues
<1>8. Billed(spent, ask.arm, s) \in Nat /\ Headline(ask.arm) >= Billed(spent, ask.arm, s) /\ Headline(ask.arm) \in Nat
  <2>1. Kinds \subseteq AllSources
    BY DEF Kinds, AllSources
  <2> QED
    BY <1>1, <1>6, <2>1, HeadlineIs
<1>9. Billed(spent, ask.arm, s) >= Dues(bill, ask, provider)
  BY <1>5 DEF Covered
<1> HIDE DEF ask, s
<1>10. Headline(ask.arm) >= Charged(ask, provider)
  BY <1>7, <1>8, <1>9
<1> QED
  BY <1>10 DEF ask

LEMMA WithinHolds == SpendIInv => HeadlineWithinPulls
<1> SUFFICES ASSUME SpendIInv, NEW a \in Arms
             PROVE  LET times(provider, csv) ==
                          Cardinality({i \in DOMAIN pulls : /\ Writes(pulls[i], a) /\ provider \in pulls[i].ask.providers
                                                            /\ (provider = "cursor" => pulls[i].ask.csv = csv)})
                    IN  Headline(a) <= Max({times("anthropic", FALSE) * bill.anthropic}
                                           \cup {times("cursor", c) * Summed(Learned(bill.cursor, c)) : c \in BOOLEAN})
  BY DEF HeadlineWithinPulls
<1> DEFINE set(provider, csv) == {i \in DOMAIN pulls : /\ Writes(pulls[i], a) /\ provider \in pulls[i].ask.providers
                                                       /\ (provider = "cursor" => pulls[i].ask.csv = csv)}
           x == Cardinality(set("anthropic", FALSE)) * bill.anthropic
           y == Cardinality(set("cursor", FALSE)) * Summed(Learned(bill.cursor, FALSE))
           z == Cardinality(set("cursor", TRUE)) * Summed(Learned(bill.cursor, TRUE))
<1>1. SpendShape /\ SpendWithin /\ pulls \in Seq(Begun) /\ bill \in Bills /\ Len(pulls) \in Nat /\ DOMAIN pulls = 1..Len(pulls)
      /\ spent \in Seq(RowShape)
  BY LenProperties DEF SpendIInv, SpendShape
<1>2. \A i \in 1..Len(pulls) : pulls[i].ask \in Asks /\ pulls[i].ask.csv \in BOOLEAN /\ (Writes(pulls[i], a) <=> Aims(pulls[i].ask, a))
  <2> SUFFICES ASSUME NEW i \in 1..Len(pulls)
               PROVE  pulls[i].ask \in Asks /\ pulls[i].ask.csv \in BOOLEAN /\ (Writes(pulls[i], a) <=> Aims(pulls[i].ask, a))
    OBVIOUS
  <2>1. pulls[i] \in Begun
    BY <1>1, ElementOfSeq
  <2>2. pulls[i].ask \in Asks
    BY <2>1 DEF Begun
  <2>3. pulls[i].ask.csv \in BOOLEAN
    BY <2>2, AskIs
  <2>4. Writes(pulls[i], a) <=> Aims(pulls[i].ask, a)
    BY <2>2, WritesAims
  <2> QED
    BY <2>2, <2>3, <2>4
<1>3. AskedFor(pulls, a, "admin-api-cost") = set("anthropic", FALSE)
  BY <1>1, <1>2 DEF AskedFor, Fits, ProviderOf
<1>4. AskedFor(pulls, a, "usage-events") = set("cursor", FALSE) /\ AskedFor(pulls, a, "usage-events-rollup") = set("cursor", FALSE)
  BY <1>1, <1>2 DEF AskedFor, Fits, ProviderOf
<1>5. AskedFor(pulls, a, "manual-csv") = set("cursor", TRUE)
  BY <1>1, <1>2 DEF AskedFor, Fits, ProviderOf
<1>6. x \in Nat /\ y \in Nat /\ z \in Nat
  <2>1. \A s : Cardinality(AskedFor(pulls, a, s)) \in Nat
    BY <1>1, AskedForIs
  <2>2. /\ Cardinality(set("anthropic", FALSE)) \in Nat /\ Cardinality(set("cursor", FALSE)) \in Nat
        /\ Cardinality(set("cursor", TRUE)) \in Nat
    <3> HIDE DEF set
    <3> QED
      BY <1>3, <1>4, <1>5, <2>1
  <2>3. bill.anthropic \in Nat /\ Summed(Learned(bill.cursor, FALSE)) \in Nat /\ Summed(Learned(bill.cursor, TRUE)) \in Nat
    BY <1>1, BillIs, LearnedIs
  <2> HIDE DEF set
  <2> QED
    BY <2>2, <2>3, OneMore
<1>7. \A s \in Kinds : Billed(spent, a, s) <= Cardinality(AskedFor(pulls, a, s)) * Amount(bill, s)
  <2> SUFFICES ASSUME NEW s \in Kinds PROVE Billed(spent, a, s) <= Cardinality(AskedFor(pulls, a, s)) * Amount(bill, s)
    OBVIOUS
  <2>1. PICK u \in Nat : u = Billed(spent, a, s)
    BY <1>1, WeightsAre
  <2>2. PICK v \in Nat : v = ToWrite(a, s)
    <3>1. CASE asking.stage = "write"
      <4>1. asking.todo \in Seq(RowShape)
        BY <1>1, <3>1 DEF SpendShape, PullRecord
      <4>2. Billed(asking.todo, a, s) \in Nat
        BY <4>1, WeightsAre
      <4> QED
        BY <3>1, <4>2 DEF ToWrite
    <3>2. CASE asking.stage # "write"
      BY <3>2 DEF ToWrite
    <3> QED
      BY <3>1, <3>2
  <2>3. PICK w \in Nat : w = Due(a, s)
    <3>1. Amount(bill, s) \in Nat
      BY <1>1, AmountIs
    <3> QED
      BY <3>1 DEF Due
  <2>4. PICK p \in Nat : p = Cardinality(AskedFor(pulls, a, s)) * Amount(bill, s)
    BY <1>1, AskedForIs, AmountIs, OneMore
  <2>5. u + v + w <= p
    BY <1>1, <2>1, <2>2, <2>3, <2>4 DEF SpendWithin
  <2> QED
    BY <2>1, <2>2, <2>3, <2>4, <2>5
<1>8. /\ Billed(spent, a, "admin-api-cost") <= x /\ Billed(spent, a, "usage-events") <= y
      /\ Billed(spent, a, "usage-events-rollup") <= y /\ Billed(spent, a, "manual-csv") <= z
  <2>1. /\ Amount(bill, "admin-api-cost") = bill.anthropic /\ Amount(bill, "usage-events") = Summed(Learned(bill.cursor, FALSE))
        /\ Amount(bill, "usage-events-rollup") = Summed(Learned(bill.cursor, FALSE))
        /\ Amount(bill, "manual-csv") = Summed(Learned(bill.cursor, TRUE))
    BY DEF Amount
  <2>2. "admin-api-cost" \in Kinds /\ "usage-events" \in Kinds /\ "usage-events-rollup" \in Kinds /\ "manual-csv" \in Kinds
    BY DEF Kinds
  <2>3. Billed(spent, a, "admin-api-cost") <= Cardinality(AskedFor(pulls, a, "admin-api-cost")) * Amount(bill, "admin-api-cost")
    BY <1>7, <2>2
  <2>4. Billed(spent, a, "usage-events") <= Cardinality(AskedFor(pulls, a, "usage-events")) * Amount(bill, "usage-events")
    BY <1>7, <2>2
  <2>5. Billed(spent, a, "usage-events-rollup")
            <= Cardinality(AskedFor(pulls, a, "usage-events-rollup")) * Amount(bill, "usage-events-rollup")
    BY <1>7, <2>2
  <2>6. Billed(spent, a, "manual-csv") <= Cardinality(AskedFor(pulls, a, "manual-csv")) * Amount(bill, "manual-csv")
    BY <1>7, <2>2
  <2> HIDE DEF set
  <2> QED
    BY <1>3, <1>4, <1>5, <2>1, <2>3, <2>4, <2>5, <2>6
<1>9. {x} \cup {Cardinality(set("cursor", c)) * Summed(Learned(bill.cursor, c)) : c \in BOOLEAN} = {x, y, z}
  <2> HIDE DEF set
  <2> QED
    OBVIOUS
<1> HIDE DEF x, y, z, set
<1>10. PICK m \in {x, y, z} : Max({x, y, z}) = m /\ x <= m /\ y <= m /\ z <= m
  BY <1>6, MostOfThree
<1>11. PICK s \in Kinds : Headline(a) = Billed(spent, a, s)
  BY <1>1, HeadlineIs
<1>12. PICK h \in Nat : h = Headline(a) /\ h = Billed(spent, a, s)
  BY <1>1, <1>11, WeightsAre
<1>13. h <= x \/ h <= y \/ h <= z
  BY <1>8, <1>12 DEF Kinds
<1>14. h <= m
  BY <1>6, <1>10, <1>13
<1>15. Headline(a) <= Max({x} \cup {Cardinality(set("cursor", c)) * Summed(Learned(bill.cursor, c)) : c \in BOOLEAN})
  BY <1>9, <1>10, <1>12, <1>14
<1> QED
  BY <1>15 DEF set, x

LEMMA SpendInitIInv == SpendInit => SpendIInv
<1> SUFFICES ASSUME SpendInit PROVE SpendIInv
  OBVIOUS
<1>1. SpendShape /\ asking.stage = "none" /\ spent = <<>> /\ pulls = <<>>
  BY SpendStarts DEF SpendInit, NoPull
<1>2. SpendCovers
  BY <1>1, EmptySeq DEF SpendCovers, Running
<1>3. SpendWithin
  <2> SUFFICES ASSUME NEW a \in Arms, NEW s \in Kinds
               PROVE  Billed(spent, a, s) + ToWrite(a, s) + Due(a, s) <= Cardinality(AskedFor(pulls, a, s)) * Amount(bill, s)
    BY DEF SpendWithin
  <2>1. Billed(spent, a, s) = 0 /\ ToWrite(a, s) = 0 /\ Due(a, s) = 0
    BY <1>1, EmptyRows DEF ToWrite, Due, IsDue
  <2>2. PICK p \in Nat : p = Cardinality(AskedFor(pulls, a, s)) * Amount(bill, s)
    <3>1. Len(pulls) \in Nat /\ bill \in Bills
      BY <1>1, LenProperties DEF SpendShape
    <3> QED
      BY <3>1, AskedForIs, AmountIs, OneMore
  <2> QED
    BY <2>1, <2>2
<1> QED
  BY <1>1, <1>2, <1>3 DEF SpendIInv

LEMMA SpendNextIInv == SpendIInv /\ [SpendNext]_spendVars => SpendIInv'
<1> SUFFICES ASSUME SpendIInv, [SpendNext]_spendVars PROVE SpendIInv'
  OBVIOUS
<1>1. CASE SpendNext
  <2>1. SpendShape' /\ SpendStep
    BY <1>1, SpendSteps DEF SpendIInv
  <2> QED
    BY <2>1, CoversKeeps, WithinKeeps DEF SpendIInv
<1>2. CASE UNCHANGED spendVars
  <2>1. bill' = bill /\ spent' = spent /\ asking' = asking /\ pulls' = pulls
    BY <1>2 DEF spendVars
  <2>2. SpendShape'
    BY <2>1 DEF SpendIInv, SpendShape, Running
  <2>3. SpendCovers'
    BY <2>1 DEF SpendIInv, SpendCovers, Running
  <2>4. SpendWithin'
    BY <2>1 DEF SpendIInv, SpendWithin, ToWrite, Due, IsDue
  <2> QED
    BY <2>2, <2>3, <2>4 DEF SpendIInv
<1> QED
  BY <1>1, <1>2

----------------------------------------------------------------------------
(* ArmRuns *)

RunnerShape == [step : {"call", "grade"}, attempt : Nat, started : Nat, at : Nat, reply : Replies \cup {None}]
RunShape == [ts : Nat, ends : Nat, ok : BOOLEAN, grade : {GradeOf(reply) : reply \in Replies}]

ArmIInv ==
    /\ benchClock \in Nat
    /\ runner # Idle =>
          /\ runner \in RunnerShape /\ runner.started <= benchClock /\ runner.at <= benchClock
          /\ runner.step = "grade" => runner.reply \in Replies
    /\ graded \in Seq(RunShape) /\ called \in Seq(Replies) /\ Len(graded) = Len(called)
    /\ \A i \in 1..Len(graded) : graded[i].grade = GradeOf(called[i])
    /\ printed \in Seq([from : Nat, to : Nat])
    /\ \A i \in 1..Len(printed) : \E k \in 1..Len(graded) :
          graded[k].ts <= printed[i].to /\ printed[i].from <= graded[k].ends

\* A set of numbers with a bound has a most.
LEMMA BoundedHasMost ==
  ASSUME NEW S \in SUBSET Nat, S # {}, NEW b \in Nat, \A y \in S : y <= b
  PROVE  Max(S) \in S /\ \A y \in S : y <= Max(S)
<1> DEFINE B == {m \in Nat : \A y \in S : y <= m}
<1>1. B \in SUBSET Nat /\ B # {}
  OBVIOUS
<1>2. PICK m \in B : \A w \in B : m <= w
  <2> HIDE DEF B
  <2> QED
    BY <1>1, LeastNumber
<1>3. m \in S
  <2> SUFFICES ASSUME m \notin S PROVE FALSE
    OBVIOUS
  <2>1. PICK y \in S : y \in Nat
    OBVIOUS
  <2>2. m - 1 \in Nat
    BY <1>2, <2>1
  <2>3. \A w \in S : w <= m - 1
    BY <1>2
  <2> QED
    BY <1>2, <2>2, <2>3
<1>4. S \subseteq Nat /\ \A y \in S : y <= m
  BY <1>2
<1>5. Max(S) = m
  BY <1>3, <1>4, MaxIs
<1> QED
  BY <1>3, <1>4, <1>5

\* What some numbers of a sequence are never above.
LEMMA SequenceBounded ==
  ASSUME NEW n \in Nat, NEW e, \A i \in 1..n : e[i] \in Nat
  PROVE  \E b \in Nat : \A i \in 1..n : e[i] <= b
<1> DEFINE S == {i \in 0..n : \E b \in Nat : \A k \in 1..i : e[k] <= b}
<1>1. 0 \in S
  OBVIOUS
<1>2. ASSUME NEW i \in 0 + 1..n, i - 1 \in S PROVE i \in S
  <2>1. PICK b \in Nat : \A k \in 1..i - 1 : e[k] <= b
    BY <1>2
  <2>2. i \in 1..n /\ e[i] \in Nat
    OBVIOUS
  <2>3. PICK c \in Nat : c >= b /\ c >= e[i]
    <3>1. CASE e[i] <= b
      BY <3>1
    <3>2. CASE b <= e[i]
      BY <2>2, <3>2
    <3> QED
      BY <2>2, <3>1, <3>2
  <2>4. \A k \in 1..i : e[k] <= c
    <3> SUFFICES ASSUME NEW k \in 1..i PROVE e[k] <= c
      OBVIOUS
    <3>1. CASE k = i
      BY <2>3, <3>1
    <3>2. CASE k # i
      <4>1. k \in 1..i - 1 /\ k \in 1..n
        BY <3>2
      <4>2. e[k] \in Nat /\ e[k] <= b
        BY <2>1, <4>1
      <4> QED
        BY <2>3, <4>2
    <3> QED
      BY <3>1, <3>2
  <2> QED
    BY <2>2, <2>4
<1> HIDE DEF S
<1>3. \A i \in 0..n : i \in S
  BY <1>1, <1>2, UpTo
<1>4. n \in S
  BY <1>3
<1> QED
  BY <1>4 DEF S

LEMMA LeastOfSet ==
  ASSUME NEW S \in SUBSET Nat, S # {}
  PROVE  Min(S) \in S /\ \A y \in S : Min(S) <= y
<1> DEFINE Q(m) == m \in S /\ \A y \in S : m <= y
<1>1. \E m : Q(m)
  BY LeastNumber
<1>2. Min(S) = CHOOSE m : Q(m)
  BY DEF Min
<1> HIDE DEF Q
<1>3. Q(Min(S))
  BY <1>1, <1>2
<1> QED
  BY <1>3 DEF Q

\* The window begins no later than any run and ends no earlier.
LEMMA WindowHolds ==
  ASSUME graded \in Seq(RunShape), NEW k \in 1..Len(graded)
  PROVE  RunWindow.from <= graded[k].ts /\ graded[k].ends <= RunWindow.to
         /\ RunWindow.from \in Nat /\ RunWindow.to \in Nat
<1>1. PICK n \in Nat : n = Len(graded) /\ DOMAIN graded = 1..n /\ graded # <<>>
  BY LenProperties, EmptySeq
<1>2. \A i \in 1..n : graded[i].ts \in Nat /\ graded[i].ends \in Nat
  <2>1. \A i \in 1..n : graded[i] \in RunShape
    BY <1>1, ElementOfSeq
  <2> QED
    BY <2>1 DEF RunShape
<1> DEFINE starts == {graded[i].ts : i \in DOMAIN graded}
           ends == {graded[i].ends : i \in DOMAIN graded}
<1>3. starts \in SUBSET Nat /\ graded[k].ts \in starts /\ ends \in SUBSET Nat /\ graded[k].ends \in ends
  BY <1>1, <1>2
<1>4. PICK b \in Nat : \A y \in ends : y <= b
  <2> DEFINE e == [i \in 1..n |-> graded[i].ends]
  <2>1. \A i \in 1..n : e[i] \in Nat
    BY <1>2
  <2> HIDE DEF e
  <2>2. PICK b \in Nat : \A i \in 1..n : e[i] <= b
    BY <2>1, SequenceBounded
  <2>3. \A y \in ends : y <= b
    BY <1>1, <2>2 DEF e
  <2> QED
    BY <2>3
<1>5. RunWindow.from = Min(starts) /\ RunWindow.to = Max(ends)
  BY <1>1 DEF RunWindow
<1> HIDE DEF starts, ends
<1>6. Min(starts) \in starts /\ Min(starts) <= graded[k].ts
  BY <1>3, LeastOfSet
<1>7. Max(ends) \in ends /\ graded[k].ends <= Max(ends)
  BY <1>3, <1>4, BoundedHasMost
<1> QED
  BY <1>3, <1>5, <1>6, <1>7

LEMMA RunAppended ==
  \A rows \in Seq(RunShape), row \in RunShape :
     /\ Append(rows, row) \in Seq(RunShape) /\ Len(Append(rows, row)) = Len(rows) + 1
     /\ Append(rows, row)[Len(rows) + 1] = row /\ \A i \in 1..Len(rows) : Append(rows, row)[i] = rows[i]
  BY AppendProperties

\* A run more, and perhaps a window that it is in.
LEMMA RunAdded ==
  ASSUME ArmIInv, NEW row \in RunShape, NEW reply \in Replies, row.grade = GradeOf(reply),
         graded' = Append(graded, row), called' = Append(called, reply), benchClock' \in Nat,
         runner' # Idle =>
            /\ runner' \in RunnerShape /\ runner'.started <= benchClock' /\ runner'.at <= benchClock'
            /\ runner'.step = "grade" => runner'.reply \in Replies,
         \/ printed' = printed
         \/ \E from, to \in Nat : printed' = Append(printed, [from |-> from, to |-> to]) /\ row.ts <= to /\ from <= row.ends
  PROVE  ArmIInv'
<1>1. PICK n \in Nat : n = Len(graded) /\ n = Len(called) /\ graded \in Seq(RunShape) /\ called \in Seq(Replies)
  BY LenProperties DEF ArmIInv
<1>2. graded' \in Seq(RunShape) /\ Len(graded') = n + 1 /\ graded'[n + 1] = row /\ \A i \in 1..n : graded'[i] = graded[i]
  <2> DEFINE more == Append(graded, row)
  <2>1. more \in Seq(RunShape) /\ Len(more) = n + 1 /\ more[n + 1] = row /\ \A i \in 1..n : more[i] = graded[i]
    <3>1. graded \in Seq(RunShape) /\ n = Len(graded)
      BY <1>1
    <3>2. /\ more \in Seq(RunShape) /\ Len(more) = Len(graded) + 1 /\ more[Len(graded) + 1] = row
          /\ \A i \in 1..Len(graded) : more[i] = graded[i]
      BY <3>1, RunAppended, Zenon
    <3> HIDE DEF more
    <3> QED
      BY <3>1, <3>2
  <2>2. graded' = more
    OBVIOUS
  <2> HIDE DEF more
  <2> QED
    BY <2>1, <2>2
<1>3. called' \in Seq(Replies) /\ Len(called') = n + 1 /\ called'[n + 1] = reply /\ \A i \in 1..n : called'[i] = called[i]
  BY <1>1, AppendProperties
<1>4. \A i \in 1..Len(graded') : graded'[i].grade = GradeOf(called'[i])
  <2>1. \A i \in 1..n : graded[i].grade = GradeOf(called[i])
    BY <1>1 DEF ArmIInv
  <2>2. \A i \in 1..n + 1 : i \in 1..n \/ i = n + 1
    OBVIOUS
  <2> QED
    BY <1>2, <1>3, <2>1, <2>2
<1>5. \A i \in 1..Len(printed) : \E k \in 1..n + 1 :
         graded'[k].ts <= printed[i].to /\ printed[i].from <= graded'[k].ends
  <2> SUFFICES ASSUME NEW i \in 1..Len(printed)
               PROVE  \E k \in 1..n + 1 : graded'[k].ts <= printed[i].to /\ printed[i].from <= graded'[k].ends
    OBVIOUS
  <2>1. PICK k \in 1..n : graded[k].ts <= printed[i].to /\ printed[i].from <= graded[k].ends
    BY <1>1 DEF ArmIInv
  <2>2. k \in 1..n + 1 /\ graded'[k] = graded[k]
    BY <1>2
  <2> QED
    BY <2>1, <2>2
<1>6. printed' \in Seq([from : Nat, to : Nat])
      /\ \A i \in 1..Len(printed') : \E k \in 1..n + 1 :
            graded'[k].ts <= printed'[i].to /\ printed'[i].from <= graded'[k].ends
  <2>1. printed \in Seq([from : Nat, to : Nat])
    BY DEF ArmIInv
  <2>2. CASE printed' = printed
    BY <1>5, <2>1, <2>2
  <2>3. CASE printed' # printed
    <3>1. PICK from \in Nat, to \in Nat : printed' = Append(printed, [from |-> from, to |-> to]) /\ row.ts <= to /\ from <= row.ends
      BY <2>3
    <3> DEFINE window == [from |-> from, to |-> to]
    <3>2. window \in [from : Nat, to : Nat] /\ window.from = from /\ window.to = to
      OBVIOUS
    <3>3. printed' = Append(printed, window)
      BY <3>1
    <3> HIDE DEF window
    <3>4. PICK m \in Nat : m = Len(printed)
      BY <2>1, LenProperties
    <3>5. /\ printed' \in Seq([from : Nat, to : Nat]) /\ Len(printed') = m + 1 /\ printed'[m + 1] = window
          /\ \A i \in 1..m : printed'[i] = printed[i]
      BY <2>1, <3>2, <3>3, <3>4, AppendProperties
    <3>6. n + 1 \in 1..n + 1 /\ graded'[n + 1].ts <= window.to /\ window.from <= graded'[n + 1].ends
      BY <1>2, <3>1, <3>2
    <3>7. \A i \in 1..m + 1 : i \in 1..m \/ i = m + 1
      OBVIOUS
    <3> QED
      BY <1>5, <3>4, <3>5, <3>6, <3>7
  <2> QED
    BY <2>2, <2>3
<1> QED
  BY <1>2, <1>3, <1>4, <1>6 DEF ArmIInv

\* A step that adds no run.
LEMMA RunnerGoesOn ==
  ASSUME ArmIInv, benchClock' \in Nat, graded' = graded, called' = called, printed' = printed,
         runner' # Idle =>
            /\ runner' \in RunnerShape /\ runner'.started <= benchClock' /\ runner'.at <= benchClock'
            /\ runner'.step = "grade" => runner'.reply \in Replies
  PROVE  ArmIInv'
<1>1. (graded \in Seq(RunShape) /\ called \in Seq(Replies) /\ Len(graded) = Len(called)
       /\ \A i \in 1..Len(graded) : graded[i].grade = GradeOf(called[i]))'
  BY DEF ArmIInv
<1>2. (printed \in Seq([from : Nat, to : Nat])
       /\ \A i \in 1..Len(printed) : \E k \in 1..Len(graded) :
             graded[k].ts <= printed[i].to /\ printed[i].from <= graded[k].ends)'
  BY DEF ArmIInv
<1> QED
  BY <1>1, <1>2 DEF ArmIInv

\* The later of two moments.
LEMMA LaterOf ==
  ASSUME NEW x \in Nat, NEW y \in Nat
  PROVE  Max({x, y}) \in Nat /\ x <= Max({x, y}) /\ y <= Max({x, y})
<1> DEFINE S == {x, y}
<1>1. PICK m \in S : m \in Nat /\ x <= m /\ y <= m
  OBVIOUS
<1>2. S \subseteq Nat /\ \A w \in S : w <= m
  BY <1>1
<1> HIDE DEF S
<1>3. Max(S) = m
  BY <1>2, MaxIs
<1> QED
  BY <1>1, <1>3 DEF S

LEMMA ArmNextIInv == ArmIInv /\ [ArmNext]_armVars => ArmIInv'
<1> SUFFICES ASSUME ArmIInv, [ArmNext]_armVars PROVE ArmIInv'
  OBVIOUS
<1>1. PICK now \in Nat : now = benchClock
  BY DEF ArmIInv
<1>2. runner # Idle => /\ runner \in RunnerShape /\ runner.started <= now /\ runner.at <= now
                       /\ runner.step = "grade" => runner.reply \in Replies
  BY <1>1 DEF ArmIInv
<1>3. CASE ClockTicks
  <2>1. benchClock' = now + 1 /\ runner' = runner /\ printed' = printed /\ graded' = graded /\ called' = called
    BY <1>1, <1>3 DEF ClockTicks
  <2>2. runner # Idle => runner.started \in Nat /\ runner.at \in Nat
    BY <1>2 DEF RunnerShape
  <2>3. benchClock' \in Nat /\ (runner # Idle => runner.started <= benchClock' /\ runner.at <= benchClock')
    BY <1>2, <2>1, <2>2
  <2> QED
    BY <1>2, <2>1, <2>3, RunnerGoesOn
<1>4. CASE StartRunner
  <2>1. /\ runner' = [step |-> "call", attempt |-> 1, started |-> benchClock, at |-> benchClock, reply |-> None]
        /\ benchClock' = benchClock /\ printed' = printed /\ graded' = graded /\ called' = called
    BY <1>4 DEF StartRunner
  <2>2. runner' \in RunnerShape /\ runner'.started <= benchClock' /\ runner'.at <= benchClock' /\ runner'.step = "call"
    BY <1>1, <2>1 DEF RunnerShape
  <2> QED
    BY <1>1, <2>1, <2>2, RunnerGoesOn
<1>5. ASSUME NEW reply \in Replies, CallModel(reply) PROVE ArmIInv'
  <2>1. /\ runner.step = "call" /\ runner' = [runner EXCEPT !.step = "grade", !.reply = reply]
        /\ benchClock' = benchClock /\ printed' = printed /\ graded' = graded /\ called' = called
    BY <1>5 DEF CallModel
  <2>2. runner # Idle
    BY <2>1 DEF Idle
  <2>3. runner' \in RunnerShape /\ runner'.started = runner.started /\ runner'.at = runner.at /\ runner'.reply = reply
    BY <1>2, <2>1, <2>2 DEF RunnerShape
  <2> QED
    BY <1>1, <1>2, <2>1, <2>2, <2>3, RunnerGoesOn
<1>6. CASE GradeAndRecord
  <2> DEFINE row == RunRow(runner.at, runner.reply)
  <2>1. /\ runner.step = "grade" /\ graded' = Append(graded, row) /\ called' = Append(called, runner.reply)
        /\ benchClock' = benchClock
    BY <1>6 DEF GradeAndRecord
  <2>2. runner # Idle
    BY <2>1 DEF Idle
  <2>3. PICK began \in Nat, started \in Nat : began = runner.at /\ started = runner.started /\ began <= now /\ started <= now
    BY <1>2, <2>2 DEF RunnerShape
  <2>4. runner.reply \in Replies /\ runner \in RunnerShape
    BY <1>2, <2>1, <2>2
  <2>5. row.ts = began /\ row.ends = Max({began + 1, now}) /\ row.grade = GradeOf(runner.reply)
        /\ row.ok = (runner.reply.call = "ok") /\ row = [ts |-> row.ts, ends |-> row.ends, ok |-> row.ok, grade |-> row.grade]
    BY <1>1, <2>3 DEF RunRow
  <2>6. Max({began + 1, now}) \in Nat /\ now <= Max({began + 1, now})
    BY LaterOf
  <2>7. row \in RunShape
    <3>1. GradeOf(runner.reply) \in {GradeOf(reply) : reply \in Replies}
      BY <2>4
    <3> HIDE DEF row
    <3> QED
      BY <2>3, <2>5, <2>6, <3>1 DEF RunShape
  <2>8. row.ts <= now /\ started <= row.ends
    <3> HIDE DEF row
    <3> QED
      BY <2>3, <2>5, <2>6
  <2>9. CASE runner.attempt < AttemptsAsked
    <3>1. runner' = [runner EXCEPT !.step = "call", !.attempt = @ + 1, !.at = benchClock] /\ printed' = printed
      BY <1>6, <2>9 DEF GradeAndRecord
    <3>2. runner' \in RunnerShape /\ runner'.started = started /\ runner'.at = now /\ runner'.step = "call"
      <4>1. runner.attempt + 1 \in Nat
        BY <2>4 DEF RunnerShape
      <4>2. PICK next \in Nat : next = runner.attempt + 1
        BY <4>1
      <4>3. runner' = [runner EXCEPT !.step = "call", !.attempt = next, !.at = now]
        BY <1>1, <3>1, <4>2
      <4> HIDE DEF row
      <4> QED
        BY <2>3, <2>4, <4>3 DEF RunnerShape
    <3> HIDE DEF row
    <3> QED
      BY <1>1, <2>1, <2>3, <2>4, <2>5, <2>7, <3>1, <3>2, RunAdded
  <2>10. CASE ~(runner.attempt < AttemptsAsked)
    <3>1. runner' = Idle /\ printed' = Append(printed, [from |-> started, to |-> now])
      BY <1>1, <1>6, <2>3, <2>10 DEF GradeAndRecord
    <3> HIDE DEF row
    <3>2. \E from, to \in Nat : printed' = Append(printed, [from |-> from, to |-> to]) /\ row.ts <= to /\ from <= row.ends
      BY <2>8, <3>1
    <3> QED
      BY <1>1, <2>1, <2>4, <2>5, <2>7, <3>1, <3>2, RunAdded
  <2> QED
    BY <2>9, <2>10
<1>7. CASE RunnerDies
  <2>1. runner' = Idle /\ benchClock' = benchClock /\ printed' = printed /\ graded' = graded /\ called' = called
    BY <1>7 DEF RunnerDies
  <2> QED
    BY <1>1, <2>1, RunnerGoesOn
<1>8. ASSUME NEW reply \in Replies, NEW from \in 0..benchClock, NEW to \in 0..benchClock, IngestSession(reply, from, to)
      PROVE  ArmIInv'
  <2> DEFINE last == Max({from + 1, to})
             row == [RunRow(from, reply) EXCEPT !.ends = last]
  <2>1. /\ graded' = Append(graded, row) /\ called' = Append(called, reply)
        /\ printed' = Append(printed, [from |-> from, to |-> last]) /\ benchClock' = benchClock /\ runner' = runner
    BY <1>8 DEF IngestSession
  <2>2. from \in Nat /\ to \in Nat
    BY <1>1
  <2>3. last \in Nat /\ from + 1 <= last
    BY <2>2, LaterOf
  <2> HIDE DEF last
  <2>4. row.ts = from /\ row.ends = last /\ row.grade = GradeOf(reply)
        /\ row.ok = (reply.call = "ok") /\ row = [ts |-> row.ts, ends |-> row.ends, ok |-> row.ok, grade |-> row.grade]
    BY DEF RunRow
  <2>5. row \in RunShape
    <3>1. GradeOf(reply) \in {GradeOf(r) : r \in Replies}
      OBVIOUS
    <3> HIDE DEF row
    <3> QED
      BY <2>2, <2>3, <2>4, <3>1 DEF RunShape
  <2> HIDE DEF row
  <2>6. \E f, t \in Nat : printed' = Append(printed, [from |-> f, to |-> t]) /\ row.ts <= t /\ f <= row.ends
    <3>1. row.ts <= last /\ from <= row.ends
      BY <2>2, <2>3, <2>4
    <3> QED
      BY <2>1, <2>2, <2>3, <3>1
  <2> QED
    BY <1>1, <1>2, <2>1, <2>4, <2>5, <2>6, RunAdded
<1>9. CASE UNCHANGED armVars
  <2>1. runner' = runner /\ benchClock' = benchClock /\ printed' = printed /\ graded' = graded /\ called' = called
    BY <1>9 DEF armVars
  <2> QED
    BY <1>1, <1>2, <2>1, RunnerGoesOn
<1> QED
  BY <1>3, <1>4, <1>5, <1>6, <1>7, <1>8, <1>9 DEF ArmNext

LEMMA ArmInitIInv == ArmInit => ArmIInv
<1> SUFFICES ASSUME ArmInit PROVE ArmIInv
  OBVIOUS
<1>1. benchClock = 0 /\ runner = Idle /\ printed = <<>> /\ graded = <<>> /\ called = <<>>
  BY DEF ArmInit
<1>2. graded \in Seq(RunShape) /\ called \in Seq(Replies) /\ printed \in Seq([from : Nat, to : Nat])
      /\ Len(graded) = 0 /\ Len(called) = 0 /\ Len(printed) = 0
  BY <1>1, EmptySeq
<1> QED
  BY <1>1, <1>2 DEF ArmIInv

LEMMA PassIsEarned == ArmIInv => FullPassIsEarned
<1> SUFFICES ASSUME ArmIInv, NEW i \in FullPasses
             PROVE  called[i].call = "ok" /\ called[i].code = "runs" /\ (called[i].failed = 0 \/ called[i].prints # None)
  BY DEF FullPassIsEarned
<1>1. i \in 1..Len(graded) /\ graded[i].grade = GradeOf(called[i]) /\ graded[i].grade.total > 0
      /\ graded[i].grade.passed = graded[i].grade.total
  BY LenProperties DEF FullPasses, GradedRuns, ArmIInv
<1>2. called[i] \in Replies
  BY <1>1, ElementOfSeq DEF ArmIInv
<1>3. PICK reply \in Replies : reply = called[i] /\ reply.passed \in Nat /\ reply.failed \in Nat
  BY <1>2, ArmAssumption
<1>4. GradeOf(reply).total > 0 /\ GradeOf(reply).passed = GradeOf(reply).total
  BY <1>1, <1>3
<1>5. reply.call = "ok" /\ GradeOf(reply) = Pytest(reply)
  <2> SUFFICES ASSUME ~(reply.call = "ok" /\ reply.text) PROVE FALSE
    BY DEF GradeOf
  <2>1. GradeOf(reply).total = 0
    BY DEF GradeOf, NoAnswer
  <2> QED
    BY <1>4, <2>1
<1>6. reply.code = "runs" /\ Pytest(reply) = Summary(reply)
  <2> SUFFICES ASSUME reply.code # "runs" PROVE FALSE
    BY DEF Pytest
  <2>1. CASE reply.code = "uncollected"
    <3>1. Pytest(reply).passed = 0 /\ Pytest(reply).total = 1
      BY <2>1 DEF Pytest, Counts
    <3> QED
      BY <1>4, <1>5, <3>1
  <2>2. CASE reply.code # "uncollected"
    <3>1. Pytest(reply).total = 0
      BY <2>2 DEF Pytest, NoAnswer
    <3> QED
      BY <1>4, <1>5, <3>1
  <2> QED
    BY <2>1, <2>2
<1>7. reply.failed = 0 \/ reply.prints # None
  <2> SUFFICES ASSUME reply.prints = None PROVE reply.failed = 0
    OBVIOUS
  <2>1. Summary(reply).passed = reply.passed /\ Summary(reply).total = reply.passed + reply.failed + 0
    BY DEF Summary, Counts
  <2> QED
    BY <1>3, <1>4, <1>5, <1>6, <2>1
<1> QED
  BY <1>3, <1>5, <1>6, <1>7

LEMMA BillsFound == ArmIInv => BillsAreFound
<1> SUFFICES ASSUME ArmIInv, NEW i \in DOMAIN printed
             PROVE  printed[i].from <= RunWindow.to /\ RunWindow.from <= printed[i].to
  BY DEF BillsAreFound
<1>1. printed \in Seq([from : Nat, to : Nat]) /\ graded \in Seq(RunShape)
  BY DEF ArmIInv
<1>2. i \in 1..Len(printed)
  BY <1>1, LenProperties
<1>3. PICK from \in Nat, to \in Nat : from = printed[i].from /\ to = printed[i].to
  <2>1. printed[i] \in [from : Nat, to : Nat]
    BY <1>1, <1>2, ElementOfSeq
  <2> QED
    BY <2>1
<1>4. PICK k \in 1..Len(graded) : graded[k].ts <= to /\ from <= graded[k].ends
  BY <1>2, <1>3 DEF ArmIInv
<1>5. PICK ts \in Nat, ends \in Nat : ts = graded[k].ts /\ ends = graded[k].ends
  <2>1. graded[k] \in RunShape
    BY <1>1, ElementOfSeq
  <2> QED
    BY <2>1 DEF RunShape
<1>6. RunWindow.from <= ts /\ ends <= RunWindow.to /\ RunWindow.from \in Nat /\ RunWindow.to \in Nat
  BY <1>1, <1>5, WindowHolds
<1> QED
  BY <1>3, <1>4, <1>5, <1>6

----------------------------------------------------------------------------
\* The report

LEMMA ReportMoves == [MaintenanceNext]_AllVars => [ArmNext]_armVars /\ [SpendNext]_spendVars
<1> SUFFICES ASSUME [MaintenanceNext]_AllVars PROVE [ArmNext]_armVars /\ [SpendNext]_spendVars
  OBVIOUS
<1>1. CASE UNCHANGED AllVars
  BY <1>1 DEF AllVars
<1>2. CASE MaintenanceNext
  BY <1>2 DEF MaintenanceNext, MigrationStep, PullHere, HfStep, BenchRests
<1> QED
  BY <1>1, <1>2

(* Whatever runs are made and whatever pulls are asked for, fail or are interrupted: a
   full pass is one of code that ran and that failed no test or printed counts of its
   own, every window that was printed is within reach of the one the report asks for,
   and the amount is no less than what a pull that exited 0 could learn that a provider
   charged, and no more than that for each of the pulls of one provider. *)
THEOREM ReportsAreHonest == MaintenanceSpec => []ReportHonest
<1>1. MaintenanceInit => ArmIInv /\ SpendIInv
  BY ArmInitIInv, SpendInitIInv DEF MaintenanceInit
<1>2. ArmIInv /\ SpendIInv /\ [MaintenanceNext]_AllVars => (ArmIInv /\ SpendIInv)'
  BY ReportMoves, ArmNextIInv, SpendNextIInv
<1>3. MaintenanceSpec => [](ArmIInv /\ SpendIInv)
  BY <1>1, <1>2, PTL DEF MaintenanceSpec
<1>4. ArmIInv /\ SpendIInv => ReportHonest
  BY PassIsEarned, BillsFound, CoversHold, WithinHolds DEF ReportHonest
<1> QED
  BY <1>3, <1>4, PTL
================================================================================
