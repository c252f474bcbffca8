---------------------------- MODULE SchemaMigration ----------------------------
(***************************************************************************)
(* cost/ingest.py: connect(), which the router (_ensure_db) runs when it   *)
(* is imported and the dashboard for every query, in threads of its own.   *)
(* It reads the table's columns, adds the missing ones, and only then runs *)
(* schema.sql; SQLite commits each of these statements by itself.          *)
(***************************************************************************)
EXTENDS Naturals, Sequences

CONSTANTS
    Conns,   \* connections being opened, by any process
    Added    \* the columns later versions added, in the order connect() adds them

ASSUME MigrationAssumption == Added \in Seq(STRING) /\ Added # <<>>

VARIABLES
    table,   \* `requests`: whether it exists, and which of Added it has
    extras,  \* whether the indexes and the other table exist
    conn     \* each connect(): where it is, the columns it read, the next ALTER

migrationVars == <<table, extras, conn>>

Columns == {Added[i] : i \in DOMAIN Added}
FullTable == [exists |-> TRUE, cols |-> Columns]
New == [at |-> "pragma", read |-> {}, next |-> 1]

\* No database, or one that an earlier version made.
MigrationInit ==
    /\ table \in {[exists |-> FALSE, cols |-> {}]} \cup {[exists |-> TRUE, cols |-> {Added[i] : i \in 1..n}] :
                     n \in 0..Len(Added)}
    /\ extras = FALSE
    /\ conn = [c \in Conns |-> New]

Goes(c, at) == conn' = [conn EXCEPT ![c].at = at]

\* PRAGMA table_info: nothing to migrate when there is no table.
Pragma(c) ==
    /\ conn[c].at = "pragma"
    /\ conn' = [conn EXCEPT ![c].read = table.cols,
                            ![c].at = IF table.exists THEN "alter" ELSE "script"]
    /\ UNCHANGED <<table, extras>>

\* ALTER TABLE ADD COLUMN, where the column was missing; it raises when the
\* column has come since.
Alter(c) ==
    /\ conn[c].at = "alter" /\ conn[c].next <= Len(Added)
    /\ LET col == Added[conn[c].next]
       IN  IF col \in conn[c].read THEN /\ conn' = [conn EXCEPT ![c].next = @ + 1]
                                        /\ UNCHANGED table
           ELSE IF col \in table.cols THEN Goes(c, "raised") /\ UNCHANGED table
           ELSE /\ table' = [table EXCEPT !.cols = @ \cup {col}]
                /\ conn' = [conn EXCEPT ![c].next = @ + 1]
    /\ UNCHANGED extras

\* Mutant: the last column is forgotten.
MigratedOneShort(c) ==
    /\ conn[c].at = "alter" /\ conn[c].next >= Len(Added)
    /\ Goes(c, "script")
    /\ UNCHANGED <<table, extras>>

Migrated(c) ==
    /\ conn[c].at = "alter" /\ conn[c].next > Len(Added)
    /\ Goes(c, "script")
    /\ UNCHANGED <<table, extras>>

\* schema.sql: CREATE TABLE IF NOT EXISTS requests, with every column, ...
CreateTable(c) ==
    /\ conn[c].at = "script" /\ Goes(c, "index")
    /\ table' = IF table.exists THEN table ELSE FullTable
    /\ UNCHANGED extras

\* ... then the indexes, one of them on the first added column, and `comparisons`.
CreateIndexes(c) ==
    /\ conn[c].at = "index"
    /\ IF Added[1] \in table.cols THEN Goes(c, "open") /\ extras' = TRUE
                               ELSE Goes(c, "raised") /\ UNCHANGED extras
    /\ UNCHANGED table

\* The process dies in the middle.
Die(c) == conn[c].at \notin {"open", "raised", "killed"} /\ Goes(c, "killed") /\ UNCHANGED <<table, extras>>

\* After the exception the proxy does not start, and launchd starts it again; the
\* page answers 500, and is polled again.
Retry(c) ==
    /\ conn[c].at \in {"raised", "killed"}
    /\ conn' = [conn EXCEPT ![c] = New]
    /\ UNCHANGED <<table, extras>>

Connect(c) == Pragma(c) \/ Alter(c) \/ Migrated(c) \/ CreateTable(c) \/ CreateIndexes(c) \/ Retry(c)

MigrationNext == \E c \in Conns : Connect(c) \/ Die(c)

MigrationSpec == MigrationInit /\ [][MigrationNext]_migrationVars

----------------------------------------------------------------------------
(* Properties *)

\* Whoever has a connection can insert a row: the table has every column and
\* the index on them, however many connections migrated at once and died.
OpenSeesSchema ==
    \A c \in Conns : conn[c].at = "open" => table = FullTable /\ extras

\* "Idempotent column additions": a connection that is not killed opens in the
\* end, though two that find the same column missing make one of them raise.
EveryoneConnects ==
    \A c \in Conns : (<>[][~Die(c)]_conn) => <>(conn[c].at = "open")
============================================================================
