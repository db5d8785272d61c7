---------------------------- MODULE SchemaUpgrade ----------------------------
(* Start-up: init_db brings a database of any earlier version to the latest  *)
(* schema, and the process may die between any two statements.  Python's     *)
(* sqlite3 opens a transaction only in front of an INSERT: a CREATE, ALTER   *)
(* or DROP that comes before the first INSERT of an upgrade is durable at    *)
(* once, everything after it waits for the one commit at the end.            *)
(* The tables that some migration rebuilds are modelled; the others are only *)
(* ever created IF NOT EXISTS, or seeded.  PRAGMA foreign_keys does nothing  *)
(* in a transaction and is off from the start, so it is left out.            *)

EXTENDS Naturals, Sequences

CONSTANTS
    Installed,    \* schema versions a database may have at the first start
    MaxDeaths     \* bound: how often the process dies

Latest == 24

ASSUME InstalledAssumption == Installed \subseteq 0 .. Latest /\ MaxDeaths \in Nat

Tables == {"approval_requests", "execution_results", "execution_file_backups",
           "skills"}

\* The names a table's rows have under way, each used by one migration.
Leftover == [approval_requests      |-> {"approval_requests_v3"},
             execution_results      |-> {"_execution_results_v9",
                                         "_execution_results_v11"},
             execution_file_backups |-> {"_execution_file_backups_v11"},
             skills                 |-> {"skills_v17", "skills_v19", "skills_v21"}]

Leftovers == UNION {Leftover[t] : t \in Tables}
Names == Tables \union Leftovers
NamesOf(t) == {t} \union Leftover[t]

\* A table as sqlite_master knows it: the migration whose columns it has,
\* whether it holds every row stored so far, and the table its foreign key to
\* execution_results names.
Absent == [form |-> 0, whole |-> FALSE, refers |-> "none"]
Present(form, whole, refers) == [form |-> form, whole |-> whole, refers |-> refers]

-----------------------------------------------------------------------------
(* The migrations, as the statements they execute.                           *)

Statement(do, table, to, form) == [do |-> do, table |-> table, to |-> to, form |-> form]

\* Mutant: CREATE TABLE without IF NOT EXISTS.
Ensure_plain(t, v) == Statement("create", t, t, v)

Ensure(t, v)     == Statement("ensure", t, t, v)     \* CREATE TABLE IF NOT EXISTS
Create(t, v)     == Statement("create", t, t, v)
AddColumn(t, v)  == Statement("alter", t, t, v)
RenameTo(t, u)   == Statement("rename", t, u, 0)
CopyInto(t, u)   == Statement("copy", t, u, 0)       \* INSERT INTO u SELECT FROM t
DropTable(t)     == Statement("drop", t, t, 0)
Insert           == Statement("insert", "none", "none", 0)
Stamp(v)         == Statement("stamp", "none", "none", v)
Other            == Statement("other", "none", "none", 0)  \* repeatable DDL

\* Mutant: the old table is dropped before its rows are copied.
Rebuild_dropsFirst(t, new, v) ==
    <<Create(new, v), DropTable(t), RenameTo(new, t)>>

\* The order of V3, V17, V19 and V21.
Rebuild(t, new, v) ==
    <<Create(new, v), CopyInto(t, new), DropTable(t), RenameTo(new, t)>>

\* The order of V10.
RebuildAside(t, old, v) ==
    <<RenameTo(t, old), Create(t, v), CopyInto(old, t), DropTable(old)>>

\* The migrations by their functions' names, without the stamp that ends each.
V1 == <<>>
V2 == <<Other, Ensure("approval_requests", 2)>>
V3 == Rebuild("approval_requests", "approval_requests_v3", 3)
V4 == <<Other>>
V5 == <<Other, Insert>>
V6 == <<Other, AddColumn("approval_requests", 6)>>
V7 == <<Other>>
V8 == <<Other>>
V9 == <<Ensure("execution_results", 9)>>
V10 == RebuildAside("execution_results", "_execution_results_v9", 10)
V11 == <<Ensure("execution_file_backups", 11)>>

\* Mutant: only execution_results is rebuilt.
V12_alone == RebuildAside("execution_results", "_execution_results_v11", 12)

\* The backups are rebuilt with the results, whose old name their foreign key
\* has followed.
V12 ==
    <<RenameTo("execution_file_backups", "_execution_file_backups_v11"),
      RenameTo("execution_results", "_execution_results_v11"),
      Create("execution_results", 12),
      CopyInto("_execution_results_v11", "execution_results"),
      Create("execution_file_backups", 12),
      CopyInto("_execution_file_backups_v11", "execution_file_backups"),
      DropTable("_execution_file_backups_v11"),
      DropTable("_execution_results_v11")>>

V13 == <<Other>>
V14 == <<Ensure("skills", 14)>>
V15 == <<Other, Insert>>
V16 == <<Other>>
V17 == Rebuild("skills", "skills_v17", 17)
V18 == <<Insert>>
V19 == Rebuild("skills", "skills_v19", 19) \o <<Insert>>
V20 == <<Insert>>
V21 == Rebuild("skills", "skills_v21", 21) \o <<Insert>>
V22 == <<Insert>>
V23 == <<Other>>
V24 == <<Other>>

\* _MIGRATIONS.
Migrations == <<V1, V2, V3, V4, V5, V6, V7, V8, V9, V10, V11, V12, V13, V14, V15,
                V16, V17, V18, V19, V20, V21, V22, V23, V24>>

Migration == [v \in 1..Latest |-> Append(Migrations[v], Stamp(v))]

\* The migration that brings a table to the form the code reads and writes.
FinalForm == [approval_requests |-> 6, execution_results |-> 12,
              execution_file_backups |-> 12, skills |-> 21]

\* What a clean installation of version v looks like.
FormAt(t, v) ==
    LET forms == [approval_requests      |-> {2, 3, 6},
                  execution_results      |-> {9, 10, 12},
                  execution_file_backups |-> {11, 12},
                  skills                 |-> {14, 17, 19, 21}][t]
        reached == {f \in forms : f <= v}
    IN IF reached = {} THEN 0 ELSE CHOOSE f \in reached : \A g \in reached : g <= f

RefersOf(t) == IF t = "execution_file_backups" THEN "execution_results" ELSE "none"

InstalledTable(t, v) ==
    IF FormAt(t, v) = 0 THEN Absent ELSE Present(FormAt(t, v), TRUE, RefersOf(t))

Clean(v) ==
    [version |-> v,
     tables |-> [t \in Names |-> IF t \in Tables THEN InstalledTable(t, v) ELSE Absent]]

-----------------------------------------------------------------------------
VARIABLES
    phase,        \* the process: "down", "migrating" or "serving"
    disk,         \* the database as a crash would leave it
    db,           \* the database as the migrating connection sees it
    txn,          \* has that connection an open transaction?
    at,           \* the migration and the statement to execute next
    deaths        \* how much of the bound is used

upgradeVars == <<phase, disk, db, txn, at, deaths>>

Positions == [version : 1 .. Latest + 1, statement : Nat \ {0}]
TableStates == [form : 0..Latest, whole : BOOLEAN, refers : Names \union {"none"}]
Databases == [version : 0..Latest, tables : [Names -> TableStates]]

UpgradeTypeOK ==
    /\ phase \in {"down", "migrating", "serving"}
    /\ disk \in Databases /\ db \in Databases
    /\ txn \in BOOLEAN
    /\ at \in Positions
    /\ deaths \in 0..MaxDeaths

UpgradeInit ==
    /\ phase = "down"
    /\ disk \in {Clean(v) : v \in Installed}
    /\ db = disk
    /\ txn = FALSE
    /\ at = [version |-> 1, statement |-> 1]
    /\ deaths = 0

FirstOf(v) == [version |-> v, statement |-> 1]
Current == Migration[at.version][at.statement]

\* _ensure_schema: the version is read once, before the first migration.
Start ==
    /\ phase = "down"
    /\ phase' = "migrating"
    /\ at' = FirstOf(disk.version + 1)
    /\ UNCHANGED <<disk, db, txn, deaths>>

\* What SQLite refuses.
Raises(s) ==
    \/ s.do = "create" /\ db.tables[s.table] # Absent
    \/ s.do = "alter" /\ (db.tables[s.table] = Absent \/ db.tables[s.table].form >= s.form)
    \/ s.do \in {"rename", "copy", "drop"} /\ db.tables[s.table] = Absent
    \/ s.do = "rename" /\ db.tables[s.to] # Absent
    \/ s.do = "copy" /\ db.tables[s.to] = Absent

Made(s, whole) == Present(s.form, whole, RefersOf(s.table))

\* ALTER TABLE RENAME takes the foreign keys of the other tables with it.
Renamed(tables, t, u) ==
    LET moved == [tables EXCEPT ![u] = tables[t], ![t] = Absent]
    IN [n \in Names |-> IF moved[n].refers = t THEN [moved[n] EXCEPT !.refers = u]
                        ELSE moved[n]]

\* The tables after statement s.
TablesAfter(s) ==
    LET tables == db.tables IN
    CASE s.do = "ensure" /\ tables[s.table] = Absent ->
             [tables EXCEPT ![s.table] =
                Made(s, \A n \in NamesOf(s.table) : tables[n] = Absent)]
      [] s.do = "create" -> [tables EXCEPT ![s.table] = Made(s, FALSE)]
      [] s.do = "alter"  -> [tables EXCEPT ![s.table].form = s.form]
      [] s.do = "rename" -> Renamed(tables, s.table, s.to)
      [] s.do = "copy"   -> [tables EXCEPT ![s.to].whole = tables[s.table].whole]
      [] s.do = "drop"   -> [tables EXCEPT ![s.table] = Absent]
      [] OTHER           -> tables

After(s) == [version |-> IF s.do = "stamp" THEN s.form ELSE db.version,
             tables |-> TablesAfter(s)]

\* Only an INSERT opens a transaction.
OpensTransaction(s) == s.do \in {"copy", "insert", "stamp"}

\* One conn.execute of a migration, and on to the next.
ExecuteStatement ==
    /\ phase = "migrating"
    /\ at.version <= Latest
    /\ ~Raises(Current)
    /\ db' = After(Current)
    /\ txn' = (txn \/ OpensTransaction(Current))
    /\ disk' = IF txn' THEN disk ELSE db'
    /\ at' = IF at.statement = Len(Migration[at.version])
             THEN FirstOf(at.version + 1)
             ELSE [at EXCEPT !.statement = @ + 1]
    /\ UNCHANGED <<phase, deaths>>

\* The connection is closed without a commit, and the start-up fails.
Fail ==
    /\ phase = "migrating"
    /\ at.version <= Latest
    /\ Raises(Current)
    /\ phase' = "down"
    /\ db' = disk
    /\ txn' = FALSE
    /\ at' = FirstOf(1)
    /\ UNCHANGED <<disk, deaths>>

\* The one commit; load_and_apply_settings follows, and the server serves.
Commit ==
    /\ phase = "migrating"
    /\ at.version = Latest + 1
    /\ disk' = db
    /\ txn' = FALSE
    /\ phase' = "serving"
    /\ at' = FirstOf(1)
    /\ UNCHANGED <<db, deaths>>

\* The process is killed, or the machine goes down.
Die ==
    /\ phase # "down"
    /\ deaths < MaxDeaths
    /\ deaths' = deaths + 1
    /\ phase' = "down"
    /\ db' = disk
    /\ txn' = FALSE
    /\ at' = FirstOf(1)
    /\ UNCHANGED disk

StartUp == Start \/ ExecuteStatement \/ Fail \/ Commit

UpgradeNext == StartUp \/ Die

UpgradeSpec == UpgradeInit /\ [][UpgradeNext]_upgradeVars

-----------------------------------------------------------------------------
(* The properties.                                                           *)

\* No upgrade, finished or interrupted anywhere, takes a row with it: on disk
\* every table that was ever stored into is whole under one of its names
\* (copy before drop, and the one commit of _ensure_schema).
RowsSurvive ==
    \A t \in Tables : FormAt(t, disk.version) # 0 =>
        \E n \in NamesOf(t) : disk.tables[n] # Absent /\ disk.tables[n].whole

\* A server that serves has the latest schema, whichever version it came from
\* and however often the upgrade was interrupted: every table in its final
\* form, whole and under its own name, no foreign key left dangling.
ServesLatest == phase = "serving" => disk = db /\ disk = Clean(Latest)

\* A database between two versions: a table stands beside or under its temporary
\* name, or has the new column, and the schema version says that this is still to
\* be done.  Every upgrade passes through such states on its way to the commit; a
\* start that finds one has them from a death, and fails.
Stranded ==
    \/ \E n \in Leftovers : disk.tables[n] # Absent
    \/ disk.version < 6 /\ disk.tables["approval_requests"].form = 6

=============================================================================
