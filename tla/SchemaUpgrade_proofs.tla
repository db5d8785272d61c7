------------------------ MODULE SchemaUpgrade_proofs ------------------------
(* The start-up for every set of installed versions and any number of deaths *)
(* of the process: no row is lost, and a server that serves has the latest   *)
(* schema.                                                                   *)

EXTENDS SchemaUpgrade, TLAPS

-----------------------------------------------------------------------------
(* The strengthening: the migrations are a fixed program, so the tables are a *)
(* function of how far it is.                                                *)

\* The tables an installation has before migration w.
Old(w) == Clean(w - 1).tables

\* And after it.
New(w) == Clean(w).tables

\* Table t on the way to its new form, by way of table u, after j statements.
RebuildHalf(t, u, w, j) ==
    LET new == Present(w, TRUE, RefersOf(t)) IN
    CASE j = 0 -> Old(w)
      [] j = 1 -> [Old(w) EXCEPT ![u] = Present(w, FALSE, RefersOf(t))]
      [] j = 2 -> [Old(w) EXCEPT ![u] = new]
      [] j = 3 -> [Old(w) EXCEPT ![t] = Absent, ![u] = new]
      [] OTHER -> [Old(w) EXCEPT ![t] = new]

\* The same for V10, where the old table is the one that is renamed.
AsideHalf(t, u, w, j) ==
    LET new == Present(w, TRUE, RefersOf(t)) IN
    CASE j = 0 -> Old(w)
      [] j = 1 -> [Old(w) EXCEPT ![t] = Absent, ![u] = Old(w)[t]]
      [] j = 2 -> [Old(w) EXCEPT ![t] = Present(w, FALSE, RefersOf(t)), ![u] = Old(w)[t]]
      [] j = 3 -> [Old(w) EXCEPT ![t] = new, ![u] = Old(w)[t]]
      [] OTHER -> [Old(w) EXCEPT ![t] = new]

\* And for V12, where the results and their backups are rebuilt together:
\* the tables, given what stands under the two names of each.
Pair(results, oldResults, backups, oldBackups) ==
    [Old(12) EXCEPT !["execution_results"] = results,
                    !["_execution_results_v11"] = oldResults,
                    !["execution_file_backups"] = backups,
                    !["_execution_file_backups_v11"] = oldBackups]

OldResults   == Present(10, TRUE, "none")
HalfResults  == Present(12, FALSE, "none")
NewResults   == Present(12, TRUE, "none")
OldBackups   == Present(11, TRUE, "execution_results")
MovedBackups == Present(11, TRUE, "_execution_results_v11")
HalfBackups  == Present(12, FALSE, "execution_results")
NewBackups   == Present(12, TRUE, "execution_results")

PairHalf(j) ==
    CASE j = 0 -> Old(12)
      [] j = 1 -> Pair(OldResults, Absent, Absent, OldBackups)
      [] j = 2 -> Pair(Absent, OldResults, Absent, MovedBackups)
      [] j = 3 -> Pair(HalfResults, OldResults, Absent, MovedBackups)
      [] j = 4 -> Pair(NewResults, OldResults, Absent, MovedBackups)
      [] j = 5 -> Pair(NewResults, OldResults, HalfBackups, MovedBackups)
      [] j = 6 -> Pair(NewResults, OldResults, NewBackups, MovedBackups)
      [] j = 7 -> Pair(NewResults, OldResults, NewBackups, Absent)
      [] OTHER -> Pair(NewResults, Absent, NewBackups, Absent)

\* The tables after j statements of migration w.
Halfway(w, j) ==
    CASE w = 3  -> RebuildHalf("approval_requests", "approval_requests_v3", w, j)
      [] w = 10 -> AsideHalf("execution_results", "_execution_results_v9", w, j)
      [] w = 12 -> PairHalf(j)
      [] w = 17 -> RebuildHalf("skills", "skills_v17", w, j)
      [] w = 19 -> RebuildHalf("skills", "skills_v19", w, j)
      [] w = 21 -> RebuildHalf("skills", "skills_v21", w, j)
      [] w \in {2, 6} -> IF j < 2 THEN Old(w) ELSE New(w)
      [] w \in {9, 11, 14} -> IF j < 1 THEN Old(w) ELSE New(w)
      [] OTHER -> Old(w)

\* How many statements of migration w are executed before its first INSERT:
\* what they do is durable although the upgrade is not committed.
Prefix(w) ==
    CASE w \in {1, 18, 20, 22, Latest + 1} -> 0
      [] w \in {2, 6, 10} -> 2
      [] w = 12 -> 3
      [] OTHER  -> 1

HalfwayDatabase(w, j) == [version |-> w - 1, tables |-> Halfway(w, j)]

\* A death leaves a database at most its next migration's durable prefix ahead
\* of its version.
DiskInv ==
    /\ disk.version \in 0 .. Latest
    /\ \E j \in 0 .. Prefix(disk.version + 1) :
           disk = HalfwayDatabase(disk.version + 1, j)

\* In a transaction the database is where the program is; before it, it may be
\* ahead, if an earlier start came further.
MigratingInv ==
    /\ at.version \in disk.version + 1 .. Latest + 1
    /\ at.statement \in 1 .. IF at.version > Latest THEN 1 ELSE Len(Migration[at.version])
    /\ txn => db = HalfwayDatabase(at.version, at.statement - 1)
    /\ ~txn => /\ db = disk
               /\ at.version = disk.version + 1
               /\ \E j \in at.statement - 1 .. Prefix(at.version) :
                      db = HalfwayDatabase(at.version, j)

UpgradeInv ==
    /\ phase \in {"down", "migrating", "serving"}
    /\ txn \in BOOLEAN
    /\ at \in Positions
    /\ deaths \in 0 .. MaxDeaths
    /\ DiskInv
    /\ IF phase = "migrating" THEN MigratingInv
       ELSE db = disk /\ ~txn /\ at = FirstOf(1)
    /\ phase = "serving" => disk.version = Latest
    /\ deaths = 0 => IF phase = "migrating"
                     THEN db = HalfwayDatabase(at.version, at.statement - 1)
                     ELSE disk = HalfwayDatabase(disk.version + 1, 0)

-----------------------------------------------------------------------------
(* What an installation looks like.                                          *)

LEMMA NamesAre ==
    /\ Names = {"approval_requests", "execution_results", "execution_file_backups",
                "skills", "approval_requests_v3", "_execution_results_v9",
                "_execution_results_v11", "_execution_file_backups_v11",
                "skills_v17", "skills_v19", "skills_v21"}
    /\ Leftovers = {"approval_requests_v3", "_execution_results_v9",
                    "_execution_results_v11", "_execution_file_backups_v11",
                    "skills_v17", "skills_v19", "skills_v21"}
<1>1. Tables = {"approval_requests", "execution_results", "execution_file_backups", "skills"}
  BY DEF Tables
<1>2. Leftovers = {"approval_requests_v3", "_execution_results_v9",
                    "_execution_results_v11", "_execution_file_backups_v11",
                    "skills_v17", "skills_v19", "skills_v21"}
  <2>1. /\ Leftover["approval_requests"] = {"approval_requests_v3"}
        /\ Leftover["execution_results"] = {"_execution_results_v9", "_execution_results_v11"}
        /\ Leftover["execution_file_backups"] = {"_execution_file_backups_v11"}
        /\ Leftover["skills"] = {"skills_v17", "skills_v19", "skills_v21"}
    BY DEF Leftover
  <2>2. \A x : x \in Leftovers <=> \E t \in Tables : x \in Leftover[t]
    BY DEF Leftovers
  <2> QED
    BY <1>1, <2>1, <2>2
<1> QED
  BY <1>1, <1>2 DEF Names

\* A table's form is that of the last migration that changed it.
LEMMA Forms ==
    ASSUME NEW v \in 0 .. Latest
    PROVE  /\ FormAt("approval_requests", v) =
                  IF v < 2 THEN 0 ELSE IF v < 3 THEN 2 ELSE IF v < 6 THEN 3 ELSE 6
           /\ FormAt("execution_results", v) =
                  IF v < 9 THEN 0 ELSE IF v < 10 THEN 9 ELSE IF v < 12 THEN 10 ELSE 12
           /\ FormAt("execution_file_backups", v) =
                  IF v < 11 THEN 0 ELSE IF v < 12 THEN 11 ELSE 12
           /\ FormAt("skills", v) =
                  IF v < 14 THEN 0 ELSE IF v < 17 THEN 14 ELSE IF v < 19 THEN 17
                  ELSE IF v < 21 THEN 19 ELSE 21
<1> DEFINE Greatest(forms) ==
               LET reached == {f \in forms : f <= v}
               IN IF reached = {} THEN 0
                  ELSE CHOOSE f \in reached : \A g \in reached : g <= f
<1>1. ASSUME NEW forms, forms \subseteq Nat, NEW f \in forms, f <= v,
             \A g \in forms : g <= v => g <= f
      PROVE  Greatest(forms) = f
  <2> DEFINE reached == {h \in forms : h <= v}
  <2>1. f \in reached /\ \A g \in reached : g <= f
    BY <1>1
  <2>2. \A h \in reached : (\A g \in reached : g <= h) => h = f
    BY <1>1, <2>1
  <2> HIDE DEF reached
  <2>3. (CHOOSE h \in reached : \A g \in reached : g <= h) = f
    BY <2>1, <2>2
  <2> QED
    BY <2>1, <2>3 DEF reached
<1>2. ASSUME NEW forms, \A g \in forms : ~(g <= v)
      PROVE  Greatest(forms) = 0
  BY <1>2
<1> HIDE DEF Greatest
<1>3. /\ FormAt("approval_requests", v) = Greatest({2, 3, 6})
      /\ FormAt("execution_results", v) = Greatest({9, 10, 12})
      /\ FormAt("execution_file_backups", v) = Greatest({11, 12})
      /\ FormAt("skills", v) = Greatest({14, 17, 19, 21})
  BY DEF FormAt, Greatest
<1>4. Greatest({2, 3, 6}) = IF v < 2 THEN 0 ELSE IF v < 3 THEN 2 ELSE IF v < 6 THEN 3 ELSE 6
  BY <1>1, <1>2
<1>5. Greatest({9, 10, 12}) =
          IF v < 9 THEN 0 ELSE IF v < 10 THEN 9 ELSE IF v < 12 THEN 10 ELSE 12
  BY <1>1, <1>2
<1>6. Greatest({11, 12}) = IF v < 11 THEN 0 ELSE IF v < 12 THEN 11 ELSE 12
  BY <1>1, <1>2
<1>7. Greatest({14, 17, 19, 21}) =
          IF v < 14 THEN 0 ELSE IF v < 17 THEN 14 ELSE IF v < 19 THEN 17
          ELSE IF v < 21 THEN 19 ELSE 21
  BY <1>1, <1>2
<1> QED
  BY <1>3, <1>4, <1>5, <1>6, <1>7

LEMMA InstalledIs ==
    ASSUME NEW t, NEW v
    PROVE  /\ FormAt(t, v) = 0 => InstalledTable(t, v) = Absent
           /\ FormAt(t, v) # 0 => InstalledTable(t, v) = Present(FormAt(t, v), TRUE, RefersOf(t))
BY DEF InstalledTable

LEMMA CleanTables ==
    ASSUME NEW v \in 0 .. Latest
    PROVE  /\ Clean(v).version = v
           /\ Clean(v) = [version |-> v, tables |-> Clean(v).tables]
           /\ Clean(v).tables \in [Names -> TableStates]
           /\ \A t \in Tables : Clean(v).tables[t] = InstalledTable(t, v)
           /\ \A n \in Leftovers : Clean(v).tables[n] = Absent
<1>1. \A t \in Tables : FormAt(t, v) \in 0 .. Latest
  BY Forms DEF Tables, Latest
<1>2. \A t \in Tables : InstalledTable(t, v) \in TableStates
  <2>1. \A t \in Tables : RefersOf(t) \in Names \union {"none"}
    BY NamesAre DEF RefersOf
  <2> QED
    BY <1>1, <2>1 DEF InstalledTable, Absent, Present, TableStates, Latest
<1>3. Absent \in TableStates
  BY DEF Absent, TableStates, Latest
<1>4. \A n \in Leftovers : n \notin Tables
  BY NamesAre DEF Tables
<1> QED
  BY <1>2, <1>3, <1>4 DEF Clean, Names

\* A migration that changes no table leaves them as it finds them.
LEMMA SameForms ==
    ASSUME NEW w \in 1 .. Latest, w \notin {2, 3, 6, 9, 10, 11, 12, 14, 17, 19, 21}
    PROVE  Clean(w).tables = Old(w)
<1>1. \A t \in Tables : FormAt(t, w) = FormAt(t, w - 1)
  BY Forms DEF Tables, Latest
<1>2. \A t \in Tables : InstalledTable(t, w) = InstalledTable(t, w - 1)
  BY <1>1 DEF InstalledTable
<1> QED
  BY <1>2 DEF Clean, Old

-----------------------------------------------------------------------------
(* The program: the statements of every migration.                           *)

Verbs == {"ensure", "create", "alter", "rename", "copy", "drop", "insert", "stamp", "other"}
Statements == [do : Verbs, table : Names \union {"none"}, to : Names \union {"none"},
               form : Nat]

LEMMA Appending ==
    ASSUME NEW S, NEW p \in Seq(S), NEW x \in S
    PROVE  /\ Len(Append(p, x)) = Len(p) + 1
           /\ \A i \in 1 .. Len(p) : Append(p, x)[i] = p[i]
           /\ Append(p, x)[Len(p) + 1] = x
           /\ p \o <<x>> \in Seq(S)
           /\ Len(p \o <<x>>) = Len(p) + 1
           /\ \A i \in 1 .. Len(p) : (p \o <<x>>)[i] = p[i]
           /\ (p \o <<x>>)[Len(p) + 1] = x
OBVIOUS

\* What the constructors of statements make.
LEMMA StatementsAre ==
    /\ \A v \in Nat : Stamp(v) \in Statements
    /\ Other \in Statements /\ Insert \in Statements
    /\ \A t \in Names, v \in Nat : /\ Ensure(t, v) \in Statements
                                    /\ Create(t, v) \in Statements
                                    /\ AddColumn(t, v) \in Statements
    /\ \A t, u \in Names : /\ RenameTo(t, u) \in Statements
                            /\ CopyInto(t, u) \in Statements
                            /\ DropTable(t) \in Statements
BY DEF Statements, Verbs, Stamp, Other, Insert, Ensure, Create, AddColumn, RenameTo, CopyInto,
       DropTable, Statement

LEMMA RebuildIs ==
    ASSUME NEW t \in Names, NEW u \in Names, NEW v \in Nat
    PROVE  /\ Rebuild(t, u, v) \in Seq(Statements)
           /\ Len(Rebuild(t, u, v)) = 4
           /\ Rebuild(t, u, v)[1] = Create(u, v)
           /\ Rebuild(t, u, v)[2] = CopyInto(t, u)
           /\ Rebuild(t, u, v)[3] = DropTable(t)
           /\ Rebuild(t, u, v)[4] = RenameTo(u, t)
<1>1. Create(u, v) \in Statements /\ CopyInto(t, u) \in Statements
      /\ DropTable(t) \in Statements /\ RenameTo(u, t) \in Statements
  BY StatementsAre
<1> QED
  BY <1>1 DEF Rebuild

\* The migrations that rebuild nothing.
Plain == {1, 2, 4, 5, 6, 7, 8, 9, 11, 13, 14, 15, 16, 18, 20, 22, 23, 24}

LEMMA MigrationsAre ==
    /\ Migrations[1] = V1 /\ Migrations[2] = V2 /\ Migrations[3] = V3
    /\ Migrations[4] = V4 /\ Migrations[5] = V5 /\ Migrations[6] = V6
    /\ Migrations[7] = V7 /\ Migrations[8] = V8 /\ Migrations[9] = V9
    /\ Migrations[10] = V10 /\ Migrations[11] = V11 /\ Migrations[12] = V12
    /\ Migrations[13] = V13 /\ Migrations[14] = V14 /\ Migrations[15] = V15
    /\ Migrations[16] = V16 /\ Migrations[17] = V17 /\ Migrations[18] = V18
    /\ Migrations[19] = V19 /\ Migrations[20] = V20 /\ Migrations[21] = V21
    /\ Migrations[22] = V22 /\ Migrations[23] = V23 /\ Migrations[24] = V24
BY DEF Migrations

\* Every migration is a sequence of statements.
LEMMA MigrationsType ==
    \A w \in 1 .. Latest : Migrations[w] \in Seq(Statements)
<1>1. \A w \in Plain : Migrations[w] \in Seq(Statements)
  <2>1. Ensure("approval_requests", 2) \in Statements
        /\ AddColumn("approval_requests", 6) \in Statements
        /\ Ensure("execution_results", 9) \in Statements
        /\ Ensure("execution_file_backups", 11) \in Statements
        /\ Ensure("skills", 14) \in Statements
        /\ Other \in Statements /\ Insert \in Statements
    BY StatementsAre, NamesAre
  <2>2. /\ V1 \in Seq(Statements) /\ V2 \in Seq(Statements) /\ V4 \in Seq(Statements)
        /\ V5 \in Seq(Statements) /\ V6 \in Seq(Statements) /\ V7 \in Seq(Statements)
        /\ V8 \in Seq(Statements) /\ V9 \in Seq(Statements) /\ V11 \in Seq(Statements)
    BY <2>1 DEF V1, V2, V4, V5, V6, V7, V8, V9, V11
  <2>3. /\ V13 \in Seq(Statements) /\ V14 \in Seq(Statements) /\ V15 \in Seq(Statements)
        /\ V16 \in Seq(Statements) /\ V18 \in Seq(Statements) /\ V20 \in Seq(Statements)
        /\ V22 \in Seq(Statements) /\ V23 \in Seq(Statements) /\ V24 \in Seq(Statements)
    BY <2>1 DEF V13, V14, V15, V16, V18, V20, V22, V23, V24
  <2> QED
    BY <2>2, <2>3, MigrationsAre DEF Plain
<1>2. V3 \in Seq(Statements) /\ V17 \in Seq(Statements)
  <2>1. /\ "approval_requests" \in Names /\ "approval_requests_v3" \in Names
        /\ "skills" \in Names /\ "skills_v17" \in Names
    BY NamesAre
  <2>2. /\ Rebuild("approval_requests", "approval_requests_v3", 3) \in Seq(Statements)
        /\ Rebuild("skills", "skills_v17", 17) \in Seq(Statements)
    BY <2>1, RebuildIs
  <2> QED
    BY <2>2 DEF V3, V17
<1>3. V19 \in Seq(Statements) /\ V21 \in Seq(Statements)
  <2>1. "skills" \in Names /\ "skills_v19" \in Names /\ "skills_v21" \in Names
    BY NamesAre
  <2>2. /\ Rebuild("skills", "skills_v19", 19) \in Seq(Statements)
        /\ Rebuild("skills", "skills_v21", 21) \in Seq(Statements)
        /\ Insert \in Statements
    BY <2>1, RebuildIs, StatementsAre
  <2> QED
    BY <2>2, Appending DEF V19, V21
<1>4. V10 \in Seq(Statements)
  <2>1. /\ RenameTo("execution_results", "_execution_results_v9") \in Statements
        /\ Create("execution_results", 10) \in Statements
        /\ CopyInto("_execution_results_v9", "execution_results") \in Statements
        /\ DropTable("_execution_results_v9") \in Statements
    BY StatementsAre, NamesAre
  <2> QED
    BY <2>1 DEF V10, RebuildAside
<1>5. V12 \in Seq(Statements)
  <2>1. /\ RenameTo("execution_file_backups", "_execution_file_backups_v11") \in Statements
        /\ RenameTo("execution_results", "_execution_results_v11") \in Statements
        /\ Create("execution_results", 12) \in Statements
        /\ CopyInto("_execution_results_v11", "execution_results") \in Statements
        /\ Create("execution_file_backups", 12) \in Statements
        /\ CopyInto("_execution_file_backups_v11", "execution_file_backups") \in Statements
        /\ DropTable("_execution_file_backups_v11") \in Statements
        /\ DropTable("_execution_results_v11") \in Statements
    BY StatementsAre, NamesAre
  <2> QED
    BY <2>1 DEF V12
<1>6. \A w \in 1 .. Latest : w \in Plain \/ w \in {3, 10, 12, 17, 19, 21}
  BY DEF Plain, Latest
<1> QED
  BY <1>1, <1>2, <1>3, <1>4, <1>5, <1>6, MigrationsAre

\* A migration is its function's statements and the stamp.
LEMMA Stamped ==
    ASSUME NEW w \in 1 .. Latest
    PROVE  /\ Len(Migrations[w]) \in Nat
           /\ Len(Migration[w]) = Len(Migrations[w]) + 1
           /\ \A i \in 1 .. Len(Migrations[w]) : Migration[w][i] = Migrations[w][i]
           /\ Migration[w][Len(Migrations[w]) + 1] = Stamp(w)
<1>1. Migrations[w] \in Seq(Statements)
  BY MigrationsType
<1>2. Stamp(w) \in Statements
  BY StatementsAre DEF Latest
<1>3. Migration[w] = Append(Migrations[w], Stamp(w))
  BY DEF Migration
<1> QED
  BY <1>1, <1>2, <1>3, Appending

\* The statements of every migration, one by one.
LEMMA Program ==
    /\ Len(V1) = 0
    /\ Len(V2) = 2 /\ V2[1] = Other /\ V2[2] = Ensure("approval_requests", 2)
    /\ \A V \in {V4, V7, V8, V13, V16, V23, V24} : Len(V) = 1 /\ V[1] = Other
    /\ \A V \in {V5, V15} : Len(V) = 2 /\ V[1] = Other /\ V[2] = Insert
    /\ Len(V6) = 2 /\ V6[1] = Other /\ V6[2] = AddColumn("approval_requests", 6)
    /\ Len(V9) = 1 /\ V9[1] = Ensure("execution_results", 9)
    /\ Len(V11) = 1 /\ V11[1] = Ensure("execution_file_backups", 11)
    /\ Len(V14) = 1 /\ V14[1] = Ensure("skills", 14)
    /\ \A V \in {V18, V20, V22} : Len(V) = 1 /\ V[1] = Insert
BY DEF V1, V2, V4, V5, V6, V7, V8, V9, V11, V13, V14, V15, V16, V18, V20, V22, V23, V24

LEMMA RebuildProgram ==
    ASSUME NEW w \in {3, 17, 19, 21}, NEW t, NEW u,
           \/ w = 3 /\ t = "approval_requests" /\ u = "approval_requests_v3"
           \/ w = 17 /\ t = "skills" /\ u = "skills_v17"
           \/ w = 19 /\ t = "skills" /\ u = "skills_v19"
           \/ w = 21 /\ t = "skills" /\ u = "skills_v21"
    PROVE  /\ Len(Migrations[w]) = IF w < 19 THEN 4 ELSE 5
           /\ Migrations[w][1] = Create(u, w)
           /\ Migrations[w][2] = CopyInto(t, u)
           /\ Migrations[w][3] = DropTable(t)
           /\ Migrations[w][4] = RenameTo(u, t)
           /\ w > 17 => Migrations[w][5] = Insert
<1>1. t \in Names /\ u \in Names
  BY NamesAre
<1> DEFINE r == Rebuild(t, u, w)
<1>2. /\ r \in Seq(Statements) /\ Len(r) = 4 /\ r[1] = Create(u, w)
      /\ r[2] = CopyInto(t, u) /\ r[3] = DropTable(t) /\ r[4] = RenameTo(u, t)
  BY <1>1, RebuildIs
<1>3. /\ w \in {3, 17} => Migrations[w] = r
      /\ w \in {19, 21} => Migrations[w] = r \o <<Insert>>
  <2>1. CASE w = 3
    BY <2>1, MigrationsAre DEF V3
  <2>2. CASE w = 17
    BY <2>2, MigrationsAre DEF V17
  <2>3. CASE w = 19
    <3>1. t = "skills" /\ u = "skills_v19"
      BY <2>3
    <3>2. V19 = r \o <<Insert>>
      BY <2>3, <3>1 DEF V19
    <3> QED
      BY <2>3, <3>2, MigrationsAre
  <2>4. CASE w = 21
    <3>1. t = "skills" /\ u = "skills_v21"
      BY <2>4
    <3>2. V21 = r \o <<Insert>>
      BY <2>4, <3>1 DEF V21
    <3> QED
      BY <2>4, <3>2, MigrationsAre
  <2> QED
    BY <2>1, <2>2, <2>3, <2>4
<1> HIDE DEF r
<1>4. Insert \in Statements
  BY StatementsAre
<1>5. /\ Len(r \o <<Insert>>) = 5 /\ (r \o <<Insert>>)[5] = Insert
      /\ \A i \in 1 .. 4 : (r \o <<Insert>>)[i] = r[i]
  <2>1. /\ Len(r \o <<Insert>>) = Len(r) + 1 /\ (r \o <<Insert>>)[Len(r) + 1] = Insert
        /\ \A i \in 1 .. Len(r) : (r \o <<Insert>>)[i] = r[i]
    <3>1. r \in Seq(Statements)
      BY <1>2
    <3> QED
      BY <3>1, <1>4, Appending
  <2>2. Len(r) = 4
    BY <1>2
  <2> QED
    BY <2>1, <2>2
<1>6. CASE w \in {3, 17}
  <2>1. Migrations[w] = r
    BY <1>3, <1>6
  <2>2. w < 19 /\ ~(w > 17)
    BY <1>6
  <2> QED
    BY <1>2, <2>1, <2>2
<1>7. CASE w \in {19, 21}
  <2>1. Migrations[w] = r \o <<Insert>>
    BY <1>3, <1>7
  <2>2. /\ (r \o <<Insert>>)[1] = r[1] /\ (r \o <<Insert>>)[2] = r[2]
        /\ (r \o <<Insert>>)[3] = r[3] /\ (r \o <<Insert>>)[4] = r[4]
    BY <1>5
  <2> QED
    BY <1>2, <1>5, <1>7, <2>1, <2>2
<1> QED
  BY <1>6, <1>7

LEMMA AsideProgram ==
    LET t == "execution_results"  u == "_execution_results_v9" IN
    /\ Len(V10) = 4
    /\ V10[1] = RenameTo(t, u) /\ V10[2] = Create(t, 10)
    /\ V10[3] = CopyInto(u, t) /\ V10[4] = DropTable(u)
BY DEF V10, RebuildAside

LEMMA PairProgram ==
    LET t == "execution_results"        u == "_execution_results_v11"
        b == "execution_file_backups"   c == "_execution_file_backups_v11"
    IN /\ Len(V12) = 8
       /\ V12[1] = RenameTo(b, c) /\ V12[2] = RenameTo(t, u)
       /\ V12[3] = Create(t, 12) /\ V12[4] = CopyInto(u, t)
       /\ V12[5] = Create(b, 12) /\ V12[6] = CopyInto(c, b)
       /\ V12[7] = DropTable(c) /\ V12[8] = DropTable(u)
BY DEF V12

-----------------------------------------------------------------------------
(* What each kind of statement does to a database.                           *)

LEMMA Presence ==
    \A x, g, r : x = Present(g, TRUE, r) => x.form = g /\ x.whole = TRUE /\ x.refers = r
BY DEF Present

LEMMA NewRow ==
    \A g, r : /\ Present(g, TRUE, r).refers = r /\ Present(g, TRUE, r).form = g
             /\ [Present(g, FALSE, r) EXCEPT !.whole = TRUE] = Present(g, TRUE, r)
<1> DEFINE yes == TRUE
           no == FALSE
<1>1. \A g, r : Present(g, TRUE, r).refers = r /\ Present(g, TRUE, r).form = g
  BY DEF Present
<1>2. \A g, r : [Present(g, no, r) EXCEPT !.whole = yes] = Present(g, yes, r)
  <2> HIDE DEF yes, no
  <2> QED
    BY DEF Present
<1>3. \A g, r : [Present(g, FALSE, r) EXCEPT !.whole = TRUE] = Present(g, TRUE, r)
  BY <1>2
<1> QED
  BY <1>1, <1>3

LEMMA NotAbsent ==
    \A g, r : g # 0 => Present(g, TRUE, r) # Absent /\ Present(g, FALSE, r) # Absent
BY DEF Present, Absent

LEMMA AbsentIs == Absent.form = 0 /\ Absent.refers = "none"
BY DEF Absent

\* The changes of one field.
\* Statement s is accepted, with these tables as its result.
Accepts(s, tables) ==
    ~Raises(s) /\ After(s) = [version |-> db.version, tables |-> tables]

LEMMA DataEffects ==
    /\ Accepts(Other, db.tables) /\ Accepts(Insert, db.tables)
    /\ \A x : ~Raises(Stamp(x)) /\ After(Stamp(x)) = [version |-> x, tables |-> db.tables]
<1>1. Other.do = "other" /\ Insert.do = "insert"
  BY DEF Other, Insert, Statement
<1>2. \A s : s.do \in {"other", "insert"} => Accepts(s, db.tables)
  BY DEF Accepts, Raises, After, TablesAfter
<1>3. \A x : ~Raises(Stamp(x)) /\ After(Stamp(x)) = [version |-> x, tables |-> db.tables]
  BY DEF Stamp, Raises, After, TablesAfter, Statement
<1> QED
  BY <1>1, <1>2, <1>3

\* The statements that open a transaction are those that write rows.
LEMMA Transactions ==
    /\ ~OpensTransaction(Other) /\ OpensTransaction(Insert)
    /\ \A x : OpensTransaction(Stamp(x))
    /\ \A t, x : /\ ~OpensTransaction(Ensure(t, x))
                 /\ ~OpensTransaction(Create(t, x))
                 /\ ~OpensTransaction(AddColumn(t, x))
    /\ \A t, u : ~OpensTransaction(RenameTo(t, u)) /\ OpensTransaction(CopyInto(t, u))
BY DEF OpensTransaction, Statement, Other, Insert, Stamp, Ensure, Create, AddColumn,
       RenameTo, CopyInto

\* Table t stands under none of its names.
NotThere(t) == db.tables[t] = Absent /\ \A n \in NamesOf(t) : db.tables[n] = Absent

LEMMA EnsureFirst ==
    ASSUME NEW t, NEW x, NotThere(t)
    PROVE  Accepts(Ensure(t, x), [db.tables EXCEPT ![t] = Present(x, TRUE, RefersOf(t))])
<1>1. Ensure(t, x).do = "ensure" /\ Ensure(t, x).table = t /\ Ensure(t, x).form = x
  BY DEF Ensure, Statement
<1>2. (\A n \in NamesOf(t) : db.tables[n] = Absent) = TRUE
  BY DEF NotThere
<1>3. TablesAfter(Ensure(t, x)) = [db.tables EXCEPT ![t] = Made(Ensure(t, x), TRUE)]
  BY <1>1, <1>2 DEF TablesAfter, NotThere
<1> QED
  BY <1>1, <1>3 DEF Accepts, Raises, After, Made

LEMMA EnsureAgain ==
    ASSUME NEW t, NEW x, db.tables[t] # Absent
    PROVE  Accepts(Ensure(t, x), db.tables)
BY DEF Accepts, Raises, After, TablesAfter, Ensure, Statement

LEMMA CreateNew ==
    ASSUME NEW t, NEW x, db.tables[t] = Absent
    PROVE  Accepts(Create(t, x), [db.tables EXCEPT ![t] = Present(x, FALSE, RefersOf(t))])
BY DEF Accepts, Raises, After, TablesAfter, Create, Statement, Made

LEMMA CreateAgain ==
    ASSUME NEW t, NEW x, db.tables[t] # Absent
    PROVE  Raises(Create(t, x))
BY DEF Raises, Create, Statement

Older(g, x) == g # 0 /\ ~(g >= x)

LEMMA AddColumnEffect ==
    ASSUME NEW t, NEW x, NEW g, NEW r, Older(g, x), db.tables[t] = Present(g, TRUE, r)
    PROVE  Accepts(AddColumn(t, x), [db.tables EXCEPT ![t] = Present(x, TRUE, r)])
<1> DEFINE yes == TRUE
           f == db.tables
<1>1. f[t] = Present(g, yes, r)
  OBVIOUS
<1>2. f[t] # Absent
  BY NotAbsent DEF Older
<1>3. f[t].form = g
  <2>1. \A x1, r1 : x1 = Present(g, TRUE, r1) => x1.form = g
    BY DEF Present
  <2>2. db.tables[t] = Present(g, TRUE, r)
    OBVIOUS
  <2> QED
    BY <2>1, <2>2, Zenon
<1>4. TablesAfter(AddColumn(t, x)) = [f EXCEPT ![t] = [f[t] EXCEPT !.form = x]]
  BY DEF TablesAfter, AddColumn, Statement
<1>5. ~Raises(AddColumn(t, x))
  <2> HIDE DEF yes
  <2> QED
    BY <1>2, <1>3 DEF Raises, AddColumn, Statement, Older
<1> HIDE DEF f
<1>6. [f[t] EXCEPT !.form = x] = Present(x, yes, r)
  <2> HIDE DEF yes
  <2> QED
    BY <1>1 DEF Present
<1>7. [f EXCEPT ![t] = [f[t] EXCEPT !.form = x]] = [f EXCEPT ![t] = Present(x, yes, r)]
  <2> HIDE DEF yes
  <2> QED
    BY <1>6
<1> HIDE DEF yes
<1>8. Accepts(AddColumn(t, x), [db.tables EXCEPT ![t] = Present(x, yes, r)])
  <2>1. TablesAfter(AddColumn(t, x)) = [db.tables EXCEPT ![t] = Present(x, yes, r)]
    BY <1>4, <1>7 DEF f
  <2>2. AddColumn(t, x).do = "alter"
    BY DEF AddColumn, Statement
  <2> QED
    BY <1>5, <2>1, <2>2 DEF Accepts, After
<1> QED
  BY <1>8 DEF yes

LEMMA AddColumnAgain ==
    ASSUME NEW t, NEW x \in Nat, NEW r, db.tables[t] = Present(x, TRUE, r)
    PROVE  Raises(AddColumn(t, x))
<1> DEFINE row == db.tables[t]
<1>1. row.form = x
  <2>1. row = Present(x, TRUE, r)
    OBVIOUS
  <2> HIDE DEF row
  <2>2. row.form = x
    BY <2>1 DEF Present
  <2> QED
    BY <2>2
<1>2. x >= x
  OBVIOUS
<1>3. db.tables[t].form >= x
  BY <1>1, <1>2, Zenon
<1> QED
  BY <1>3 DEF Raises, AddColumn, Statement

LEMMA RenameEffects ==
    ASSUME NEW t, NEW u
    PROVE  /\ db.tables[t] = Absent \/ db.tables[u] # Absent => Raises(RenameTo(t, u))
           /\ db.tables[t] # Absent /\ db.tables[u] = Absent =>
                Accepts(RenameTo(t, u), Renamed(db.tables, t, u))
BY DEF Accepts, Raises, After, TablesAfter, RenameTo, Statement

LEMMA CopyEffects ==
    ASSUME NEW t, NEW u, db.tables[t] # Absent, db.tables[u] # Absent
    PROVE  Accepts(CopyInto(t, u),
                   [db.tables EXCEPT
                       ![u] = [db.tables[u] EXCEPT !.whole = db.tables[t].whole]])
BY DEF Accepts, Raises, After, TablesAfter, CopyInto, Statement

LEMMA DropEffects ==
    ASSUME NEW t, db.tables[t] # Absent
    PROVE  Accepts(DropTable(t), [db.tables EXCEPT ![t] = Absent])
BY DEF Accepts, Raises, After, TablesAfter, DropTable, Statement

-----------------------------------------------------------------------------
(* The tables on the way.                                                    *)

\* Statement s takes database d to database e; SQLite refuses s on database d.
Takes(s, d, e) == db = d => ~Raises(s) /\ After(s) = e
RaisesOn(s, d) == db = d => Raises(s)

At(w, tables) == [version |-> w - 1, tables |-> tables]

LEMMA OldTables ==
    ASSUME NEW w \in 1 .. Latest + 1
    PROVE  /\ Old(w) \in [Names -> TableStates]
           /\ \A t \in Tables : Old(w)[t] = InstalledTable(t, w - 1)
           /\ \A n \in Leftovers : Old(w)[n] = Absent
           /\ \A n \in Names : Old(w)[n].refers =
                IF n = "execution_file_backups" /\ w > 11 THEN "execution_results" ELSE "none"
<1>1. w - 1 \in 0 .. Latest
  BY DEF Latest
<1>2. /\ Old(w) \in [Names -> TableStates]
      /\ \A t \in Tables : Old(w)[t] = InstalledTable(t, w - 1)
      /\ \A n \in Leftovers : Old(w)[n] = Absent
  BY <1>1, CleanTables DEF Old
<1>3. FormAt("execution_file_backups", w - 1) = 0 <=> w - 1 < 11
  BY <1>1, Forms
<1>4. ASSUME NEW t \in Tables
      PROVE  InstalledTable(t, w - 1).refers =
                IF t = "execution_file_backups" /\ w > 11 THEN "execution_results" ELSE "none"
  <2>1. Absent.refers = "none"
    BY DEF Absent
  <2>2. \A g : Present(g, TRUE, RefersOf(t)).refers = RefersOf(t)
    BY DEF Present
  <2>3. CASE t = "execution_file_backups"
    <3>1. CASE w > 11
      <4>1. FormAt(t, w - 1) # 0
        BY <1>1, <1>3, <2>3, <3>1 DEF Latest
      <4> QED
        BY <2>2, <2>3, <3>1, <4>1 DEF InstalledTable, RefersOf
    <3>2. CASE ~(w > 11)
      <4>1. FormAt(t, w - 1) = 0
        BY <1>1, <1>3, <2>3, <3>2 DEF Latest
      <4> QED
        BY <2>1, <3>2, <4>1 DEF InstalledTable
    <3> QED
      BY <3>1, <3>2
  <2>4. CASE t # "execution_file_backups"
    BY <2>1, <2>2, <2>4 DEF InstalledTable, RefersOf
  <2> QED
    BY <2>3, <2>4
<1>5. Absent.refers = "none" /\ "execution_file_backups" \notin Leftovers
  BY NamesAre DEF Absent
<1>6. \A n \in Names : n \in Tables \/ n \in Leftovers
  BY DEF Names
<1> QED
  BY <1>2, <1>4, <1>5, <1>6

\* No foreign key names table t.
NotReferred(tables, t) == \A n \in Names : tables[n].refers # t

\* What the rebuilding of t through u in migration w finds ...
RebuildFrom(w, t, u) ==
    /\ w \in 1 .. Latest /\ t \in Names /\ u \in Names /\ t # u
    /\ RefersOf(u) = RefersOf(t) /\ RefersOf(t) # u
    /\ \E g \in Nat \ {0} : Old(w)[t] = Present(g, TRUE, RefersOf(t))
    /\ Old(w)[u] = Absent
    /\ NotReferred(Old(w), u)

\* ... and its five states.
RebuildTakes(w, t, u) ==
    LET H(j) == At(w, RebuildHalf(t, u, w, j)) IN
    /\ Takes(Create(u, w), H(0), H(1))
    /\ Takes(CopyInto(t, u), H(1), H(2))
    /\ Takes(DropTable(t), H(2), H(3))
    /\ Takes(RenameTo(u, t), H(3), H(4))
    /\ RebuildHalf(t, u, w, 0) = Old(w)
    /\ RebuildHalf(t, u, w, 4) = RebuildHalf(t, u, w, 5)
    /\ RebuildHalf(t, u, w, 4) = [Old(w) EXCEPT ![t] = Present(w, TRUE, RefersOf(t))]
    /\ RaisesOn(Create(u, w), H(1))

\* The rebuilding of V3, V17, V19 and V21.
LEMMA Rebuilding ==
    ASSUME NEW w, NEW t, NEW u, RebuildFrom(w, t, u)
    PROVE  RebuildTakes(w, t, u)
<1> DEFINE F(j) == RebuildHalf(t, u, w, j)
           new(b) == Present(w, b, RefersOf(t))
<1>0. /\ w \in 1 .. Latest /\ t \in Names /\ u \in Names /\ t # u
      /\ RefersOf(u) = RefersOf(t) /\ RefersOf(t) # u
      /\ Old(w)[u] = Absent /\ NotReferred(Old(w), u)
  BY DEF RebuildFrom
<1>g. PICK g \in Nat \ {0} : Old(w)[t] = Present(g, TRUE, RefersOf(t))
  BY DEF RebuildFrom
<1>1. Old(w) \in [Names -> TableStates] /\ w # 0
  BY <1>0, OldTables DEF Latest
<1>2. /\ F(0) = Old(w)
      /\ F(1) = [Old(w) EXCEPT ![u] = new(FALSE)]
      /\ F(2) = [Old(w) EXCEPT ![u] = new(TRUE)]
      /\ F(3) = [Old(w) EXCEPT ![t] = Absent, ![u] = new(TRUE)]
      /\ F(4) = [Old(w) EXCEPT ![t] = new(TRUE)]
      /\ F(5) = F(4)
  BY DEF RebuildHalf
<1>3. /\ Old(w)[t] # Absent /\ Old(w)[t].whole = TRUE
      /\ new(TRUE) # Absent /\ new(FALSE) # Absent /\ new(TRUE).refers = RefersOf(t)
      /\ [new(FALSE) EXCEPT !.whole = TRUE] = new(TRUE)
  <2>1. Old(w)[t] # Absent
    BY <1>g, NotAbsent
  <2>2. Old(w)[t].whole = TRUE
    BY <1>g, Presence
  <2>3. new(TRUE) # Absent /\ new(FALSE) # Absent
    BY <1>1, NotAbsent
  <2>4. new(TRUE).refers = RefersOf(t)
    BY NewRow
  <2>5. [new(FALSE) EXCEPT !.whole = TRUE] = new(TRUE)
    BY NewRow
  <2> QED
    BY <2>1, <2>2, <2>3, <2>4, <2>5
<1>4. F(4) = [n \in Names |-> F(4)[n]]
  BY <1>1, <1>2
<1>5. /\ F(1)[t] = Old(w)[t] /\ F(1)[u] = new(FALSE) /\ F(2)[t] = Old(w)[t]
      /\ F(3)[t] = Absent /\ F(3)[u] = new(TRUE)
      /\ [F(1) EXCEPT ![u] = new(TRUE)] = F(2)
      /\ [F(2) EXCEPT ![t] = Absent] = F(3)
      /\ [F(3) EXCEPT ![t] = new(TRUE), ![u] = Absent] = F(4)
  <2> HIDE DEF F, new
  <2> QED
    BY <1>0, <1>1, <1>2
<1>6. NotReferred(F(4), u)
  <2> HIDE DEF F, new
  <2> QED
    BY <1>0, <1>1, <1>2, <1>3 DEF NotReferred
<1> HIDE DEF F, new
<1>7. Takes(Create(u, w), At(w, F(0)), At(w, F(1)))
  <2> SUFFICES ASSUME db.version = w - 1, db.tables = F(0)
               PROVE  Accepts(Create(u, w), F(1))
    BY DEF Takes, At, Accepts
  <2>1. db.tables[u] = Absent /\ [db.tables EXCEPT ![u] = Present(w, FALSE, RefersOf(u))] = F(1)
    BY <1>0, <1>2 DEF new
  <2>2. Accepts(Create(u, w), [db.tables EXCEPT ![u] = Present(w, FALSE, RefersOf(u))])
    BY <2>1, CreateNew
  <2> QED
    BY <2>1, <2>2
<1>8. Takes(CopyInto(t, u), At(w, F(1)), At(w, F(2)))
  <2> SUFFICES ASSUME db.version = w - 1, db.tables = F(1)
               PROVE  Accepts(CopyInto(t, u), F(2))
    BY DEF Takes, At, Accepts
  <2>1. db.tables[t] # Absent /\ db.tables[u] # Absent
    BY <1>3, <1>5
  <2>2. [db.tables[u] EXCEPT !.whole = db.tables[t].whole] = new(TRUE)
    BY <1>3, <1>5
  <2>3. [db.tables EXCEPT ![u] = [db.tables[u] EXCEPT !.whole = db.tables[t].whole]] = F(2)
    BY <1>5, <2>2
  <2> QED
    BY <2>1, <2>3, CopyEffects
<1>9. Takes(DropTable(t), At(w, F(2)), At(w, F(3)))
  <2> SUFFICES ASSUME db.version = w - 1, db.tables = F(2)
               PROVE  Accepts(DropTable(t), F(3))
    BY DEF Takes, At, Accepts
  <2>1. db.tables[t] # Absent /\ [db.tables EXCEPT ![t] = Absent] = F(3)
    BY <1>3, <1>5
  <2> QED
    BY <2>1, DropEffects
<1>10. Takes(RenameTo(u, t), At(w, F(3)), At(w, F(4)))
  <2> SUFFICES ASSUME db.version = w - 1, db.tables = F(3)
               PROVE  Accepts(RenameTo(u, t), F(4))
    BY DEF Takes, At, Accepts
  <2>1. Renamed(F(3), u, t) = F(4)
    <3>1. [F(3) EXCEPT ![t] = F(3)[u], ![u] = Absent] = F(4)
      BY <1>5
    <3>2. Renamed(F(3), u, t) = [n \in Names |-> F(4)[n]]
      BY <1>6, <3>1 DEF Renamed, NotReferred
    <3> QED
      BY <3>2, <1>4
  <2>2. db.tables[u] # Absent /\ db.tables[t] = Absent /\ Renamed(db.tables, u, t) = F(4)
    BY <1>3, <1>5, <2>1
  <2> QED
    BY <2>2, RenameEffects
<1>11. RaisesOn(Create(u, w), At(w, F(1)))
  <2> SUFFICES ASSUME db.tables = F(1) PROVE Raises(Create(u, w))
    BY DEF RaisesOn, At
  <2> QED
    BY <1>3, <1>5, CreateAgain
<1>12. F(0) = Old(w) /\ F(4) = F(5) /\ F(4) = [Old(w) EXCEPT ![t] = Present(w, TRUE, RefersOf(t))]
  BY <1>2 DEF new
<1> QED
  BY <1>7, <1>8, <1>9, <1>10, <1>11, <1>12 DEF F, RebuildTakes

\* The migrations that bring one table to a new form.
ChangesOne(t, w) ==
    \/ t = "approval_requests" /\ w \in {2, 3, 6}
    \/ t = "execution_results" /\ w \in {9, 10}
    \/ t = "execution_file_backups" /\ w = 11
    \/ t = "skills" /\ w \in {14, 17, 19, 21}

\* And the first form of a table among them.
First(w) == w \in {2, 9, 11, 14}

LEMMA OneChange ==
    ASSUME NEW t, NEW w, ChangesOne(t, w)
    PROVE  /\ t \in Tables /\ w \in 1 .. Latest
           /\ New(w) = [Old(w) EXCEPT ![t] = Present(w, TRUE, RefersOf(t))]
           /\ First(w) => Old(w)[t] = Absent
           /\ ~First(w) =>
                \E g \in 1 .. w - 1 : Old(w)[t] = Present(g, TRUE, RefersOf(t))
<1>1. t \in Tables /\ w \in 1 .. Latest
  BY DEF ChangesOne, Tables, Latest
<1>2. w \in 0 .. Latest /\ w - 1 \in 0 .. Latest
  BY <1>1 DEF Latest
<1>3. /\ FormAt(t, w) = w
      /\ \A x \in Tables : x # t => FormAt(x, w) = FormAt(x, w - 1)
      /\ First(w) => FormAt(t, w - 1) = 0
      /\ ~First(w) => FormAt(t, w - 1) \in 1 .. w - 1
  <2>1. CASE t = "approval_requests" /\ w \in {2, 3, 6}
    BY <1>2, <2>1, Forms DEF Tables, First
  <2>2. CASE t = "execution_results" /\ w \in {9, 10}
    BY <1>2, <2>2, Forms DEF Tables, First
  <2>3. CASE t = "execution_file_backups" /\ w = 11
    BY <1>2, <2>3, Forms DEF Tables, First
  <2>4. CASE t = "skills" /\ w \in {14, 17, 19, 21}
    BY <1>2, <2>4, Forms DEF Tables, First
  <2> QED
    BY <2>1, <2>2, <2>3, <2>4 DEF ChangesOne
<1>4. InstalledTable(t, w) = Present(w, TRUE, RefersOf(t))
  <2>1. FormAt(t, w) # 0
    BY <1>1, <1>3
  <2> QED
    BY <1>3, <2>1, InstalledIs
<1>5. \A x \in Tables : x # t => InstalledTable(x, w) = InstalledTable(x, w - 1)
  BY <1>3 DEF InstalledTable
<1>6. Old(w) = [n \in Names |-> IF n \in Tables THEN InstalledTable(n, w - 1) ELSE Absent]
  BY DEF Old, Clean
<1>7. New(w) = [n \in Names |-> IF n \in Tables THEN InstalledTable(n, w) ELSE Absent]
  BY DEF New, Clean
<1>8. t \in Names
  BY <1>1 DEF Names
<1>9. New(w) = [Old(w) EXCEPT ![t] = Present(w, TRUE, RefersOf(t))]
  BY <1>1, <1>4, <1>5, <1>6, <1>7, <1>8
<1>10. Old(w)[t] = InstalledTable(t, w - 1)
  BY <1>1, <1>6, <1>8
<1>11. First(w) => Old(w)[t] = Absent
  BY <1>3, <1>10, InstalledIs
<1>12. ASSUME ~First(w)
       PROVE  \E g \in 1 .. w - 1 : Old(w)[t] = Present(g, TRUE, RefersOf(t))
  <2>1. FormAt(t, w - 1) \in 1 .. w - 1
    BY <1>3, <1>12
  <2>2. Old(w)[t] = Present(FormAt(t, w - 1), TRUE, RefersOf(t))
    <3>1. FormAt(t, w - 1) # 0
      BY <1>1, <2>1
    <3> DEFINE v == w - 1
    <3> HIDE DEF v
    <3>2. InstalledTable(t, v) = Present(FormAt(t, v), TRUE, RefersOf(t))
      BY <3>1, InstalledIs DEF v
    <3> QED
      BY <1>10, <3>2 DEF v
  <2> QED
    BY <2>1, <2>2
<1> QED
  BY <1>1, <1>9, <1>11, <1>12

LEMMA PairChange ==
    New(12) = Pair(Present(12, TRUE, "none"), Absent,
                            Present(12, TRUE, "execution_results"), Absent)
<1>1. 12 \in 0 .. Latest /\ 11 \in 0 .. Latest /\ 12 - 1 = 11
  BY DEF Latest
<1>2. /\ FormAt("execution_results", 12) = 12 /\ FormAt("execution_file_backups", 12) = 12
      /\ FormAt("approval_requests", 12) = FormAt("approval_requests", 11)
      /\ FormAt("skills", 12) = FormAt("skills", 11)
  BY <1>1, Forms
<1>3. /\ InstalledTable("execution_results", 12) = Present(12, TRUE, "none")
      /\ InstalledTable("execution_file_backups", 12) = Present(12, TRUE, "execution_results")
  <2>1. RefersOf("execution_results") = "none"
        /\ RefersOf("execution_file_backups") = "execution_results"
    BY DEF RefersOf
  <2>2. /\ FormAt("execution_results", 12) # 0
        /\ FormAt("execution_file_backups", 12) # 0
    BY <1>2
  <2>3. /\ InstalledTable("execution_results", 12) = Present(12, TRUE, "none")
    BY <1>2, <2>1, <2>2, InstalledIs
  <2>4. InstalledTable("execution_file_backups", 12) = Present(12, TRUE, "execution_results")
    BY <1>2, <2>1, <2>2, InstalledIs
  <2> QED
    BY <2>3, <2>4
<1>4. /\ InstalledTable("approval_requests", 12) = InstalledTable("approval_requests", 11)
      /\ InstalledTable("skills", 12) = InstalledTable("skills", 11)
  BY <1>2 DEF InstalledTable, RefersOf
<1>5. Old(12) = [n \in Names |-> IF n \in Tables THEN InstalledTable(n, 11) ELSE Absent]
  BY <1>1 DEF Old, Clean
<1>6. New(12) = [n \in Names |-> IF n \in Tables THEN InstalledTable(n, 12) ELSE Absent]
  BY DEF New, Clean
<1>7. /\ "_execution_results_v11" \in Names \ Tables
      /\ "_execution_file_backups_v11" \in Names \ Tables
      /\ "execution_results" \in Names \intersect Tables
      /\ "execution_file_backups" \in Names \intersect Tables
  BY NamesAre DEF Tables
<1>8. \A n \in Tables : n \in {"approval_requests", "skills", "execution_results",
                             "execution_file_backups"}
  BY DEF Tables
<1> DEFINE results == InstalledTable("execution_results", 12)
           backups == InstalledTable("execution_file_backups", 12)
<1>9. New(12) = Pair(results, Absent, backups, Absent)
  <2> HIDE DEF results, backups
  <2>1. Pair(results, Absent, backups, Absent) =
            [n \in Names |-> CASE n = "execution_results" -> results
                              [] n = "_execution_results_v11" -> Absent
                              [] n = "execution_file_backups" -> backups
                              [] n = "_execution_file_backups_v11" -> Absent
                              [] OTHER -> Old(12)[n]]
    BY <1>5, <1>7 DEF Pair
  <2>2. ASSUME NEW n \in Names
        PROVE  New(12)[n] = Pair(results, Absent, backups, Absent)[n]
    <3>1. CASE n \in {"approval_requests", "skills"}
      BY <1>4, <1>5, <1>6, <2>1, <3>1 DEF Tables
    <3>2. CASE n \in {"execution_results", "execution_file_backups"}
      BY <1>6, <1>7, <2>1, <3>2 DEF results, backups
    <3>3. CASE n \notin Tables
      BY <1>5, <1>6, <1>7, <2>1, <3>3
    <3> QED
      BY <1>8, <3>1, <3>2, <3>3
  <2> QED
    BY <1>6, <2>1, <2>2
<1> QED
  BY <1>3, <1>9

LEMMA OldPair ==
    /\ Old(12) \in [Names -> TableStates]
    /\ Old(12)["execution_results"] = Present(10, TRUE, "none")
    /\ Old(12)["execution_file_backups"] = Present(11, TRUE, "execution_results")
    /\ Old(12)["_execution_results_v11"] = Absent
    /\ Old(12)["_execution_file_backups_v11"] = Absent
<1>1. 11 \in 0 .. Latest /\ 12 - 1 = 11 /\ 12 \in 1 .. Latest + 1
  BY DEF Latest
<1>2. FormAt("execution_results", 11) = 10 /\ FormAt("execution_file_backups", 11) = 11
  BY <1>1, Forms
<1>3. /\ InstalledTable("execution_results", 11) = Present(10, TRUE, "none")
      /\ InstalledTable("execution_file_backups", 11) = Present(11, TRUE, "execution_results")
  <2>1. RefersOf("execution_results") = "none"
        /\ RefersOf("execution_file_backups") = "execution_results"
    BY DEF RefersOf
  <2>2. /\ FormAt("execution_results", 11) # 0
        /\ FormAt("execution_file_backups", 11) # 0
    BY <1>2
  <2>3. InstalledTable("execution_results", 11) = Present(10, TRUE, "none")
    BY <1>2, <2>1, <2>2, InstalledIs
  <2>4. InstalledTable("execution_file_backups", 11) = Present(11, TRUE, "execution_results")
    BY <1>2, <2>1, <2>2, InstalledIs
  <2> QED
    BY <2>3, <2>4
<1>4. /\ "_execution_results_v11" \in Leftovers
      /\ "_execution_file_backups_v11" \in Leftovers
      /\ "execution_results" \in Tables /\ "execution_file_backups" \in Tables
  BY NamesAre DEF Tables
<1> QED
  BY <1>1, <1>3, <1>4, OldTables

\* CREATE TABLE IF NOT EXISTS, the first time and again.
LEMMA Ensuring ==
    ASSUME NEW t, NEW w, First(w), ChangesOne(t, w)
    PROVE  /\ Takes(Ensure(t, w), At(w, Old(w)), At(w, New(w)))
           /\ Takes(Ensure(t, w), At(w, New(w)), At(w, New(w)))
<1>1. /\ t \in Tables /\ w \in 1 .. Latest /\ w \in 1 .. Latest + 1
      /\ New(w) = [Old(w) EXCEPT ![t] = Present(w, TRUE, RefersOf(t))]
      /\ Old(w)[t] = Absent
  <2>1. ChangesOne(t, w)
    OBVIOUS
  <2>2. t \in Tables /\ w \in 1 .. Latest
    BY <2>1, OneChange
  <2>3. New(w) = [Old(w) EXCEPT ![t] = Present(w, TRUE, RefersOf(t))]
    BY <2>1, OneChange
  <2>4. Old(w)[t] = Absent
    BY <2>1, OneChange
  <2> QED
    BY <2>2, <2>3, <2>4 DEF Latest
<1>2. Old(w) \in [Names -> TableStates] /\ \A n \in Leftovers : Old(w)[n] = Absent
  BY <1>1, OldTables
<1>3. \A n \in NamesOf(t) : Old(w)[n] = Absent
  BY <1>1, <1>2 DEF NamesOf, Leftovers
<1>4. Takes(Ensure(t, w), At(w, Old(w)), At(w, New(w)))
  <2> SUFFICES ASSUME db.version = w - 1, db.tables = Old(w)
               PROVE  Accepts(Ensure(t, w), New(w))
    BY DEF Takes, At, Accepts
  <2>1. NotThere(t)
    BY <1>1, <1>3 DEF NotThere
  <2>2. [db.tables EXCEPT ![t] = Present(w, TRUE, RefersOf(t))] = New(w)
    BY <1>1
  <2> QED
    BY <2>1, <2>2, EnsureFirst
<1>5. New(w)[t] # Absent
  <2>1. New(w)[t] = Present(w, TRUE, RefersOf(t))
    BY <1>1, <1>2 DEF Names
  <2>2. w # 0
    BY DEF First
  <2> QED
    BY <2>1, <2>2, NotAbsent
<1>6. Takes(Ensure(t, w), At(w, New(w)), At(w, New(w)))
  <2> SUFFICES ASSUME db.version = w - 1, db.tables = New(w)
               PROVE  Accepts(Ensure(t, w), New(w))
    BY DEF Takes, At, Accepts
  <2> QED
    BY <1>5, EnsureAgain
<1> QED
  BY <1>4, <1>6

\* ALTER TABLE ADD COLUMN, which has no IF NOT EXISTS.
AddsColumn(t, w) == t = "approval_requests" /\ w = 6

LEMMA Adding ==
    ASSUME NEW t, NEW w, AddsColumn(t, w)
    PROVE  /\ Takes(AddColumn(t, w), At(w, Old(w)), At(w, New(w)))
           /\ RaisesOn(AddColumn(t, w), At(w, New(w)))
<1> DEFINE s == AddColumn(t, w)
           new == Present(w, TRUE, RefersOf(t))
<1>0. ChangesOne(t, w) /\ ~First(w)
  BY DEF ChangesOne, AddsColumn, First
<1>1. t \in Names /\ w \in 1 .. Latest + 1 /\ w # 0
  <2>1. t \in Tables /\ w \in 1 .. Latest
    BY <1>0, OneChange
  <2> QED
    BY <2>1 DEF Names, Latest
<1>2. New(w) = [Old(w) EXCEPT ![t] = new]
  BY <1>0, OneChange
<1>3. PICK g \in 1 .. w - 1 : Old(w)[t] = Present(g, TRUE, RefersOf(t))
  BY <1>0, OneChange
<1>4. Old(w) \in [Names -> TableStates]
  BY <1>1, OldTables
<1>5. New(w)[t] = new
  BY <1>1, <1>2, <1>4
<1>6. g # 0 /\ ~(g >= w) /\ w >= w
  BY <1>1, <1>3 DEF Latest
<1>7. Old(w)[t] # Absent /\ Old(w)[t].form = g
  <2>1. Old(w)[t] # Absent
    BY <1>3, <1>6, NotAbsent
  <2>2. Old(w)[t].form = g
    <3> DEFINE row == Old(w)[t]
               r == RefersOf(t)
               yes == TRUE
    <3>1. row = Present(g, yes, r)
      BY <1>3
    <3> HIDE DEF row, r, yes
    <3>2. row.form = g
      BY <3>1 DEF Present
    <3> QED
      BY <3>2 DEF row
  <2> QED
    BY <2>1, <2>2
<1>8. Takes(s, At(w, Old(w)), At(w, New(w)))
  <2> SUFFICES ASSUME db.version = w - 1, db.tables = Old(w)
               PROVE  Accepts(s, New(w))
    BY DEF Takes, At, Accepts
  <2>1. db.tables[t] = Present(g, TRUE, RefersOf(t)) /\ Older(g, w)
    BY <1>3, <1>6 DEF Older
  <2>2. [db.tables EXCEPT ![t] = new] = New(w)
    BY <1>2
  <2>3. Accepts(AddColumn(t, w), [db.tables EXCEPT ![t] = Present(w, TRUE, RefersOf(t))])
    BY <2>1, AddColumnEffect
  <2> QED
    BY <2>2, <2>3
<1>9. RaisesOn(s, At(w, New(w)))
  <2> SUFFICES ASSUME db.tables = New(w) PROVE Raises(s)
    BY DEF RaisesOn, At
  <2>1. w \in Nat /\ db.tables[t] = Present(w, TRUE, RefersOf(t))
    BY <1>1, <1>5
  <2> QED
    BY <2>1, AddColumnAgain
<1> QED
  BY <1>8, <1>9

LEMMA CopyWhole ==
    ASSUME NEW t, NEW u, NEW g, NEW r, g # 0, db.tables[t] # Absent,
           db.tables[t].whole = TRUE, db.tables[u] = Present(g, FALSE, r)
    PROVE  Accepts(CopyInto(t, u), [db.tables EXCEPT ![u] = Present(g, TRUE, r)])
<1>1. db.tables[u] # Absent
  BY NotAbsent
<1>2. [db.tables[u] EXCEPT !.whole = db.tables[t].whole] = Present(g, TRUE, r)
  <2> DEFINE half == Present(g, FALSE, r)
             full == Present(g, TRUE, r)
  <2>1. [half EXCEPT !.whole = TRUE] = full
    BY NewRow
  <2>2. db.tables[u] = half /\ db.tables[t].whole = TRUE
    OBVIOUS
  <2> HIDE DEF half, full
  <2>3. [db.tables[u] EXCEPT !.whole = db.tables[t].whole] = full
    BY <2>1, <2>2
  <2> QED
    BY <2>3 DEF full
<1>3. [db.tables EXCEPT ![u] = [db.tables[u] EXCEPT !.whole = db.tables[t].whole]] =
          [db.tables EXCEPT ![u] = Present(g, TRUE, r)]
  BY <1>2
<1> QED
  BY <1>1, <1>3, CopyEffects

\* The rebuilding of V10.
LEMMA RebuildingAside ==
    ASSUME NEW w \in 1 .. Latest, NEW t \in Names, NEW u \in Names, t # u,
           NEW g \in Nat \ {0}, Old(w)[t] = Present(g, TRUE, RefersOf(t)), Old(w)[u] = Absent,
           NotReferred(Old(w), t)
    PROVE  LET H(j) == At(w, AsideHalf(t, u, w, j)) IN
           /\ Takes(RenameTo(t, u), H(0), H(1))
           /\ Takes(Create(t, w), H(1), H(2))
           /\ Takes(CopyInto(u, t), H(2), H(3))
           /\ Takes(DropTable(u), H(3), H(4))
           /\ RaisesOn(RenameTo(t, u), H(1)) /\ RaisesOn(RenameTo(t, u), H(2))
           /\ RaisesOn(Create(t, w), H(2))
<1> DEFINE F(j) == AsideHalf(t, u, w, j)
           new(b) == Present(w, b, RefersOf(t))
<1>1. Old(w) \in [Names -> TableStates] /\ w # 0
  BY OldTables DEF Latest
<1>2. /\ F(0) = Old(w)
      /\ F(1) = [Old(w) EXCEPT ![t] = Absent, ![u] = Old(w)[t]]
      /\ F(2) = [Old(w) EXCEPT ![t] = new(FALSE), ![u] = Old(w)[t]]
      /\ F(3) = [Old(w) EXCEPT ![t] = new(TRUE), ![u] = Old(w)[t]]
      /\ F(4) = [Old(w) EXCEPT ![t] = new(TRUE)]
  BY DEF AsideHalf
<1>3. /\ Old(w)[t] # Absent /\ Old(w)[t].whole = TRUE
      /\ new(TRUE) # Absent /\ new(FALSE) # Absent
  <2>1. Old(w)[t] # Absent
    BY NotAbsent
  <2>2. Old(w)[t].whole = TRUE
    BY Presence
  <2>3. new(TRUE) # Absent /\ new(FALSE) # Absent
    BY <1>1, NotAbsent
  <2> QED
    BY <2>1, <2>2, <2>3
<1>4. /\ F(1)[t] = Absent /\ F(1)[u] = Old(w)[t]
      /\ F(2)[t] = new(FALSE) /\ F(2)[u] = Old(w)[t]
      /\ F(3)[u] = Old(w)[t]
      /\ [Old(w) EXCEPT ![u] = Old(w)[t], ![t] = Absent] = F(1)
      /\ [F(1) EXCEPT ![t] = new(FALSE)] = F(2)
      /\ [F(2) EXCEPT ![t] = new(TRUE)] = F(3)
      /\ [F(3) EXCEPT ![u] = Absent] = F(4)
      /\ F(1) = [n \in Names |-> F(1)[n]]
  <2> HIDE DEF F, new
  <2>1. /\ F(1)[t] = Absent /\ F(1)[u] = Old(w)[t]
        /\ F(2)[t] = new(FALSE) /\ F(2)[u] = Old(w)[t] /\ F(3)[u] = Old(w)[t]
    BY <1>1, <1>2
  <2>2. [Old(w) EXCEPT ![u] = Old(w)[t], ![t] = Absent] = F(1)
    BY <1>1, <1>2
  <2>5. [F(1) EXCEPT ![t] = new(FALSE)] = F(2)
    BY <1>1, <1>2
  <2>6. [F(2) EXCEPT ![t] = new(TRUE)] = F(3)
    BY <1>1, <1>2
  <2>3. [F(3) EXCEPT ![u] = Absent] = F(4)
    BY <1>1, <1>2
  <2>4. F(1) = [n \in Names |-> F(1)[n]]
    BY <1>1, <1>2
  <2> QED
    BY <2>1, <2>2, <2>3, <2>4, <2>5, <2>6
<1>5. NotReferred(F(1), t)
  <2>1. Absent.refers # t
    BY AbsentIs, NamesAre
  <2> HIDE DEF F, new
  <2> QED
    BY <1>1, <1>2, <2>1 DEF NotReferred
<1> HIDE DEF F, new
<1>6. Takes(RenameTo(t, u), At(w, F(0)), At(w, F(1)))
  <2> SUFFICES ASSUME db.version = w - 1, db.tables = F(0)
               PROVE  Accepts(RenameTo(t, u), F(1))
    BY DEF Takes, At, Accepts
  <2>1. Renamed(Old(w), t, u) = [n \in Names |-> F(1)[n]]
    <3> DEFINE moved == [Old(w) EXCEPT ![u] = Old(w)[t], ![t] = Absent]
    <3>1. moved = F(1)
      BY <1>4
    <3>2. \A n \in Names : moved[n].refers # t
      BY <1>5, <3>1 DEF NotReferred
    <3> QED
      <4>1. Renamed(Old(w), t, u) = [n \in Names |-> moved[n]]
        <5>1. Renamed(Old(w), t, u)
                = [n \in Names |-> IF moved[n].refers = t
                                  THEN [moved[n] EXCEPT !.refers = u] ELSE moved[n]]
          BY DEF Renamed
        <5> HIDE DEF moved
        <5> QED
          BY <5>1, <3>2
      <4> QED
        BY <4>1, <3>1
  <2>2. db.tables[t] # Absent /\ db.tables[u] = Absent /\ Renamed(db.tables, t, u) = F(1)
    BY <1>2, <1>3, <1>4, <2>1
  <2> QED
    BY <2>2, RenameEffects
<1>7. Takes(Create(t, w), At(w, F(1)), At(w, F(2)))
  <2> SUFFICES ASSUME db.version = w - 1, db.tables = F(1)
               PROVE  Accepts(Create(t, w), F(2))
    BY DEF Takes, At, Accepts
  <2>1. db.tables[t] = Absent /\ [db.tables EXCEPT ![t] = Present(w, FALSE, RefersOf(t))] = F(2)
    BY <1>4 DEF new
  <2>2. Accepts(Create(t, w), [db.tables EXCEPT ![t] = Present(w, FALSE, RefersOf(t))])
    BY <2>1, CreateNew
  <2> QED
    BY <2>1, <2>2
<1>8. Takes(CopyInto(u, t), At(w, F(2)), At(w, F(3)))
  <2> SUFFICES ASSUME db.version = w - 1, db.tables = F(2)
               PROVE  Accepts(CopyInto(u, t), F(3))
    BY DEF Takes, At, Accepts
  <2>1. /\ w # 0 /\ db.tables[u] # Absent /\ db.tables[u].whole = TRUE
        /\ db.tables[t] = Present(w, FALSE, RefersOf(t))
    BY <1>1, <1>3, <1>4 DEF new
  <2>2. [db.tables EXCEPT ![t] = Present(w, TRUE, RefersOf(t))] = F(3)
    BY <1>4 DEF new
  <2>3. Accepts(CopyInto(u, t), [db.tables EXCEPT ![t] = Present(w, TRUE, RefersOf(t))])
    BY <2>1, CopyWhole
  <2> QED
    BY <2>2, <2>3
<1>9. Takes(DropTable(u), At(w, F(3)), At(w, F(4)))
  <2> SUFFICES ASSUME db.version = w - 1, db.tables = F(3)
               PROVE  Accepts(DropTable(u), F(4))
    BY DEF Takes, At, Accepts
  <2>1. db.tables[u] # Absent /\ [db.tables EXCEPT ![u] = Absent] = F(4)
    BY <1>3, <1>4
  <2> QED
    BY <2>1, DropEffects
<1>10. RaisesOn(RenameTo(t, u), At(w, F(1))) /\ RaisesOn(RenameTo(t, u), At(w, F(2)))
  <2>1. ASSUME db.tables = F(1) \/ db.tables = F(2) PROVE Raises(RenameTo(t, u))
    <3>1. db.tables[u] # Absent
      BY <1>3, <1>4, <2>1
    <3> QED
      BY <3>1, RenameEffects
  <2> QED
    BY <2>1 DEF RaisesOn, At
<1>11. RaisesOn(Create(t, w), At(w, F(2)))
  <2> SUFFICES ASSUME db.tables = F(2) PROVE Raises(Create(t, w))
    BY DEF RaisesOn, At
  <2>1. db.tables[t] # Absent
    BY <1>3, <1>4
  <2> QED
    BY <2>1, CreateAgain
<1> QED
  BY <1>6, <1>7, <1>8, <1>9, <1>10, <1>11 DEF F

\* The tables of V12: the results, the name of the old ones, and the same for
\* their backups.
IsPair(t, u, b, c) ==
    /\ t = "execution_results"      /\ u = "_execution_results_v11"
    /\ b = "execution_file_backups" /\ c = "_execution_file_backups_v11"

LEMMA PairStates ==
    ASSUME NEW t, NEW u, NEW b, NEW c, IsPair(t, u, b, c)
    PROVE  /\ t \in Names /\ u \in Names /\ b \in Names /\ c \in Names
           /\ t # u /\ t # b /\ t # c /\ u # b /\ u # c /\ b # c
           /\ Old(12) \in [Names -> TableStates]
           /\ Old(12)[t] = OldResults /\ Old(12)[b] = OldBackups
           /\ Old(12)[u] = Absent /\ Old(12)[c] = Absent
           /\ \A r, s, x, y : Pair(r, s, x, y) = [Old(12) EXCEPT ![t] = r, ![u] = s,
                                                               ![b] = x, ![c] = y]
           /\ \A n \in Names : n # b => Old(12)[n].refers = "none"
<1>1. t \in Names /\ u \in Names /\ b \in Names /\ c \in Names
  BY NamesAre DEF IsPair
<1>2. t # u /\ t # b /\ t # c /\ u # b /\ u # c /\ b # c
  BY DEF IsPair
<1>3. /\ Old(12) \in [Names -> TableStates]
      /\ Old(12)[t] = OldResults /\ Old(12)[b] = OldBackups
      /\ Old(12)[u] = Absent /\ Old(12)[c] = Absent
  BY OldPair DEF IsPair, OldResults, OldBackups
<1>4. \A r, s, x, y : Pair(r, s, x, y) = [Old(12) EXCEPT ![t] = r, ![u] = s,
                                                        ![b] = x, ![c] = y]
  BY DEF Pair, IsPair
<1>5. \A n \in Names : n # b => Old(12)[n].refers = "none"
  <2>1. 12 \in 1 .. Latest + 1
    BY DEF Latest
  <2> QED
    BY <2>1, OldTables DEF IsPair
<1> QED
  BY <1>1, <1>2, <1>3, <1>4, <1>5

LEMMA PairRows ==
    ASSUME NEW t, NEW u, NEW b, NEW c, IsPair(t, u, b, c)
    PROVE  /\ OldResults # Absent /\ OldBackups # Absent /\ MovedBackups # Absent
           /\ HalfResults # Absent /\ HalfBackups # Absent
           /\ NewResults # Absent /\ NewBackups # Absent
           /\ OldResults.whole = TRUE /\ MovedBackups.whole = TRUE
           /\ OldResults.refers = "none" /\ OldBackups.refers = t
           /\ [OldBackups EXCEPT !.refers = u] = MovedBackups
           /\ HalfResults = Present(12, FALSE, RefersOf(t))
           /\ NewResults = Present(12, TRUE, RefersOf(t))
           /\ HalfBackups = Present(12, FALSE, RefersOf(b))
           /\ NewBackups = Present(12, TRUE, RefersOf(b))
<1>1. /\ OldResults # Absent /\ OldBackups # Absent /\ MovedBackups # Absent
      /\ HalfResults # Absent /\ HalfBackups # Absent
      /\ NewResults # Absent /\ NewBackups # Absent
  <2>1. 10 # 0 /\ 11 # 0 /\ 12 # 0
    OBVIOUS
  <2> QED
    BY <2>1, NotAbsent
    DEF OldResults, OldBackups, MovedBackups, HalfResults, HalfBackups, NewResults, NewBackups
<1>2. OldResults.whole = TRUE /\ OldResults.refers = "none"
  BY DEF OldResults, Present
<1>3. MovedBackups.whole = TRUE
  BY DEF MovedBackups, Present
<1>4. OldBackups.refers = t
  BY DEF OldBackups, Present, IsPair
<1>5. [OldBackups EXCEPT !.refers = u] = MovedBackups
  <2> DEFINE yes == TRUE
  <2>1. \A g, r, s : [Present(g, yes, r) EXCEPT !.refers = s] = Present(g, yes, s)
    <3> HIDE DEF yes
    <3> QED
      BY DEF Present
  <2>2. [OldBackups EXCEPT !.refers = "_execution_results_v11"] = MovedBackups
    BY <2>1 DEF OldBackups, MovedBackups
  <2> QED
    BY <2>2 DEF IsPair
<1>6. RefersOf(t) = "none" /\ RefersOf(b) = "execution_results"
  BY DEF RefersOf, IsPair
<1> QED
  BY <1>1, <1>2, <1>3, <1>4, <1>5, <1>6 DEF HalfResults, HalfBackups, NewResults, NewBackups

\* The rebuilding of V12, of two tables in one.
LEMMA RebuildingPair ==
    ASSUME NEW t, NEW u, NEW b, NEW c, IsPair(t, u, b, c)
    PROVE  LET H(j) == At(12, PairHalf(j)) IN
           /\ Takes(RenameTo(b, c), H(0), H(1))
           /\ Takes(RenameTo(t, u), H(1), H(2))
           /\ Takes(Create(t, 12), H(2), H(3))
           /\ Takes(CopyInto(u, t), H(3), H(4))
           /\ Takes(Create(b, 12), H(4), H(5))
           /\ Takes(CopyInto(c, b), H(5), H(6))
           /\ Takes(DropTable(c), H(6), H(7))
           /\ Takes(DropTable(u), H(7), H(8))
           /\ \A j \in 1 .. 3 : RaisesOn(RenameTo(b, c), H(j))
           /\ \A j \in 2 .. 3 : RaisesOn(RenameTo(t, u), H(j))
           /\ RaisesOn(Create(t, 12), H(3))
<1> DEFINE F(j) == PairHalf(j)
           P(r, s, x, y) == [Old(12) EXCEPT ![t] = r, ![u] = s, ![b] = x, ![c] = y]
<1>1. /\ t \in Names /\ u \in Names /\ b \in Names /\ c \in Names
      /\ t # u /\ t # b /\ t # c /\ u # b /\ u # c /\ b # c
      /\ Old(12) \in [Names -> TableStates]
      /\ Old(12)[t] = OldResults /\ Old(12)[b] = OldBackups
      /\ Old(12)[u] = Absent /\ Old(12)[c] = Absent
  BY PairStates
<1>2. /\ F(0) = Old(12)
      /\ F(1) = P(OldResults, Absent, Absent, OldBackups)
      /\ F(2) = P(Absent, OldResults, Absent, MovedBackups)
      /\ F(3) = P(HalfResults, OldResults, Absent, MovedBackups)
      /\ F(4) = P(NewResults, OldResults, Absent, MovedBackups)
      /\ F(5) = P(NewResults, OldResults, HalfBackups, MovedBackups)
      /\ F(6) = P(NewResults, OldResults, NewBackups, MovedBackups)
      /\ F(7) = P(NewResults, OldResults, NewBackups, Absent)
      /\ F(8) = P(NewResults, Absent, NewBackups, Absent)
  <2> HIDE DEF P
  <2>1. \A r, s, x, y : Pair(r, s, x, y) = P(r, s, x, y)
    BY PairStates DEF P
  <2> QED
    BY <2>1 DEF PairHalf
<1>3. /\ \A r, s, x, y : /\ P(r, s, x, y)[t] = r /\ P(r, s, x, y)[u] = s
                         /\ P(r, s, x, y)[b] = x /\ P(r, s, x, y)[c] = y
                         /\ \A n \in Names \ {t, u, b, c} : P(r, s, x, y)[n] = Old(12)[n]
                         /\ P(r, s, x, y) = [n \in Names |-> P(r, s, x, y)[n]]
      /\ \A r, s, x, y, z : /\ [P(r, s, x, y) EXCEPT ![t] = z] = P(z, s, x, y)
                            /\ [P(r, s, x, y) EXCEPT ![u] = z] = P(r, z, x, y)
                            /\ [P(r, s, x, y) EXCEPT ![b] = z] = P(r, s, z, y)
                            /\ [P(r, s, x, y) EXCEPT ![c] = z] = P(r, s, x, z)
      /\ Old(12) = P(OldResults, Absent, OldBackups, Absent)
  <2>1. ASSUME NEW r, NEW s, NEW x, NEW y
        PROVE  /\ P(r, s, x, y)[t] = r /\ P(r, s, x, y)[u] = s
               /\ P(r, s, x, y)[b] = x /\ P(r, s, x, y)[c] = y
               /\ \A n \in Names \ {t, u, b, c} : P(r, s, x, y)[n] = Old(12)[n]
               /\ P(r, s, x, y) = [n \in Names |-> P(r, s, x, y)[n]]
    BY <1>1
  <2>2. ASSUME NEW r, NEW s, NEW x, NEW y, NEW z
        PROVE  /\ [P(r, s, x, y) EXCEPT ![t] = z] = P(z, s, x, y)
               /\ [P(r, s, x, y) EXCEPT ![u] = z] = P(r, z, x, y)
               /\ [P(r, s, x, y) EXCEPT ![b] = z] = P(r, s, z, y)
               /\ [P(r, s, x, y) EXCEPT ![c] = z] = P(r, s, x, z)
    BY <1>1
  <2>3. Old(12) = P(OldResults, Absent, OldBackups, Absent)
    BY <1>1
  <2> QED
    BY <2>1, <2>2, <2>3
<1> HIDE DEF F, P
<1>16. /\ OldResults # Absent /\ OldBackups # Absent /\ MovedBackups # Absent
       /\ HalfResults # Absent /\ HalfBackups # Absent
       /\ NewResults # Absent /\ NewBackups # Absent
  BY PairRows
<1>17. OldResults.whole = TRUE /\ MovedBackups.whole = TRUE
  BY PairRows
<1>18. /\ HalfResults = Present(12, FALSE, RefersOf(t))
       /\ NewResults = Present(12, TRUE, RefersOf(t))
       /\ HalfBackups = Present(12, FALSE, RefersOf(b))
       /\ NewBackups = Present(12, TRUE, RefersOf(b))
  BY PairRows
<1>4. /\ \A n \in Names : F(1)[n].refers # b
      /\ \A n \in Names : n # c => F(1)[n].refers # t
      /\ F(1)[c].refers = t
  <2>1. /\ OldResults.refers = "none" /\ Absent.refers = "none" /\ OldBackups.refers = t
    BY PairRows, AbsentIs
  <2>2. "none" # b /\ "none" # t /\ t # b
    BY DEF IsPair
  <2>3. \A n \in Names : n # b => Old(12)[n].refers = "none"
    BY PairStates
  <2>4. /\ F(1)[t].refers = "none" /\ F(1)[u].refers = "none" /\ F(1)[b].refers = "none"
        /\ F(1)[c].refers = t
    BY <1>2, <1>3, <2>1
  <2>5. \A n \in Names \ {t, u, b, c} : F(1)[n].refers = "none"
    BY <1>2, <1>3, <2>3
  <2> QED
    BY <2>2, <2>4, <2>5
<1>19. /\ F(2)[t] = Absent
       /\ F(3)[u] = OldResults /\ F(3)[t] = HalfResults
       /\ F(4)[b] = Absent
       /\ F(5)[c] = MovedBackups /\ F(5)[b] = HalfBackups
       /\ F(6)[c] = MovedBackups
       /\ F(7)[u] = OldResults
  BY <1>2, <1>3
<1>20. /\ [F(2) EXCEPT ![t] = HalfResults] = F(3)
       /\ [F(3) EXCEPT ![t] = NewResults] = F(4)
       /\ [F(4) EXCEPT ![b] = HalfBackups] = F(5)
       /\ [F(5) EXCEPT ![b] = NewBackups] = F(6)
       /\ [F(6) EXCEPT ![c] = Absent] = F(7)
       /\ [F(7) EXCEPT ![u] = Absent] = F(8)
  BY <1>2, <1>3
<1>5. Takes(RenameTo(b, c), At(12, F(0)), At(12, F(1)))
  <2> SUFFICES ASSUME db.version = 12 - 1, db.tables = F(0)
               PROVE  Accepts(RenameTo(b, c), F(1))
    BY DEF Takes, At, Accepts
  <2>1. [F(0) EXCEPT ![c] = F(0)[b], ![b] = Absent] = F(1)
    <3>1. F(0)[b] = OldBackups
      BY <1>1, <1>2
    <3>2. [F(0) EXCEPT ![c] = F(0)[b]] = P(OldResults, Absent, OldBackups, OldBackups)
      BY <1>2, <1>3, <3>1
    <3>3. [P(OldResults, Absent, OldBackups, OldBackups) EXCEPT ![b] = Absent] = F(1)
      BY <1>2, <1>3
    <3> QED
      BY <1>1, <3>2, <3>3
  <2>2. F(1) = [n \in Names |-> F(1)[n]]
    BY <1>2, <1>3
  <2>3. Renamed(F(0), b, c) = F(1)
    BY <1>4, <2>1, <2>2 DEF Renamed
  <2>4. db.tables[b] # Absent /\ db.tables[c] = Absent
    BY <1>1, <1>2, <1>16
  <2>5. Accepts(RenameTo(b, c), Renamed(db.tables, b, c))
    BY <2>4, RenameEffects
  <2> QED
    BY <2>3, <2>5
<1>6. Takes(RenameTo(t, u), At(12, F(1)), At(12, F(2)))
  <2> SUFFICES ASSUME db.version = 12 - 1, db.tables = F(1)
               PROVE  Accepts(RenameTo(t, u), F(2))
    BY DEF Takes, At, Accepts
  <2> DEFINE g == P(Absent, OldResults, Absent, OldBackups)
  <2>1. [F(1) EXCEPT ![u] = F(1)[t], ![t] = Absent] = g
    <3>1. F(1)[t] = OldResults
      BY <1>2, <1>3
    <3>2. [F(1) EXCEPT ![u] = F(1)[t]] = P(OldResults, OldResults, Absent, OldBackups)
      BY <1>2, <1>3, <3>1
    <3>3. [P(OldResults, OldResults, Absent, OldBackups) EXCEPT ![t] = Absent] = g
      BY <1>3
    <3> QED
      BY <1>1, <3>2, <3>3
  <2>2. g[c] = OldBackups /\ \A n \in Names \ {c} : g[n] = F(2)[n]
    BY <1>2, <1>3
  <2>3. F(2)[c] = MovedBackups /\ F(2) = [n \in Names |-> F(2)[n]]
    BY <1>2, <1>3
  <2>4. ASSUME NEW n \in Names \ {c} PROVE g[n].refers # t
    <3>1. g[t] = F(1)[u] /\ g[u] = F(1)[t] /\ g[b] = F(1)[b]
      BY <1>2, <1>3
    <3>2. \A m \in Names \ {t, u, b, c} : g[m] = F(1)[m]
      BY <1>2, <1>3
    <3> QED
      BY <1>1, <1>4, <3>1, <3>2
  <2>5. g[c].refers = t /\ [g[c] EXCEPT !.refers = u] = MovedBackups
    BY <2>2, PairRows
  <2> HIDE DEF g
  <2>6. Renamed(F(1), t, u) = [n \in Names |-> IF g[n].refers = t
                                             THEN [g[n] EXCEPT !.refers = u] ELSE g[n]]
    <3> DEFINE moved == [F(1) EXCEPT ![u] = F(1)[t], ![t] = Absent]
    <3>1. Renamed(F(1), t, u) = [n \in Names |-> IF moved[n].refers = t
                                               THEN [moved[n] EXCEPT !.refers = u]
                                               ELSE moved[n]]
      BY DEF Renamed
    <3>2. moved = g
      BY <2>1
    <3> HIDE DEF moved
    <3> QED
      BY <3>1, <3>2
  <2>7. Renamed(F(1), t, u) = F(2)
    BY <1>1, <2>2, <2>3, <2>4, <2>5, <2>6
  <2>8. db.tables[t] # Absent /\ db.tables[u] = Absent
    BY <1>2, <1>3, <1>16, <1>17, <1>18
  <2>9. Accepts(RenameTo(t, u), Renamed(db.tables, t, u))
    BY <2>8, RenameEffects
  <2> QED
    BY <2>7, <2>9
<1>7. Takes(Create(t, 12), At(12, F(2)), At(12, F(3)))
  <2> SUFFICES ASSUME db.version = 12 - 1, db.tables = F(2)
               PROVE  Accepts(Create(t, 12), F(3))
    BY DEF Takes, At, Accepts
  <2>1. db.tables[t] = Absent
    BY <1>19
  <2>2. Accepts(Create(t, 12), [db.tables EXCEPT ![t] = Present(12, FALSE, RefersOf(t))])
    BY <2>1, CreateNew
  <2>3. [db.tables EXCEPT ![t] = Present(12, FALSE, RefersOf(t))] = F(3)
    <3>1. [db.tables EXCEPT ![t] = HalfResults] = F(3)
      BY <1>20
    <3> QED
      BY <3>1, <1>18
  <2> QED
    BY <2>2, <2>3
<1>8. Takes(CopyInto(u, t), At(12, F(3)), At(12, F(4)))
  <2> SUFFICES ASSUME db.version = 12 - 1, db.tables = F(3)
               PROVE  Accepts(CopyInto(u, t), F(4))
    BY DEF Takes, At, Accepts
  <2>1. 12 # 0 /\ db.tables[u] # Absent /\ db.tables[u].whole = TRUE
    BY <1>16, <1>17, <1>19
  <2>4. db.tables[t] = Present(12, FALSE, RefersOf(t))
    <3>1. db.tables[t] = HalfResults
      BY <1>19
    <3> QED
      BY <3>1, <1>18
  <2>2. Accepts(CopyInto(u, t), [db.tables EXCEPT ![t] = Present(12, TRUE, RefersOf(t))])
    BY <2>1, <2>4, CopyWhole
  <2>3. [db.tables EXCEPT ![t] = Present(12, TRUE, RefersOf(t))] = F(4)
    <3>1. [db.tables EXCEPT ![t] = NewResults] = F(4)
      BY <1>20
    <3> QED
      BY <3>1, <1>18
  <2> QED
    BY <2>2, <2>3
<1>9. Takes(Create(b, 12), At(12, F(4)), At(12, F(5)))
  <2> SUFFICES ASSUME db.version = 12 - 1, db.tables = F(4)
               PROVE  Accepts(Create(b, 12), F(5))
    BY DEF Takes, At, Accepts
  <2>1. db.tables[b] = Absent
    BY <1>19
  <2>2. Accepts(Create(b, 12), [db.tables EXCEPT ![b] = Present(12, FALSE, RefersOf(b))])
    BY <2>1, CreateNew
  <2>3. [db.tables EXCEPT ![b] = Present(12, FALSE, RefersOf(b))] = F(5)
    <3>1. [db.tables EXCEPT ![b] = HalfBackups] = F(5)
      BY <1>20
    <3> QED
      BY <3>1, <1>18
  <2> QED
    BY <2>2, <2>3
<1>10. Takes(CopyInto(c, b), At(12, F(5)), At(12, F(6)))
  <2> SUFFICES ASSUME db.version = 12 - 1, db.tables = F(5)
               PROVE  Accepts(CopyInto(c, b), F(6))
    BY DEF Takes, At, Accepts
  <2>1. 12 # 0 /\ db.tables[c] # Absent /\ db.tables[c].whole = TRUE
    BY <1>16, <1>17, <1>19
  <2>4. db.tables[b] = Present(12, FALSE, RefersOf(b))
    <3>1. db.tables[b] = HalfBackups
      BY <1>19
    <3> QED
      BY <3>1, <1>18
  <2>2. Accepts(CopyInto(c, b), [db.tables EXCEPT ![b] = Present(12, TRUE, RefersOf(b))])
    BY <2>1, <2>4, CopyWhole
  <2>3. [db.tables EXCEPT ![b] = Present(12, TRUE, RefersOf(b))] = F(6)
    <3>1. [db.tables EXCEPT ![b] = NewBackups] = F(6)
      BY <1>20
    <3> QED
      BY <3>1, <1>18
  <2> QED
    BY <2>2, <2>3
<1>11. Takes(DropTable(c), At(12, F(6)), At(12, F(7)))
  <2> SUFFICES ASSUME db.version = 12 - 1, db.tables = F(6)
               PROVE  Accepts(DropTable(c), F(7))
    BY DEF Takes, At, Accepts
  <2>1. db.tables[c] # Absent
    BY <1>19, <1>16
  <2>2. Accepts(DropTable(c), [db.tables EXCEPT ![c] = Absent])
    BY <2>1, DropEffects
  <2>3. [db.tables EXCEPT ![c] = Absent] = F(7)
    BY <1>20
  <2> QED
    BY <2>2, <2>3
<1>12. Takes(DropTable(u), At(12, F(7)), At(12, F(8)))
  <2> SUFFICES ASSUME db.version = 12 - 1, db.tables = F(7)
               PROVE  Accepts(DropTable(u), F(8))
    BY DEF Takes, At, Accepts
  <2>1. db.tables[u] # Absent
    BY <1>19, <1>16
  <2>2. Accepts(DropTable(u), [db.tables EXCEPT ![u] = Absent])
    BY <2>1, DropEffects
  <2>3. [db.tables EXCEPT ![u] = Absent] = F(8)
    BY <1>20
  <2> QED
    BY <2>2, <2>3
<1>13. ASSUME NEW j \in 1 .. 3 PROVE RaisesOn(RenameTo(b, c), At(12, F(j)))
  <2> SUFFICES ASSUME db.tables = F(j) PROVE Raises(RenameTo(b, c))
    BY DEF RaisesOn, At
  <2>1. F(1)[b] = Absent /\ F(2)[b] = Absent /\ F(3)[b] = Absent
    BY <1>2, <1>3
  <2>2. j = 1 \/ j = 2 \/ j = 3
    BY <1>13
  <2>3. db.tables[b] = Absent
    BY <2>1, <2>2
  <2> QED
    BY <2>3, RenameEffects
<1>14. ASSUME NEW j \in 2 .. 3 PROVE RaisesOn(RenameTo(t, u), At(12, F(j)))
  <2> SUFFICES ASSUME db.tables = F(j) PROVE Raises(RenameTo(t, u))
    BY DEF RaisesOn, At
  <2>1. F(2)[u] = OldResults /\ F(3)[u] = OldResults
    BY <1>2, <1>3
  <2>2. j = 2 \/ j = 3
    BY <1>14
  <2>3. db.tables[u] # Absent
    BY <2>1, <2>2, <1>16
  <2> QED
    BY <2>3, RenameEffects
<1>15. RaisesOn(Create(t, 12), At(12, F(3)))
  <2> SUFFICES ASSUME db.tables = F(3) PROVE Raises(Create(t, 12))
    BY DEF RaisesOn, At
  <2>1. db.tables[t] # Absent
    BY <1>16, <1>19
  <2> QED
    BY <2>1, CreateAgain
<1> QED
  BY <1>5, <1>6, <1>7, <1>8, <1>9, <1>10, <1>11, <1>12, <1>13, <1>14, <1>15 DEF F

-----------------------------------------------------------------------------
(* Every migration, statement by statement.                                  *)

LEMMA HalfwayIs ==
    ASSUME NEW w, NEW j
    PROVE  HalfwayDatabase(w, j) = At(w, Halfway(w, j))
BY DEF HalfwayDatabase, At

LEMMA Nothing ==
    ASSUME NEW w, NEW f
    PROVE  Takes(Other, At(w, f), At(w, f)) /\ Takes(Insert, At(w, f), At(w, f))
BY DataEffects DEF Takes, At, Accepts

\* The migrations of which some statement cannot be repeated, once j of them
\* are executed.
Rebuilds(w) == w \in {3, 10, 12, 17, 19, 21}
Sticks(w, j) == Rebuilds(w) \/ (w = 6 /\ j = 2)

\* On the way a statement takes the database one step further, none but the
\* one after the prefix opens a transaction before it, and a statement of the
\* prefix that is executed again changes nothing or is refused.
Follows(w) ==
    LET V == Migrations[w]
        n == Len(V)
        H(j) == HalfwayDatabase(w, j)
    IN /\ n \in Nat
       /\ \A i \in 1 .. n : Takes(V[i], H(i - 1), H(i))
       /\ Halfway(w, n) = New(w)
       /\ Prefix(w) \in 0 .. n
       /\ \A i \in 1 .. Prefix(w) : ~OpensTransaction(V[i])
       /\ Prefix(w) < n => OpensTransaction(V[Prefix(w) + 1])
       /\ \A i, j \in 1 .. Prefix(w) : i <= j =>
              \/ Takes(V[i], H(j), H(j))
              \/ RaisesOn(V[i], H(j)) /\ Sticks(w, j)

\* Migrations that change no table.
LEMMA FollowsNothing ==
    ASSUME NEW w \in {1, 4, 5, 7, 8, 13, 15, 16, 18, 20, 22, 23, 24}
    PROVE  Follows(w)
<1> DEFINE V == Migrations[w]
           n == Len(V)
           H(j) == HalfwayDatabase(w, j)
<1>1. w \in 1 .. Latest /\ w \notin {2, 3, 6, 9, 10, 11, 12, 14, 17, 19, 21}
  BY DEF Latest
<1>2. /\ n \in 0 .. 2 /\ \A i \in 1 .. n : V[i] \in {Other, Insert}
      /\ Prefix(w) \in 0 .. n /\ \A i \in 1 .. Prefix(w) : V[i] = Other
      /\ Prefix(w) < n => V[Prefix(w) + 1] = Insert
  <2>1. CASE w = 1
    BY <2>1, MigrationsAre, Program DEF Prefix
  <2>2. CASE w \in {4, 7, 8, 13, 16, 23, 24}
    <3>1. V \in {V4, V7, V8, V13, V16, V23, V24}
      BY <2>2, MigrationsAre
    <3>2. n = 1 /\ V[1] = Other
      BY <3>1, Program
    <3>3. Prefix(w) = 1
      BY <2>2 DEF Prefix, Latest
    <3> QED
      BY <3>2, <3>3
  <2>3. CASE w \in {5, 15}
    <3>1. V \in {V5, V15}
      BY <2>3, MigrationsAre
    <3>2. n = 2 /\ V[1] = Other /\ V[2] = Insert
      BY <3>1, Program
    <3>3. Prefix(w) = 1
      BY <2>3 DEF Prefix, Latest
    <3> QED
      BY <3>2, <3>3
  <2>4. CASE w \in {18, 20, 22}
    <3>1. V \in {V18, V20, V22}
      BY <2>4, MigrationsAre
    <3>2. n = 1 /\ V[1] = Insert
      BY <3>1, Program
    <3>3. Prefix(w) = 0
      BY <2>4 DEF Prefix
    <3> QED
      BY <3>2, <3>3
  <2> QED
    BY <2>1, <2>2, <2>3, <2>4
<1>3. \A j : Halfway(w, j) = Old(w)
  BY <1>1 DEF Halfway
<1>4. \A j : H(j) = At(w, Old(w))
  BY <1>3, HalfwayIs
<1>5. Old(w) = New(w)
  BY <1>1, SameForms DEF New
<1> HIDE DEF V, H
<1>6. \A s \in {Other, Insert} : Takes(s, At(w, Old(w)), At(w, Old(w)))
  BY Nothing
<1>7. /\ \A i \in 1 .. n : Takes(V[i], H(i - 1), H(i))
      /\ \A i, j \in 1 .. Prefix(w) : Takes(V[i], H(j), H(j))
  BY <1>2, <1>4, <1>6
<1>8. /\ \A i \in 1 .. Prefix(w) : ~OpensTransaction(V[i])
      /\ Prefix(w) < n => OpensTransaction(V[Prefix(w) + 1])
  BY <1>2, Transactions
<1>9. n \in Nat /\ Prefix(w) \in 0 .. n /\ Halfway(w, n) = New(w)
  BY <1>2, <1>3, <1>5
<1> QED
  BY <1>7, <1>8, <1>9 DEF Follows, V, H

\* Migrations that create a table or add a column.
LEMMA FollowsEnsure ==
    ASSUME NEW w \in {9, 11, 14}
    PROVE  Follows(w)
<1> DEFINE V == Migrations[w]
           H(j) == HalfwayDatabase(w, j)
           t == IF w = 9 THEN "execution_results"
                ELSE IF w = 11 THEN "execution_file_backups" ELSE "skills"
<1>1. Len(V) = 1 /\ V[1] = Ensure(t, w) /\ ChangesOne(t, w) /\ First(w)
  BY MigrationsAre, Program DEF ChangesOne, First
<1>2. Prefix(w) = 1 /\ Halfway(w, 0) = Old(w) /\ Halfway(w, 1) = New(w)
  BY DEF Prefix, Halfway, Latest
<1>3. H(0) = At(w, Old(w)) /\ H(1) = At(w, New(w))
  BY <1>2, HalfwayIs
<1> HIDE DEF V, H, t
<1>4. Takes(Ensure(t, w), H(0), H(1)) /\ Takes(Ensure(t, w), H(1), H(1))
  BY <1>1, <1>3, Ensuring
<1>5. ~OpensTransaction(Ensure(t, w))
  BY Transactions
<1>6. /\ \A i \in 1 .. 1 : Takes(V[i], H(i - 1), H(i)) /\ ~OpensTransaction(V[i])
      /\ \A i, j \in 1 .. 1 : Takes(V[i], H(j), H(j))
  BY <1>1, <1>4, <1>5
<1> QED
  BY <1>1, <1>2, <1>6 DEF Follows, V, H

LEMMA FollowsTwo == Follows(2)
<1> DEFINE V == Migrations[2]
           H(j) == HalfwayDatabase(2, j)
           t == "approval_requests"
<1>1. /\ Len(V) = 2 /\ V[1] = Other /\ V[2] = Ensure(t, 2)
      /\ ChangesOne(t, 2) /\ First(2)
  BY MigrationsAre, Program DEF ChangesOne, First
<1>2. /\ Prefix(2) = 2
      /\ Halfway(2, 0) = Old(2) /\ Halfway(2, 1) = Old(2) /\ Halfway(2, 2) = New(2)
  BY DEF Prefix, Halfway
<1>3. H(0) = At(2, Old(2)) /\ H(1) = At(2, Old(2)) /\ H(2) = At(2, New(2))
  BY <1>2, HalfwayIs
<1> HIDE DEF V, H, t
<1>4. Takes(Ensure(t, 2), H(1), H(2)) /\ Takes(Ensure(t, 2), H(2), H(2))
  BY <1>1, <1>3, Ensuring
<1>5. Takes(Other, H(0), H(1)) /\ Takes(Other, H(1), H(1)) /\ Takes(Other, H(2), H(2))
  BY <1>3, Nothing
<1>6. ~OpensTransaction(Ensure(t, 2)) /\ ~OpensTransaction(Other)
  BY Transactions
<1>7. /\ \A i \in 1 .. 2 : Takes(V[i], H(i - 1), H(i)) /\ ~OpensTransaction(V[i])
      /\ \A i, j \in 1 .. 2 : i <= j => Takes(V[i], H(j), H(j))
  <2>1. ASSUME NEW i \in 1 .. 2 PROVE i = 1 \/ i = 2
    OBVIOUS
  <2>2. 1 - 1 = 0 /\ 2 - 1 = 1 /\ ~(2 <= 1)
    OBVIOUS
  <2> QED
    BY <1>1, <1>4, <1>5, <1>6, <2>1, <2>2
<1> QED
  BY <1>1, <1>2, <1>7 DEF Follows, V, H

LEMMA FollowsSix == Follows(6)
<1> DEFINE V == Migrations[6]
           H(j) == HalfwayDatabase(6, j)
           t == "approval_requests"
<1>1. /\ Len(V) = 2 /\ V[1] = Other /\ V[2] = AddColumn(t, 6)
      /\ AddsColumn(t, 6)
  BY MigrationsAre, Program DEF AddsColumn
<1>2. /\ Prefix(6) = 2
      /\ Halfway(6, 0) = Old(6) /\ Halfway(6, 1) = Old(6) /\ Halfway(6, 2) = New(6)
  BY DEF Prefix, Halfway
<1>3. H(0) = At(6, Old(6)) /\ H(1) = At(6, Old(6)) /\ H(2) = At(6, New(6))
  BY <1>2, HalfwayIs
<1> HIDE DEF V, H, t
<1>4. Takes(AddColumn(t, 6), H(1), H(2)) /\ RaisesOn(AddColumn(t, 6), H(2))
  BY <1>1, <1>3, Adding
<1>5. Takes(Other, H(0), H(1)) /\ Takes(Other, H(1), H(1)) /\ Takes(Other, H(2), H(2))
  BY <1>3, Nothing
<1>6. ~OpensTransaction(AddColumn(t, 6)) /\ ~OpensTransaction(Other)
  BY Transactions
<1>7. /\ \A i \in 1 .. 2 : Takes(V[i], H(i - 1), H(i)) /\ ~OpensTransaction(V[i])
      /\ \A i, j \in 1 .. 2 : i <= j => \/ Takes(V[i], H(j), H(j))
                                        \/ RaisesOn(V[i], H(j)) /\ j = 2
  <2>1. ASSUME NEW i \in 1 .. 2 PROVE i = 1 \/ i = 2
    OBVIOUS
  <2>2. 1 - 1 = 0 /\ 2 - 1 = 1
    OBVIOUS
  <2>3. \A i \in 1 .. 2 : Takes(V[i], H(i - 1), H(i)) /\ ~OpensTransaction(V[i])
    BY <1>1, <1>4, <1>5, <1>6, <2>1, <2>2
  <2>4. \A j \in 1 .. 2 : Takes(V[1], H(j), H(j))
    <3>1. \A j \in 1 .. 2 : j = 1 \/ j = 2
      OBVIOUS
    <3> QED
      BY <1>1, <1>5, <3>1
  <2>5. \A j \in 1 .. 2 : 2 <= j => j = 2
    OBVIOUS
  <2>6. RaisesOn(V[2], H(2))
    BY <1>1, <1>4
  <2>7. ASSUME NEW i \in 1 .. 2, NEW j \in 1 .. 2, i <= j
        PROVE  Takes(V[i], H(j), H(j)) \/ (RaisesOn(V[i], H(j)) /\ j = 2)
    <3>1. CASE i = 1
      <4>1. Takes(V[i], H(j), H(j))
        BY <2>4, <3>1, Zenon
      <4> QED
        BY <4>1
    <3>2. CASE i = 2
      <4>1. j = 2
        BY <2>5, <2>7, <3>2
      <4> QED
        BY <2>6, <3>2, <4>1
    <3> QED
      BY <2>1, <3>1, <3>2
  <2> QED
    BY <2>3, <2>7
<1>8. Sticks(6, 2)
  BY DEF Sticks
<1> QED
  BY <1>1, <1>2, <1>7, <1>8 DEF Follows, V, H

\* The rebuildings by way of a second table, and their tables.
IsRebuild(w, t, u) ==
    \/ w = 3 /\ t = "approval_requests" /\ u = "approval_requests_v3"
    \/ w = 17 /\ t = "skills" /\ u = "skills_v17"
    \/ w = 19 /\ t = "skills" /\ u = "skills_v19"
    \/ w = 21 /\ t = "skills" /\ u = "skills_v21"

LEMMA RebuildTables ==
    ASSUME NEW w, NEW t, NEW u, IsRebuild(w, t, u)
    PROVE  /\ w \in 1 .. Latest /\ t \in Names /\ u \in Names /\ t # u
           /\ RefersOf(u) = RefersOf(t) /\ RefersOf(t) # u
           /\ Old(w)[u] = Absent /\ NotReferred(Old(w), u)
           /\ ChangesOne(t, w) /\ ~First(w)
           /\ \A j : Halfway(w, j) = RebuildHalf(t, u, w, j)
<1>1. w \in 1 .. Latest /\ w \in 1 .. Latest + 1 /\ ChangesOne(t, w) /\ ~First(w)
  BY DEF IsRebuild, ChangesOne, First, Latest
<1>2. t \in Names /\ u \in Names /\ u \in Leftovers /\ t # u
  BY NamesAre DEF IsRebuild
<1>3. RefersOf(u) = "none" /\ RefersOf(t) = "none" /\ "none" # u
  BY DEF IsRebuild, RefersOf
<1>4. \A n \in Names : Old(w)[n].refers = "none" \/ Old(w)[n].refers = "execution_results"
  BY <1>1, OldTables
<1>5. u # "execution_results"
  BY DEF IsRebuild
<1>6. NotReferred(Old(w), u)
  BY <1>3, <1>4, <1>5 DEF NotReferred
<1>7. Old(w)[u] = Absent
  BY <1>1, <1>2, OldTables
<1>8. \A j : Halfway(w, j) = RebuildHalf(t, u, w, j)
  <2>1. CASE w = 3
    BY <2>1 DEF Halfway, IsRebuild
  <2>2. CASE w = 17
    BY <2>2 DEF Halfway, IsRebuild
  <2>3. CASE w = 19
    BY <2>3 DEF Halfway, IsRebuild
  <2>4. CASE w = 21
    BY <2>4 DEF Halfway, IsRebuild
  <2> QED
    BY <2>1, <2>2, <2>3, <2>4 DEF IsRebuild
<1> QED
  BY <1>1, <1>2, <1>3, <1>6, <1>7, <1>8

LEMMA FollowsRebuild ==
    ASSUME NEW w, NEW t, NEW u, IsRebuild(w, t, u)
    PROVE  Follows(w)
<1> DEFINE V == Migrations[w]
           H(j) == HalfwayDatabase(w, j)
<1>1. /\ w \in 1 .. Latest /\ t \in Names /\ u \in Names /\ t # u
      /\ RefersOf(u) = RefersOf(t) /\ RefersOf(t) # u
      /\ Old(w)[u] = Absent /\ NotReferred(Old(w), u)
      /\ ChangesOne(t, w) /\ ~First(w)
      /\ \A j : Halfway(w, j) = RebuildHalf(t, u, w, j)
  BY RebuildTables
<1>2. \A j : H(j) = At(w, RebuildHalf(t, u, w, j))
  BY <1>1, HalfwayIs
<1>3. /\ Len(V) = 4 \/ Len(V) = 5
      /\ V[1] = Create(u, w) /\ V[2] = CopyInto(t, u)
      /\ V[3] = DropTable(t) /\ V[4] = RenameTo(u, t)
      /\ Len(V) = 5 => V[5] = Insert
  <2>1. w \in {3, 17, 19, 21}
    BY DEF IsRebuild
  <2> QED
    BY <2>1, RebuildProgram DEF IsRebuild
<1>4. Prefix(w) = 1 /\ \A j : Sticks(w, j)
  <2>1. Prefix(w) = 1
    BY DEF IsRebuild, Prefix, Latest
  <2>2. \A j : Rebuilds(w) => Sticks(w, j)
    BY DEF Sticks
  <2>3. Rebuilds(w)
    BY DEF IsRebuild, Rebuilds
  <2> QED
    BY <2>1, <2>2, <2>3
<1>5. PICK g \in Nat \ {0} : Old(w)[t] = Present(g, TRUE, RefersOf(t))
  <2>1. \E g \in 1 .. w - 1 : Old(w)[t] = Present(g, TRUE, RefersOf(t))
    BY <1>1, OneChange
  <2>2. \A g \in 1 .. w - 1 : g \in Nat \ {0}
    OBVIOUS
  <2> QED
    BY <2>1, <2>2
<1>6. New(w) = [Old(w) EXCEPT ![t] = Present(w, TRUE, RefersOf(t))]
  BY <1>1, OneChange
<1>7. LET K(j) == At(w, RebuildHalf(t, u, w, j)) IN
      /\ Takes(Create(u, w), K(0), K(1))
      /\ Takes(CopyInto(t, u), K(1), K(2))
      /\ Takes(DropTable(t), K(2), K(3))
      /\ Takes(RenameTo(u, t), K(3), K(4))
      /\ RebuildHalf(t, u, w, 4) = RebuildHalf(t, u, w, 5)
      /\ RebuildHalf(t, u, w, 4) = [Old(w) EXCEPT ![t] = Present(w, TRUE, RefersOf(t))]
      /\ RaisesOn(Create(u, w), K(1))
  <2>1. RebuildFrom(w, t, u)
    BY <1>1, <1>5 DEF RebuildFrom
  <2>2. RebuildTakes(w, t, u)
    BY <2>1, Rebuilding
  <2> QED
    BY <2>2 DEF RebuildTakes
<1>8. /\ Takes(Create(u, w), H(0), H(1))
      /\ Takes(CopyInto(t, u), H(1), H(2))
      /\ Takes(DropTable(t), H(2), H(3))
      /\ Takes(RenameTo(u, t), H(3), H(4))
      /\ H(4) = H(5) /\ Halfway(w, 4) = New(w) /\ Halfway(w, 5) = New(w)
      /\ RaisesOn(Create(u, w), H(1))
  BY <1>1, <1>2, <1>6, <1>7
<1>9. Takes(Insert, H(4), H(5))
  BY <1>2, <1>8, Nothing
<1> HIDE DEF V, H
<1>10. ~OpensTransaction(Create(u, w)) /\ OpensTransaction(CopyInto(t, u))
  BY Transactions
<1>11. \A i \in 1 .. Len(V) : Takes(V[i], H(i - 1), H(i))
  <2>1. 1 - 1 = 0 /\ 2 - 1 = 1 /\ 3 - 1 = 2 /\ 4 - 1 = 3 /\ 5 - 1 = 4
    OBVIOUS
  <2>2. \A i \in {1, 2, 3, 4} : Takes(V[i], H(i - 1), H(i))
    BY <1>3, <1>8, <2>1
  <2>3. CASE Len(V) = 4
    <3>1. \A i \in 1 .. 4 : i \in {1, 2, 3, 4}
      OBVIOUS
    <3> QED
      BY <2>2, <2>3, <3>1
  <2>4. CASE Len(V) = 5
    <3>1. \A i \in 1 .. 5 : i \in {1, 2, 3, 4} \/ i = 5
      OBVIOUS
    <3>2. Takes(V[5], H(5 - 1), H(5))
      BY <1>3, <1>9, <2>1, <2>4
    <3> QED
      BY <2>2, <2>4, <3>1, <3>2
  <2> QED
    BY <1>3, <2>3, <2>4
<1>12. /\ Len(V) \in Nat /\ Halfway(w, Len(V)) = New(w) /\ Prefix(w) \in 0 .. Len(V)
       /\ \A i \in 1 .. Prefix(w) : ~OpensTransaction(V[i])
       /\ OpensTransaction(V[Prefix(w) + 1])
       /\ \A i, j \in 1 .. Prefix(w) : RaisesOn(V[i], H(j)) /\ Sticks(w, j)
  <2>1. \A i \in 1 .. Prefix(w) : i = 1
    BY <1>4
  <2>2. Len(V) \in Nat /\ Prefix(w) \in 0 .. Len(V) /\ Halfway(w, Len(V)) = New(w)
    <3>1. CASE Len(V) = 4
      BY <1>4, <1>8, <3>1
    <3>2. CASE Len(V) = 5
      BY <1>4, <1>8, <3>2
    <3> QED
      BY <1>3, <3>1, <3>2
  <2>3. /\ \A i \in 1 .. Prefix(w) : ~OpensTransaction(V[i])
        /\ OpensTransaction(V[Prefix(w) + 1])
    <3>1. Prefix(w) + 1 = 2
      BY <1>4
    <3> QED
      BY <1>3, <1>10, <2>1, <3>1
  <2>4. \A i, j \in 1 .. Prefix(w) : RaisesOn(V[i], H(j)) /\ Sticks(w, j)
    BY <1>3, <1>4, <1>8, <2>1
  <2> QED
    BY <2>2, <2>3, <2>4
<1> QED
  BY <1>11, <1>12 DEF Follows, V, H

LEMMA FollowsTen == Follows(10)
<1> DEFINE V == Migrations[10]
           H(j) == HalfwayDatabase(10, j)
           t == "execution_results"
           u == "_execution_results_v9"
<1>1. /\ Len(V) = 4 /\ V[1] = RenameTo(t, u) /\ V[2] = Create(t, 10)
      /\ V[3] = CopyInto(u, t) /\ V[4] = DropTable(u)
  BY MigrationsAre, AsideProgram
<1>2. /\ t \in Names /\ u \in Names /\ u \in Leftovers /\ t # u
      /\ ChangesOne(t, 10) /\ ~First(10)
  BY NamesAre DEF ChangesOne, First
<1>3. 10 \in 1 .. Latest /\ 10 \in 1 .. Latest + 1
  BY DEF Latest
<1>4. PICK g \in Nat \ {0} : Old(10)[t] = Present(g, TRUE, RefersOf(t))
  <2> HIDE DEF t
  <2>1. \E g \in 1 .. 10 - 1 : Old(10)[t] = Present(g, TRUE, RefersOf(t))
    BY <1>2, OneChange
  <2>2. \A g \in 1 .. 10 - 1 : g \in Nat \ {0}
    OBVIOUS
  <2> QED
    BY <2>1, <2>2
<1>5. Old(10)[u] = Absent /\ NotReferred(Old(10), t)
  <2>1. \A n \in Names : Old(10)[n].refers = "none"
    BY <1>3, OldTables
  <2>2. "none" # t
    OBVIOUS
  <2>3. NotReferred(Old(10), t)
    BY <2>1, <2>2 DEF NotReferred
  <2>4. Old(10)[u] = Absent
    BY <1>2, <1>3, OldTables
  <2> QED
    BY <2>3, <2>4
<1>6. \A j : H(j) = At(10, AsideHalf(t, u, 10, j))
  <2>1. \A j : Halfway(10, j) = AsideHalf(t, u, 10, j)
    BY DEF Halfway
  <2> QED
    BY <2>1, HalfwayIs
<1>7. Prefix(10) = 2 /\ \A j : Sticks(10, j)
  <2>1. Prefix(10) = 2
    BY DEF Prefix
  <2>2. \A j : Rebuilds(10) => Sticks(10, j)
    BY DEF Sticks
  <2>3. Rebuilds(10)
    BY DEF Rebuilds
  <2> QED
    BY <2>1, <2>2, <2>3
<1> HIDE DEF t, u
<1>8. Halfway(10, 4) = New(10)
  <2>1. Halfway(10, 4) = [Old(10) EXCEPT ![t] = Present(10, TRUE, RefersOf(t))]
    BY DEF Halfway, AsideHalf, t
  <2>2. New(10) = [Old(10) EXCEPT ![t] = Present(10, TRUE, RefersOf(t))]
    BY <1>2, OneChange
  <2> QED
    BY <2>1, <2>2
<1>9. LET K(j) == At(10, AsideHalf(t, u, 10, j)) IN
      /\ Takes(RenameTo(t, u), K(0), K(1))
      /\ Takes(Create(t, 10), K(1), K(2))
      /\ Takes(CopyInto(u, t), K(2), K(3))
      /\ Takes(DropTable(u), K(3), K(4))
      /\ RaisesOn(RenameTo(t, u), K(1)) /\ RaisesOn(RenameTo(t, u), K(2))
      /\ RaisesOn(Create(t, 10), K(2))
  BY <1>2, <1>3, <1>4, <1>5, RebuildingAside
<1> HIDE DEF V, H
<1>10. /\ Takes(RenameTo(t, u), H(0), H(1))
       /\ Takes(Create(t, 10), H(1), H(2))
       /\ Takes(CopyInto(u, t), H(2), H(3))
       /\ Takes(DropTable(u), H(3), H(4))
       /\ RaisesOn(RenameTo(t, u), H(1)) /\ RaisesOn(RenameTo(t, u), H(2))
       /\ RaisesOn(Create(t, 10), H(2))
  BY <1>6, <1>9
<1>11. /\ ~OpensTransaction(RenameTo(t, u)) /\ ~OpensTransaction(Create(t, 10))
       /\ OpensTransaction(CopyInto(u, t))
  BY Transactions
<1>12. \A i \in 1 .. Len(V) : Takes(V[i], H(i - 1), H(i))
  <2>1. \A i \in 1 .. Len(V) : i \in {1, 2, 3, 4}
    BY <1>1
  <2>2. 1 - 1 = 0 /\ 2 - 1 = 1 /\ 3 - 1 = 2 /\ 4 - 1 = 3
    OBVIOUS
  <2> QED
    BY <1>1, <1>10, <2>1, <2>2
<1>13. /\ Len(V) \in Nat /\ Halfway(10, Len(V)) = New(10) /\ Prefix(10) \in 0 .. Len(V)
       /\ \A i \in 1 .. Prefix(10) : ~OpensTransaction(V[i])
       /\ OpensTransaction(V[Prefix(10) + 1])
  BY <1>1, <1>7, <1>8, <1>11
<1>14. \A i, j \in 1 .. Prefix(10) : i <= j => RaisesOn(V[i], H(j)) /\ Sticks(10, j)
  <2>1. \A i \in 1 .. Prefix(10) : i = 1 \/ i = 2
    BY <1>7
  <2>2. ~(2 <= 1)
    OBVIOUS
  <2> QED
    BY <1>1, <1>7, <1>10, <2>1, <2>2
<1> QED
  BY <1>12, <1>13, <1>14 DEF Follows, V, H

LEMMA FollowsTwelve == Follows(12)
<1> DEFINE V == Migrations[12]
           H(j) == HalfwayDatabase(12, j)
           t == "execution_results"
           u == "_execution_results_v11"
           b == "execution_file_backups"
           c == "_execution_file_backups_v11"
<1>1. /\ Len(V) = 8
      /\ V[1] = RenameTo(b, c) /\ V[2] = RenameTo(t, u)
      /\ V[3] = Create(t, 12) /\ V[4] = CopyInto(u, t)
      /\ V[5] = Create(b, 12) /\ V[6] = CopyInto(c, b)
      /\ V[7] = DropTable(c) /\ V[8] = DropTable(u)
  BY MigrationsAre, PairProgram
<1>2. IsPair(t, u, b, c)
  BY DEF IsPair
<1>3. Prefix(12) = 3 /\ \A j : Sticks(12, j)
  <2>1. Prefix(12) = 3
    BY DEF Prefix
  <2>2. \A j : Rebuilds(12) => Sticks(12, j)
    BY DEF Sticks
  <2>3. Rebuilds(12)
    BY DEF Rebuilds
  <2> QED
    BY <2>1, <2>2, <2>3
<1>4. \A j : H(j) = At(12, PairHalf(j))
  <2>1. \A j : Halfway(12, j) = PairHalf(j)
    BY DEF Halfway
  <2> QED
    BY <2>1, HalfwayIs
<1>5. Halfway(12, 8) = New(12)
  <2>1. Halfway(12, 8) = PairHalf(8)
    BY DEF Halfway
  <2>2. PairHalf(8) = Pair(NewResults, Absent, NewBackups, Absent)
    BY DEF PairHalf
  <2>3. New(12) = Pair(NewResults, Absent, NewBackups, Absent)
    BY PairChange DEF NewResults, NewBackups
  <2> QED
    BY <2>1, <2>2, <2>3
<1> HIDE DEF V, H, t, u, b, c
<1>6. LET K(j) == At(12, PairHalf(j)) IN
      /\ Takes(RenameTo(b, c), K(0), K(1))
      /\ Takes(RenameTo(t, u), K(1), K(2))
      /\ Takes(Create(t, 12), K(2), K(3))
      /\ Takes(CopyInto(u, t), K(3), K(4))
      /\ Takes(Create(b, 12), K(4), K(5))
      /\ Takes(CopyInto(c, b), K(5), K(6))
      /\ Takes(DropTable(c), K(6), K(7))
      /\ Takes(DropTable(u), K(7), K(8))
      /\ \A j \in 1 .. 3 : RaisesOn(RenameTo(b, c), K(j))
      /\ \A j \in 2 .. 3 : RaisesOn(RenameTo(t, u), K(j))
      /\ RaisesOn(Create(t, 12), K(3))
  BY <1>2, RebuildingPair
<1>7. /\ Takes(RenameTo(b, c), H(0), H(1))
      /\ Takes(RenameTo(t, u), H(1), H(2))
      /\ Takes(Create(t, 12), H(2), H(3))
      /\ Takes(CopyInto(u, t), H(3), H(4))
      /\ Takes(Create(b, 12), H(4), H(5))
      /\ Takes(CopyInto(c, b), H(5), H(6))
      /\ Takes(DropTable(c), H(6), H(7))
      /\ Takes(DropTable(u), H(7), H(8))
  BY <1>4, <1>6
<1>8. /\ \A j \in 1 .. 3 : RaisesOn(RenameTo(b, c), H(j))
      /\ \A j \in 2 .. 3 : RaisesOn(RenameTo(t, u), H(j))
      /\ RaisesOn(Create(t, 12), H(3))
  BY <1>4, <1>6
<1>9. /\ ~OpensTransaction(RenameTo(b, c)) /\ ~OpensTransaction(RenameTo(t, u))
      /\ ~OpensTransaction(Create(t, 12)) /\ OpensTransaction(CopyInto(u, t))
  BY Transactions
<1>10. \A i \in 1 .. Len(V) : Takes(V[i], H(i - 1), H(i))
  <2>1. \A i \in 1 .. Len(V) : i \in {1, 2, 3, 4, 5, 6, 7, 8}
    BY <1>1
  <2>2. /\ 1 - 1 = 0 /\ 2 - 1 = 1 /\ 3 - 1 = 2 /\ 4 - 1 = 3
        /\ 5 - 1 = 4 /\ 6 - 1 = 5 /\ 7 - 1 = 6 /\ 8 - 1 = 7
    OBVIOUS
  <2> QED
    BY <1>1, <1>7, <2>1, <2>2
<1>11. \A i \in 1 .. Prefix(12) : ~OpensTransaction(V[i])
  <2>1. \A i \in 1 .. Prefix(12) : i = 1 \/ i = 2 \/ i = 3
    BY <1>3
  <2> QED
    BY <1>1, <1>9, <2>1
<1>12. /\ Len(V) \in Nat /\ Halfway(12, Len(V)) = New(12) /\ Prefix(12) \in 0 .. Len(V)
       /\ OpensTransaction(V[Prefix(12) + 1])
  BY <1>1, <1>3, <1>5, <1>9
<1>13. \A i, j \in 1 .. Prefix(12) : i <= j => RaisesOn(V[i], H(j)) /\ Sticks(12, j)
  <2>1. ASSUME NEW i \in 1 .. Prefix(12), NEW j \in 1 .. Prefix(12), i <= j
        PROVE  RaisesOn(V[i], H(j))
    <3>1. CASE i = 1
      BY <1>1, <1>3, <1>8, <3>1
    <3>2. CASE i = 2
      BY <1>1, <1>3, <1>8, <2>1, <3>2
    <3>3. CASE i = 3
      <4>1. j = 3
        BY <1>3, <2>1, <3>3
      <4> QED
        BY <1>1, <1>8, <3>3, <4>1
    <3> QED
      BY <1>3, <3>1, <3>2, <3>3
  <2> QED
    BY <1>3, <2>1
<1> QED
  BY <1>10, <1>11, <1>12, <1>13 DEF Follows, V, H

\* Every migration is as Follows says.
LEMMA Following ==
    ASSUME NEW w \in 1 .. Latest
    PROVE  Follows(w)
<1>1. CASE w \in {3, 17, 19, 21}
  <2>1. \E t, u : IsRebuild(w, t, u)
    BY <1>1 DEF IsRebuild
  <2> QED
    BY <2>1, FollowsRebuild
<1>2. CASE w \in {9, 11, 14}
  BY <1>2, FollowsEnsure
<1>3. CASE w \in {1, 4, 5, 7, 8, 13, 15, 16, 18, 20, 22, 23, 24}
  BY <1>3, FollowsNothing
<1>4. CASE w \in {2, 6, 10, 12}
  BY <1>4, FollowsTwo, FollowsSix, FollowsTen, FollowsTwelve
<1> QED
  BY <1>1, <1>2, <1>3, <1>4 DEF Latest

-----------------------------------------------------------------------------
(* From one migration to the next.                                           *)

\* A migration starts on the tables of the version before it.
LEMMA Begins ==
    ASSUME NEW w \in 1 .. Latest + 1
    PROVE  /\ Halfway(w, 0) = Old(w)
           /\ HalfwayDatabase(w, 0) = Clean(w - 1)
           /\ Prefix(w) \in Nat
           /\ \A j : HalfwayDatabase(w, j).version = w - 1
                     /\ HalfwayDatabase(w, j).tables = Halfway(w, j)
<1>1. Halfway(w, 0) = Old(w)
  <2>1. \A t, u : RebuildHalf(t, u, w, 0) = Old(w) /\ AsideHalf(t, u, w, 0) = Old(w)
    BY DEF RebuildHalf, AsideHalf
  <2>2. PairHalf(0) = Old(12)
    BY DEF PairHalf
  <2>3. 0 < 1 /\ 0 < 2
    OBVIOUS
  <2> QED
    BY <2>1, <2>2, <2>3 DEF Halfway
<1>2. HalfwayDatabase(w, 0) = Clean(w - 1)
  <2>1. Clean(w - 1) = [version |-> w - 1, tables |-> Old(w)]
    BY DEF Old, Clean
  <2> QED
    BY <1>1, <2>1 DEF HalfwayDatabase
<1>3. Prefix(w) \in Nat
  BY DEF Prefix
<1> QED
  BY <1>1, <1>2, <1>3 DEF HalfwayDatabase

\* The last migration is followed by nothing.
LEMMA LastMigration == Prefix(Latest + 1) = 0 /\ Latest + 1 \in 1 .. Latest + 1 /\ Latest \in Nat
BY DEF Prefix, Latest

\* A migration with its stamp, statement by statement.
LEMMA Walk ==
    ASSUME NEW w \in 1 .. Latest
    PROVE  LET M == Migration[w]
               m == Len(M)
               H(j) == HalfwayDatabase(w, j)
           IN /\ m \in Nat \ {0}
              /\ \A i \in 1 .. m - 1 : Takes(M[i], H(i - 1), H(i))
              /\ Takes(M[m], H(m - 1), HalfwayDatabase(w + 1, 0))
              /\ Prefix(w) \in 0 .. m - 1
              /\ \A i \in 1 .. Prefix(w) : ~OpensTransaction(M[i])
              /\ OpensTransaction(M[Prefix(w) + 1])
              /\ \A i, j \in 1 .. Prefix(w) : i <= j =>
                     \/ Takes(M[i], H(j), H(j))
                     \/ RaisesOn(M[i], H(j)) /\ Sticks(w, j)
<1> DEFINE V == Migrations[w]
           n == Len(V)
           M == Migration[w]
           H(j) == HalfwayDatabase(w, j)
<1>1. /\ n \in Nat /\ Len(M) = n + 1 /\ M[n + 1] = Stamp(w)
      /\ \A i \in 1 .. n : M[i] = V[i]
  BY Stamped
<1>2. /\ \A i \in 1 .. n : Takes(V[i], H(i - 1), H(i))
      /\ Halfway(w, n) = New(w)
      /\ Prefix(w) \in 0 .. n
      /\ \A i \in 1 .. Prefix(w) : ~OpensTransaction(V[i])
      /\ Prefix(w) < n => OpensTransaction(V[Prefix(w) + 1])
      /\ \A i, j \in 1 .. Prefix(w) : i <= j =>
             \/ Takes(V[i], H(j), H(j))
             \/ RaisesOn(V[i], H(j)) /\ Sticks(w, j)
  BY Following DEF Follows
<1>3. Takes(Stamp(w), H(n), HalfwayDatabase(w + 1, 0))
  <2>1. w + 1 \in 1 .. Latest + 1 /\ (w + 1) - 1 = w
    BY DEF Latest
  <2>2. HalfwayDatabase(w + 1, 0) = Clean(w)
    BY <2>1, Begins
  <2>3. Clean(w) = [version |-> w, tables |-> New(w)]
    BY DEF New, Clean
  <2>4. H(n).tables = New(w)
    BY <1>2 DEF HalfwayDatabase
  <2>5. After(Stamp(w)) = [version |-> w, tables |-> db.tables] /\ ~Raises(Stamp(w))
    BY DataEffects
  <2> HIDE DEF H
  <2> QED
    BY <2>2, <2>3, <2>4, <2>5 DEF Takes
<1>4. OpensTransaction(Stamp(w))
  BY Transactions
<1> HIDE DEF V, n, M, H
<1>5. Len(M) - 1 = n /\ Len(M) \in Nat \ {0}
  BY <1>1
<1>6. \A i \in 1 .. n : Takes(M[i], H(i - 1), H(i))
  BY <1>1, <1>2
<1>7. Takes(M[n + 1], H(n), HalfwayDatabase(w + 1, 0))
  BY <1>1, <1>3
<1>8. \A i \in 1 .. Prefix(w) : i \in 1 .. n
  BY <1>1, <1>2
<1>9. \A i \in 1 .. Prefix(w) : ~OpensTransaction(M[i])
  BY <1>1, <1>2, <1>8
<1>10. OpensTransaction(M[Prefix(w) + 1])
  <2>1. CASE Prefix(w) < n
    <3>1. Prefix(w) + 1 \in 1 .. n
      BY <1>1, <1>2, <2>1
    <3> QED
      BY <1>1, <1>2, <2>1, <3>1
  <2>2. CASE ~(Prefix(w) < n)
    <3>1. Prefix(w) = n
      BY <1>1, <1>2, <2>2
    <3> QED
      BY <1>1, <1>4, <3>1
  <2> QED
    BY <2>1, <2>2
<1>11. \A i, j \in 1 .. Prefix(w) : i <= j =>
             \/ Takes(M[i], H(j), H(j))
             \/ RaisesOn(M[i], H(j)) /\ Sticks(w, j)
  BY <1>1, <1>2, <1>8
<1> QED
  BY <1>1, <1>2, <1>5, <1>6, <1>7, <1>9, <1>10, <1>11 DEF M, H

-----------------------------------------------------------------------------
(* The invariant is inductive.                                               *)

LEMMA Versions ==
    /\ Latest \in Nat
    /\ \A x \in 1 .. Latest :
           /\ x \in Nat /\ ~(x > Latest)
           /\ x + 1 \in 1 .. Latest + 1 /\ (x + 1) - 1 = x
           /\ x - 1 \in 0 .. Latest /\ (x - 1) + 1 = x
           /\ x \in x .. Latest + 1
           /\ \A y \in 0 .. Latest : x \in y + 1 .. Latest + 1 =>
                  x + 1 \in y + 1 .. Latest + 1
    /\ \A x \in 1 .. Latest + 1 : ~(x > Latest) => x \in 1 .. Latest
BY DEF Latest

LEMMA UpgradeStarts == UpgradeInit => UpgradeInv
<1> SUFFICES ASSUME UpgradeInit PROVE UpgradeInv
  OBVIOUS
<1>1. PICK v \in Installed : disk = Clean(v)
  BY DEF UpgradeInit
<1>2. v \in 0 .. Latest /\ v + 1 \in 1 .. Latest + 1 /\ (v + 1) - 1 = v
  BY InstalledAssumption DEF Latest
<1>3. disk.version = v
  BY <1>1, <1>2, CleanTables
<1>4. disk = HalfwayDatabase(v + 1, 0) /\ Prefix(v + 1) \in Nat
  BY <1>1, <1>2, Begins
<1>5. DiskInv
  <2>1. 0 \in 0 .. Prefix(v + 1)
    BY <1>4
  <2> QED
    BY <1>2, <1>3, <1>4, <2>1 DEF DiskInv
<1>6. FirstOf(1) \in Positions /\ MaxDeaths \in Nat
  BY InstalledAssumption DEF FirstOf, Positions, Latest
<1>7. /\ phase = "down" /\ db = disk /\ ~txn /\ txn \in BOOLEAN
      /\ at = FirstOf(1) /\ deaths \in 0 .. MaxDeaths
  <2>1. phase = "down" /\ db = disk /\ ~txn /\ txn \in BOOLEAN /\ deaths = 0
    BY DEF UpgradeInit
  <2>2. at = FirstOf(1)
    BY DEF UpgradeInit, FirstOf
  <2> QED
    BY <1>6, <2>1, <2>2
<1>8. disk = HalfwayDatabase(disk.version + 1, 0)
  BY <1>3, <1>4
<1> QED
  BY <1>5, <1>6, <1>7, <1>8 DEF UpgradeInv

\* Start-up begins at the version on disk, with what is there.
LEMMA StartKeeps == UpgradeInv /\ Start => UpgradeInv'
<1> SUFFICES ASSUME UpgradeInv, Start PROVE UpgradeInv'
  OBVIOUS
<1> DEFINE w == disk.version + 1
<1>1. /\ phase = "down" /\ phase' = "migrating" /\ at' = FirstOf(w)
      /\ disk' = disk /\ db' = db /\ txn' = txn /\ deaths' = deaths
      /\ db = disk /\ ~txn /\ deaths \in 0 .. MaxDeaths
      /\ disk.version \in 0 .. Latest
      /\ deaths = 0 => disk = HalfwayDatabase(w, 0)
  BY DEF Start, UpgradeInv, DiskInv
<1>2. PICK j \in 0 .. Prefix(w) : disk = HalfwayDatabase(w, j)
  BY DEF UpgradeInv, DiskInv
<1>3. w \in 1 .. Latest + 1 /\ 1 - 1 = 0
  BY <1>1 DEF Latest
<1>4. at' \in Positions /\ at'.version = w /\ at'.statement = 1
  BY <1>1, <1>3 DEF FirstOf, Positions
<1>5. at'.statement \in 1 .. IF at'.version > Latest THEN 1 ELSE Len(Migration[at'.version])
  <2>1. ASSUME ~(w > Latest) PROVE Len(Migration[w]) \in Nat \ {0}
    <3>1. w \in 1 .. Latest
      BY <1>3, <2>1 DEF Latest
    <3> QED
      BY <3>1, Walk
  <2> QED
    BY <1>4, <2>1
<1>6. MigratingInv'
  <2>1. at'.version \in disk'.version + 1 .. Latest + 1
    BY <1>1, <1>3, <1>4 DEF Latest
  <2>2. /\ db' = disk' /\ at'.version = disk'.version + 1
        /\ \E k \in at'.statement - 1 .. Prefix(at'.version) :
               db' = HalfwayDatabase(at'.version, k)
    BY <1>1, <1>2, <1>3, <1>4
  <2> QED
    BY <1>1, <1>5, <2>1, <2>2 DEF MigratingInv
<1>7. DiskInv'
  BY <1>1, <1>2 DEF DiskInv
<1>8. deaths' = 0 => db' = HalfwayDatabase(at'.version, at'.statement - 1)
  BY <1>1, <1>3, <1>4
<1> QED
  BY <1>1, <1>4, <1>6, <1>7, <1>8 DEF UpgradeInv

\* What is on the way when a statement is due: the database is where the
\* program is, or ahead of it in the durable prefix.
LEMMA OnTheWay ==
    ASSUME UpgradeInv, phase = "migrating", at.version <= Latest
    PROVE  LET w == at.version
               i == at.statement
           IN /\ w \in 1 .. Latest /\ i \in 1 .. Len(Migration[w])
              /\ Current = Migration[w][i]
              /\ \/ db = HalfwayDatabase(w, i - 1)
                 \/ /\ ~txn /\ deaths # 0
                    /\ \E j \in i .. Prefix(w) : db = HalfwayDatabase(w, j)
<1> DEFINE w == at.version
           i == at.statement
<1>1. MigratingInv /\ DiskInv /\ at \in Positions /\ txn \in BOOLEAN
      /\ (deaths = 0 => db = HalfwayDatabase(w, i - 1))
  BY DEF UpgradeInv
<1>2. w \in 1 .. Latest
  BY <1>1 DEF Positions, Latest
<1>3. i \in 1 .. Len(Migration[w])
  BY <1>1, <1>2 DEF MigratingInv, Latest
<1>4. Current = Migration[w][i]
  BY DEF Current
<1>5. CASE txn
  BY <1>1, <1>2, <1>3, <1>4, <1>5 DEF MigratingInv
<1>6. CASE ~txn
  <2>1. PICK j \in i - 1 .. Prefix(w) : db = HalfwayDatabase(w, j)
    BY <1>1, <1>6 DEF MigratingInv
  <2>2. i \in Nat /\ Prefix(w) \in Nat
    BY <1>2, <1>3, Walk
  <2>3. j = i - 1 \/ j \in i .. Prefix(w)
    BY <2>1, <2>2
  <2> QED
    BY <1>1, <1>2, <1>3, <1>4, <1>6, <2>1, <2>3
<1> QED
  BY <1>1, <1>5, <1>6

\* A statement takes the database one step further, or finds its work done.
LEMMA StatementKeeps == UpgradeInv /\ ExecuteStatement => UpgradeInv'
<1> SUFFICES ASSUME UpgradeInv, ExecuteStatement PROVE UpgradeInv'
  OBVIOUS
<1> DEFINE w == at.version
           i == at.statement
           M == Migration[w]
           m == Len(M)
           s == M[i]
           H(j) == HalfwayDatabase(w, j)
<1>1. /\ phase = "migrating" /\ phase' = "migrating" /\ deaths' = deaths
      /\ w <= Latest
      /\ ~Raises(Current)
      /\ db' = After(Current)
      /\ txn' = (txn \/ OpensTransaction(Current))
      /\ disk' = IF txn' THEN disk ELSE db'
      /\ at' = IF i = m THEN FirstOf(w + 1) ELSE [at EXCEPT !.statement = i + 1]
  BY DEF ExecuteStatement
<1>2. /\ w \in 1 .. Latest /\ i \in 1 .. m /\ Current = s
      /\ \/ db = H(i - 1)
         \/ /\ ~txn /\ deaths # 0
            /\ \E j \in i .. Prefix(w) : db = H(j)
  BY <1>1, OnTheWay
<1>3. /\ MigratingInv /\ DiskInv /\ at \in Positions /\ txn \in BOOLEAN
      /\ deaths \in 0 .. MaxDeaths
  BY <1>1 DEF UpgradeInv
<1>4. /\ m \in Nat \ {0}
      /\ \A k \in 1 .. m - 1 : Takes(M[k], H(k - 1), H(k))
      /\ Takes(M[m], H(m - 1), HalfwayDatabase(w + 1, 0))
      /\ Prefix(w) \in 0 .. m - 1
      /\ \A k \in 1 .. Prefix(w) : ~OpensTransaction(M[k])
      /\ OpensTransaction(M[Prefix(w) + 1])
      /\ \A k, j \in 1 .. Prefix(w) : k <= j =>
             \/ Takes(M[k], H(j), H(j))
             \/ RaisesOn(M[k], H(j)) /\ Sticks(w, j)
  BY <1>2, Walk
<1>5. w \in Nat /\ w + 1 \in 1 .. Latest + 1 /\ (w + 1) - 1 = w /\ ~(w > Latest)
  BY <1>2, Versions
<1>6. \A j : H(j).version = w - 1
  BY DEF HalfwayDatabase
<1> HIDE DEF M, m, H, s
<1>7. \* where the program is next
      /\ at' \in Positions
      /\ i = m => at'.version = w + 1 /\ at'.statement = 1
      /\ i # m => at'.version = w /\ at'.statement = i + 1 /\ i \in 1 .. m - 1
      /\ at'.statement \in 1 .. IF at'.version > Latest THEN 1 ELSE Len(Migration[at'.version])
  <2>1. CASE i = m
    <3>1. at' = FirstOf(w + 1)
      BY <1>1, <2>1
    <3>2. at' \in Positions /\ at'.version = w + 1 /\ at'.statement = 1
      BY <1>5, <3>1 DEF FirstOf, Positions
    <3>3. ASSUME ~(w + 1 > Latest) PROVE Len(Migration[w + 1]) \in Nat \ {0}
      <4>1. w + 1 \in 1 .. Latest
        BY <1>5, <3>3 DEF Latest
      <4> QED
        BY <4>1, Walk
    <3> QED
      BY <2>1, <3>2, <3>3
  <2>2. CASE i # m
    <3>1. at' = [at EXCEPT !.statement = i + 1]
      BY <1>1, <2>2
    <3>2. at' \in Positions /\ at'.version = w /\ at'.statement = i + 1
      BY <1>2, <1>3, <1>4, <3>1 DEF Positions
    <3>3. i \in 1 .. m - 1 /\ i + 1 \in 1 .. m
      BY <1>2, <1>4, <2>2
    <3>4. m = Len(Migration[at'.version]) /\ ~(at'.version > Latest)
      BY <1>5, <3>2 DEF m, M
    <3> QED
      BY <2>2, <3>2, <3>3, <3>4
  <2> QED
    BY <2>1, <2>2
<1>8. w \in disk.version + 1 .. Latest + 1 /\ disk.version \in 0 .. Latest
  BY <1>3 DEF MigratingInv, DiskInv
<1>9. txn' \in BOOLEAN
  BY <1>1
<1>10. CASE db = H(i - 1)
  <2>1. db' = HalfwayDatabase(at'.version, at'.statement - 1)
    <3>1. CASE i = m
      <4>1. After(s) = HalfwayDatabase(w + 1, 0)
        BY <1>2, <1>4, <1>10, <3>1 DEF Takes, s
      <4> QED
        BY <1>1, <1>2, <1>7, <3>1, <4>1
    <3>2. CASE i # m
      <4>1. After(s) = H(i)
        BY <1>2, <1>4, <1>7, <1>10, <3>2 DEF Takes, s
      <4>2. (i + 1) - 1 = i
        BY <1>2
      <4> QED
        BY <1>1, <1>2, <1>7, <3>2, <4>1, <4>2 DEF H
    <3> QED
      BY <3>1, <3>2
  <2>2. CASE txn'
    <3>1. disk' = disk
      BY <1>1, <2>2
    <3>2. at'.version \in disk'.version + 1 .. Latest + 1
      <4>1. w + 1 \in disk.version + 1 .. Latest + 1
        BY <1>2, <1>8, Versions
      <4> QED
        BY <1>7, <1>8, <3>1, <4>1
    <3>3. MigratingInv' /\ DiskInv'
      BY <1>3, <1>7, <2>1, <2>2, <3>1, <3>2 DEF MigratingInv, DiskInv
    <3> QED
      BY <1>1, <1>3, <1>7, <1>9, <2>1, <3>3 DEF UpgradeInv
  <2>3. CASE ~txn'
    <3>1. ~txn /\ ~OpensTransaction(s) /\ disk' = db'
      BY <1>1, <1>2, <2>3
    <3>2. PICK j \in i - 1 .. Prefix(w) : db = H(j)
      BY <1>1, <1>3, <3>1 DEF MigratingInv, H
    <3>3. i \in 1 .. Prefix(w)
      <4>1. i # Prefix(w) + 1
        BY <1>4, <3>1 DEF s
      <4> QED
        BY <1>2, <1>4, <3>2, <4>1
    <3>4. i # m
      BY <1>2, <1>4, <3>3
    <3>5. disk' = H(i) /\ at'.version = w /\ at'.statement = i + 1 /\ (i + 1) - 1 = i
      BY <1>2, <1>7, <2>1, <3>1, <3>4 DEF H
    <3>6. disk'.version = w - 1 /\ disk'.version + 1 = w
      BY <1>5, <1>6, <3>5
    <3>7. /\ DiskInv'
      <4>1. i \in 0 .. Prefix(w)
        BY <3>3
      <4>2. disk'.version \in 0 .. Latest
        <5>1. w - 1 \in 0 .. Latest
          BY <1>2, Versions
        <5> QED
          BY <3>6, <5>1
      <4> QED
        BY <3>5, <3>6, <4>1, <4>2 DEF DiskInv, H
    <3>8. MigratingInv'
      <4>1. i \in at'.statement - 1 .. Prefix(at'.version)
        BY <3>3, <3>5
      <4>2. at'.version \in disk'.version + 1 .. Latest + 1
        <5>1. w \in w .. Latest + 1
          BY <1>2, Versions
        <5> QED
          BY <3>5, <3>6, <5>1
      <4> QED
        BY <1>7, <2>3, <3>1, <3>5, <3>6, <4>1, <4>2 DEF MigratingInv, H
    <3> QED
      BY <1>1, <1>3, <1>7, <1>9, <2>1, <3>7, <3>8 DEF UpgradeInv
  <2> QED
    BY <1>9, <2>2, <2>3
<1>11. CASE ~txn /\ deaths # 0 /\ \E j \in i .. Prefix(w) : db = H(j)
  <2>1. PICK j \in i .. Prefix(w) : db = H(j)
    BY <1>11
  <2>2. i \in 1 .. Prefix(w) /\ j \in 1 .. Prefix(w) /\ i <= j
    BY <1>2, <1>4, <2>1
  <2>3. ~Raises(s) /\ ~OpensTransaction(s)
    BY <1>1, <1>2, <1>4, <2>2 DEF s
  <2>4. After(s) = H(j)
    <3>1. ~RaisesOn(s, H(j))
      BY <2>1, <2>3 DEF RaisesOn
    <3>2. Takes(s, H(j), H(j))
      BY <1>4, <2>2, <3>1 DEF s
    <3> QED
      BY <2>1, <3>2 DEF Takes
  <2>5. db' = H(j) /\ ~txn' /\ disk' = H(j)
    BY <1>1, <1>2, <1>11, <2>3, <2>4
  <2>6. i # m
    BY <1>2, <1>4, <2>2
  <2>7. at'.version = w /\ at'.statement = i + 1 /\ (i + 1) - 1 = i
    BY <1>2, <1>7, <2>6
  <2>8. disk'.version = w - 1 /\ disk'.version + 1 = w
    BY <1>5, <1>6, <2>5
  <2>9. DiskInv'
    <3>1. j \in 0 .. Prefix(w)
      BY <2>2
    <3>2. disk'.version \in 0 .. Latest
      <4>1. w - 1 \in 0 .. Latest
        BY <1>2, Versions
      <4> QED
        BY <2>8, <4>1
    <3> QED
      BY <2>5, <2>8, <3>1, <3>2 DEF DiskInv, H
  <2>10. MigratingInv'
    <3>1. j \in at'.statement - 1 .. Prefix(at'.version)
      BY <2>1, <2>7
    <3>2. at'.version \in disk'.version + 1 .. Latest + 1
      <4>1. w \in w .. Latest + 1
        BY <1>2, Versions
      <4> QED
        BY <2>7, <2>8, <4>1
    <3> QED
      BY <1>7, <2>5, <2>7, <2>8, <3>1, <3>2 DEF MigratingInv, H
  <2> QED
    BY <1>1, <1>3, <1>7, <1>9, <1>11, <2>9, <2>10 DEF UpgradeInv
<1> QED
  BY <1>2, <1>10, <1>11

\* The commit comes when the last migration is stamped.
LEMMA CommitKeeps == UpgradeInv /\ Commit => UpgradeInv'
<1> SUFFICES ASSUME UpgradeInv, Commit PROVE UpgradeInv'
  OBVIOUS
<1>1. /\ phase' = "serving" /\ disk' = db /\ db' = db /\ ~txn' /\ txn' \in BOOLEAN
      /\ at' = FirstOf(1) /\ deaths' = deaths
      /\ phase = "migrating" /\ at.version = Latest + 1
  BY DEF Commit
<1>2. MigratingInv /\ deaths \in 0 .. MaxDeaths /\ txn \in BOOLEAN
  BY <1>1 DEF UpgradeInv
<1>3. at.statement - 1 = 0
  BY <1>1, <1>2, LastMigration DEF MigratingInv
<1>4. db = HalfwayDatabase(Latest + 1, 0)
  <2>1. CASE txn
    BY <1>1, <1>2, <1>3, <2>1 DEF MigratingInv
  <2>2. CASE ~txn
    <3>1. PICK j \in 0 .. 0 : db = HalfwayDatabase(Latest + 1, j)
      BY <1>1, <1>2, <1>3, <2>2, LastMigration DEF MigratingInv
    <3> QED
      BY <3>1
  <2> QED
    BY <1>2, <2>1, <2>2
<1>5. db.version = Latest
  BY <1>4 DEF HalfwayDatabase, Latest
<1>6. DiskInv'
  <2>1. 0 \in 0 .. Prefix(Latest + 1) /\ Latest \in 0 .. Latest
    BY LastMigration
  <2> QED
    BY <1>1, <1>4, <1>5, <2>1 DEF DiskInv
<1>7. FirstOf(1) \in Positions
  BY DEF FirstOf, Positions, Latest
<1> QED
  BY <1>1, <1>2, <1>4, <1>5, <1>6, <1>7 DEF UpgradeInv

\* SQLite refuses nothing on a way no death has disturbed.
LEMMA FailKeeps == UpgradeInv /\ Fail => UpgradeInv'
<1> SUFFICES ASSUME UpgradeInv, Fail PROVE UpgradeInv'
  OBVIOUS
<1>1. /\ phase' = "down" /\ db' = disk /\ disk' = disk /\ ~txn' /\ txn' \in BOOLEAN
      /\ at' = FirstOf(1) /\ deaths' = deaths
      /\ phase = "migrating" /\ at.version <= Latest /\ Raises(Current)
  BY DEF Fail
<1> DEFINE w == at.version
           i == at.statement
           M == Migration[w]
<1>2. /\ w \in 1 .. Latest /\ i \in 1 .. Len(M) /\ Current = M[i]
      /\ db = HalfwayDatabase(w, i - 1) \/ deaths # 0
  BY <1>1, OnTheWay
<1>3. deaths # 0
  <2>1. /\ Len(M) \in Nat \ {0}
        /\ \A k \in 1 .. Len(M) - 1 :
               Takes(M[k], HalfwayDatabase(w, k - 1), HalfwayDatabase(w, k))
        /\ Takes(M[Len(M)], HalfwayDatabase(w, Len(M) - 1), HalfwayDatabase(w + 1, 0))
    BY <1>2, Walk
  <2> HIDE DEF M, w, i
  <2>2. i \in 1 .. Len(M) - 1 \/ i = Len(M)
    BY <1>2, <2>1
  <2>3. db = HalfwayDatabase(w, i - 1) => ~Raises(M[i])
    BY <2>1, <2>2 DEF Takes
  <2> QED
    BY <1>1, <1>2, <2>3
<1>4. DiskInv' /\ deaths \in 0 .. MaxDeaths
  BY <1>1 DEF UpgradeInv, DiskInv
<1>5. FirstOf(1) \in Positions
  BY DEF FirstOf, Positions, Latest
<1> QED
  BY <1>1, <1>3, <1>4, <1>5 DEF UpgradeInv

LEMMA DieKeeps == UpgradeInv /\ Die => UpgradeInv'
<1> SUFFICES ASSUME UpgradeInv, Die PROVE UpgradeInv'
  OBVIOUS
<1>1. /\ phase' = "down" /\ db' = disk /\ disk' = disk /\ ~txn' /\ txn' \in BOOLEAN
      /\ at' = FirstOf(1) /\ deaths' = deaths + 1 /\ deaths < MaxDeaths
  BY DEF Die
<1>2. DiskInv' /\ deaths' \in 0 .. MaxDeaths /\ deaths' # 0
  <2>1. deaths \in 0 .. MaxDeaths /\ MaxDeaths \in Nat
    BY InstalledAssumption DEF UpgradeInv
  <2>2. DiskInv'
    BY <1>1 DEF UpgradeInv, DiskInv
  <2> QED
    BY <1>1, <2>1, <2>2
<1>3. FirstOf(1) \in Positions
  BY DEF FirstOf, Positions, Latest
<1> QED
  BY <1>1, <1>2, <1>3 DEF UpgradeInv

LEMMA UpgradeStep == UpgradeInv /\ [UpgradeNext]_upgradeVars => UpgradeInv'
<1>1. UpgradeInv /\ UNCHANGED upgradeVars => UpgradeInv'
  BY DEF UpgradeInv, DiskInv, MigratingInv, upgradeVars
<1> QED
  BY <1>1, StartKeeps, StatementKeeps, FailKeeps, CommitKeeps, DieKeeps
  DEF UpgradeNext, StartUp

-----------------------------------------------------------------------------
(* What the invariant gives.                                                 *)

LEMMA HalfwayType ==
    ASSUME NEW w \in 1 .. Latest + 1, NEW j
    PROVE  Halfway(w, j) \in [Names -> TableStates]
<1>1. Old(w) \in [Names -> TableStates]
  BY OldTables
<1>2. \A t \in Names : RefersOf(t) \in Names \union {"none"}
  BY NamesAre DEF RefersOf
<1>3. \A g \in 0 .. Latest, b \in BOOLEAN, r \in Names \union {"none"} :
          Present(g, b, r) \in TableStates
  BY DEF Present, TableStates
<1>4. Absent \in TableStates
  BY DEF Absent, TableStates, Latest
<1>5. ASSUME NEW x \in 1 .. Latest + 1, x <= Latest, Old(x) \in [Names -> TableStates],
             NEW t \in Names, NEW u \in Names
      PROVE  /\ RebuildHalf(t, u, x, j) \in [Names -> TableStates]
             /\ AsideHalf(t, u, x, j) \in [Names -> TableStates]
  <2>1. x \in 0 .. Latest /\ TRUE \in BOOLEAN /\ FALSE \in BOOLEAN
    BY <1>5 DEF Latest
  <2>2. /\ Present(x, TRUE, RefersOf(t)) \in TableStates
        /\ Present(x, FALSE, RefersOf(t)) \in TableStates
    BY <1>2, <1>3, <2>1
  <2>3. \A a, b \in TableStates :
            /\ [Old(x) EXCEPT ![u] = a] \in [Names -> TableStates]
            /\ [Old(x) EXCEPT ![t] = a] \in [Names -> TableStates]
            /\ [Old(x) EXCEPT ![t] = a, ![u] = b] \in [Names -> TableStates]
    BY <1>5
  <2>4. Old(x)[t] \in TableStates
    BY <1>5
  <2> QED
    BY <1>4, <1>5, <2>2, <2>3, <2>4 DEF RebuildHalf, AsideHalf
<1>6. PairHalf(j) \in [Names -> TableStates]
  <2>1. /\ OldResults \in TableStates /\ HalfResults \in TableStates
        /\ NewResults \in TableStates /\ OldBackups \in TableStates
        /\ MovedBackups \in TableStates /\ HalfBackups \in TableStates
        /\ NewBackups \in TableStates
    <3>1. /\ 10 \in 0 .. Latest /\ 11 \in 0 .. Latest /\ 12 \in 0 .. Latest
          /\ TRUE \in BOOLEAN /\ FALSE \in BOOLEAN
      BY DEF Latest
    <3>2. /\ "execution_results" \in Names \union {"none"}
          /\ "_execution_results_v11" \in Names \union {"none"}
          /\ "none" \in Names \union {"none"}
      BY NamesAre
    <3> QED
      BY <1>3, <3>1, <3>2
      DEF OldResults, HalfResults, NewResults, OldBackups, MovedBackups, HalfBackups, NewBackups
  <2>2. Old(12) \in [Names -> TableStates]
    BY OldPair
  <2>3. \A r, s, x, y \in TableStates : Pair(r, s, x, y) \in [Names -> TableStates]
    BY <2>2 DEF Pair
  <2> QED
    BY <1>4, <2>1, <2>2, <2>3 DEF PairHalf
<1>7. New(w) \in [Names -> TableStates] \/ w = Latest + 1
  <2>1. w \in 0 .. Latest \/ w = Latest + 1
    BY DEF Latest
  <2> QED
    BY <2>1, CleanTables DEF New
<1>8. /\ "approval_requests" \in Names /\ "approval_requests_v3" \in Names
      /\ "execution_results" \in Names /\ "_execution_results_v9" \in Names
      /\ "skills" \in Names /\ "skills_v17" \in Names
      /\ "skills_v19" \in Names /\ "skills_v21" \in Names
  BY NamesAre
<1>9. CASE w \in {3, 10, 17, 19, 21}
  <2>1. w <= Latest
    BY <1>9 DEF Latest
  <2> QED
    BY <1>1, <1>5, <1>8, <1>9, <2>1 DEF Halfway
<1>10. CASE w = 12
  BY <1>6, <1>10 DEF Halfway
<1>11. CASE w \notin {3, 10, 12, 17, 19, 21}
  <2>1. Halfway(w, j) = Old(w) \/ (w \in {2, 6, 9, 11, 14} /\ Halfway(w, j) = New(w))
    BY <1>11 DEF Halfway
  <2>2. w \in {2, 6, 9, 11, 14} => w # Latest + 1
    BY DEF Latest
  <2> QED
    BY <1>1, <1>7, <2>1, <2>2
<1> QED
  BY <1>9, <1>10, <1>11

\* The rows of table t, in one of the tables.
HasRows(tables, t) == \E n \in NamesOf(t) : tables[n] # Absent /\ tables[n].whole

LEMMA PresentKept ==
    ASSUME NEW f, NEW t, NEW n \in NamesOf(t), NEW g \in Nat \ {0}, NEW r,
           f[n] = Present(g, TRUE, r)
    PROVE  HasRows(f, t)
<1>1. Present(g, TRUE, r) # Absent
  BY NotAbsent
<1>2. Present(g, TRUE, r).whole
  BY DEF Present
<1> QED
  BY <1>1, <1>2 DEF HasRows

\* Every installation has them under the table's own name.
LEMMA CleanKept ==
    ASSUME NEW v \in 0 .. Latest, NEW t \in Tables, FormAt(t, v) # 0
    PROVE  /\ FormAt(t, v) \in Nat \ {0}
           /\ Clean(v).tables[t] = Present(FormAt(t, v), TRUE, RefersOf(t))
           /\ HasRows(Clean(v).tables, t)
<1>1. FormAt(t, v) \in Nat \ {0}
  BY Forms DEF Tables, Latest
<1>2. Clean(v).tables[t] = Present(FormAt(t, v), TRUE, RefersOf(t))
  BY CleanTables, InstalledIs
<1>3. t \in NamesOf(t)
  BY DEF NamesOf
<1> DEFINE f == Clean(v).tables
           g == FormAt(t, v)
<1>4. f[t] = Present(g, TRUE, RefersOf(t)) /\ g \in Nat \ {0}
  BY <1>1, <1>2
<1> HIDE DEF f, g
<1>5. HasRows(f, t)
  BY <1>3, <1>4, PresentKept
<1> QED
  BY <1>1, <1>2, <1>5 DEF f

\* What a migration does not touch it keeps.
LEMMA OthersKept ==
    ASSUME NEW w \in 1 .. Latest + 1, NEW t \in Tables, FormAt(t, w - 1) # 0
    PROVE  /\ HasRows(Old(w), t)
           /\ \A f : f[t] = Old(w)[t] => HasRows(f, t)
           /\ \A f, u : u \in NamesOf(t) /\ f[u] = Old(w)[t] => HasRows(f, t)
<1> DEFINE g == FormAt(t, w - 1)
<1>1. w - 1 \in 0 .. Latest
  BY DEF Latest
<1>2. /\ g \in Nat \ {0}
      /\ Clean(w - 1).tables[t] = Present(g, TRUE, RefersOf(t))
  BY <1>1, CleanKept
<1>3. Old(w)[t] = Present(g, TRUE, RefersOf(t))
  BY <1>2 DEF Old
<1> HIDE DEF g
<1>4. ASSUME NEW f, NEW u \in NamesOf(t), f[u] = Old(w)[t]
      PROVE  HasRows(f, t)
  <2>1. f[u] = Present(g, TRUE, RefersOf(t))
    BY <1>3, <1>4
  <2> QED
    BY <1>2, <2>1, PresentKept
<1>5. t \in NamesOf(t)
  BY DEF NamesOf
<1> QED
  BY <1>4, <1>5

LEMMA RebuildKeeps ==
    ASSUME NEW w \in 1 .. Latest, NEW x \in Tables, NEW u \in Names, u \notin Tables,
           u \in NamesOf(x), NEW t \in Tables, FormAt(t, w - 1) # 0, NEW j
    PROVE  HasRows(RebuildHalf(x, u, w, j), t) /\ HasRows(AsideHalf(x, u, w, j), t)
<1>1. w \in 1 .. Latest + 1 /\ w \in Nat \ {0}
  BY DEF Latest
<1> DEFINE F == RebuildHalf(x, u, w, j)
           G == AsideHalf(x, u, w, j)
           f == Old(w)
           new == Present(w, TRUE, RefersOf(x))
           half == Present(w, FALSE, RefersOf(x))
<1>2. /\ \A e : e[t] = f[t] => HasRows(e, t)
      /\ \A e : u \in NamesOf(t) /\ e[u] = f[t] => HasRows(e, t)
  BY <1>1, OthersKept
<1>3. /\ F \in {f, [f EXCEPT ![u] = half], [f EXCEPT ![u] = new],
               [f EXCEPT ![x] = Absent, ![u] = new], [f EXCEPT ![x] = new]}
      /\ G \in {f, [f EXCEPT ![x] = Absent, ![u] = f[x]], [f EXCEPT ![x] = half, ![u] = f[x]],
               [f EXCEPT ![x] = new, ![u] = f[x]], [f EXCEPT ![x] = new]}
  BY DEF RebuildHalf, AsideHalf
<1>4. f \in [Names -> TableStates] /\ x \in Names /\ x # u /\ t # u /\ t \in Names
  BY <1>1, OldTables DEF Names
<1>5. \A e, n : n \in NamesOf(x) /\ e[n] = new => HasRows(e, x)
  <2>1. ASSUME NEW e, NEW n \in NamesOf(x), e[n] = new PROVE HasRows(e, x)
    <3>1. e[n] = Present(w, TRUE, RefersOf(x))
      BY <2>1
    <3> HIDE DEF new
    <3> QED
      BY <1>1, <3>1, PresentKept
  <2> QED
    BY <2>1
<1>6. x \in NamesOf(x)
  BY DEF NamesOf
<1> HIDE DEF F, G, f, new, half
<1>7. CASE t # x
  <2>1. F[t] = f[t]
    BY <1>3, <1>4, <1>7
  <2>2. G[t] = f[t]
    BY <1>3, <1>4, <1>7
  <2> QED
    BY <1>2, <2>1, <2>2 DEF F, G
<1>8. CASE t = x
  <2>1. F[x] = f[x] \/ F[u] = new \/ F[x] = new
    BY <1>3, <1>4
  <2>2. G[x] = f[x] \/ G[u] = f[x] \/ G[x] = new
    BY <1>3, <1>4
  <2>3. HasRows(F, x)
    BY <1>2, <1>5, <1>6, <1>8, <2>1
  <2>4. HasRows(G, x)
    BY <1>2, <1>5, <1>6, <1>8, <2>2
  <2> QED
    BY <1>8, <2>3, <2>4 DEF F, G
<1> QED
  BY <1>7, <1>8

LEMMA PairKeeps ==
    ASSUME NEW t \in Tables, FormAt(t, 11) # 0, NEW j
    PROVE  HasRows(PairHalf(j), t)
<1>1. 12 - 1 = 11 /\ 12 \in 1 .. Latest + 1 /\ 10 # 0 /\ 11 # 0 /\ 12 # 0
  BY DEF Latest
<1>2. HasRows(Old(12), t) /\ \A f : f[t] = Old(12)[t] => HasRows(f, t)
  BY <1>1, OthersKept
<1> DEFINE x == "execution_results"
           u == "_execution_results_v11"
           b == "execution_file_backups"
           c == "_execution_file_backups_v11"
<1>3. IsPair(x, u, b, c)
  BY DEF IsPair
<1>4. /\ x \in Names /\ u \in Names /\ b \in Names /\ c \in Names
      /\ x # u /\ x # b /\ x # c /\ u # b /\ u # c /\ b # c
      /\ Old(12) \in [Names -> TableStates]
  BY <1>3, PairStates
<1>5. x \in NamesOf(x) /\ u \in NamesOf(x) /\ b \in NamesOf(b) /\ c \in NamesOf(b)
  BY DEF NamesOf, Leftover
<1>6. t \in Names /\ (t \notin {x, b} => t # x /\ t # u /\ t # b /\ t # c)
  BY NamesAre DEF Tables
<1>7. \A r, s, y, z : Pair(r, s, y, z) = [Old(12) EXCEPT ![x] = r, ![u] = s,
                                                        ![b] = y, ![c] = z]
  BY <1>3, PairStates
<1>8. \A f, n, g, r : n \in NamesOf(t) /\ g \in Nat \ {0} /\ f[n] = Present(g, TRUE, r)
                          => HasRows(f, t)
  BY PresentKept
<1>9. /\ OldResults.whole = TRUE /\ NewResults.whole = TRUE
      /\ OldBackups.whole = TRUE /\ MovedBackups.whole = TRUE /\ NewBackups.whole = TRUE
  BY Presence DEF OldResults, NewResults, OldBackups, MovedBackups, NewBackups
<1>10. /\ OldResults # Absent /\ OldBackups # Absent /\ MovedBackups # Absent
       /\ NewResults # Absent /\ NewBackups # Absent
  BY <1>3, PairRows
<1> HIDE DEF x, u, b, c
<1>11. \A r, s, y, z : LET P == Pair(r, s, y, z) IN
           /\ P[x] = r /\ P[u] = s /\ P[b] = y /\ P[c] = z
           /\ t \notin {x, b} => P[t] = Old(12)[t]
  BY <1>4, <1>6, <1>7
<1>12. \A f, n : n \in NamesOf(t) /\ f[n] # Absent /\ f[n].whole = TRUE => HasRows(f, t)
  BY DEF HasRows
<1> DEFINE Shape(f) == \/ f = Old(12)
                       \/ \E r, s, y, z : /\ f = Pair(r, s, y, z)
                                          /\ r \in {OldResults, NewResults} \/ s = OldResults
                                          /\ \/ y = NewBackups
                                             \/ z \in {OldBackups, MovedBackups}
<1>13. Shape(PairHalf(j))
  BY DEF PairHalf
<1>14. ASSUME NEW f, Shape(f) PROVE HasRows(f, t)
  <2>1. CASE f = Old(12)
    BY <1>2, <2>1
  <2>2. ASSUME NEW r, NEW s, NEW y, NEW z, f = Pair(r, s, y, z),
               r \in {OldResults, NewResults} \/ s = OldResults,
               y = NewBackups \/ z \in {OldBackups, MovedBackups}
        PROVE  HasRows(f, t)
    <3>1. /\ f[x] = r /\ f[u] = s /\ f[b] = y /\ f[c] = z
          /\ t \notin {x, b} => f[t] = Old(12)[t]
      BY <1>11, <2>2
    <3>2. CASE t = x
      <4>1. \/ f[x] # Absent /\ f[x].whole = TRUE
            \/ f[u] # Absent /\ f[u].whole = TRUE
        BY <1>9, <1>10, <2>2, <3>1
      <4> QED
        BY <1>5, <1>12, <3>2, <4>1
    <3>3. CASE t = b
      <4>1. \/ f[b] # Absent /\ f[b].whole = TRUE
            \/ f[c] # Absent /\ f[c].whole = TRUE
        BY <1>9, <1>10, <2>2, <3>1
      <4> QED
        BY <1>5, <1>12, <3>3, <4>1
    <3>4. CASE t \notin {x, b}
      BY <1>2, <3>1, <3>4
    <3> QED
      BY <3>2, <3>3, <3>4
  <2> QED
    BY <1>14, <2>1, <2>2
<1> QED
  BY <1>13, <1>14

\* Wherever an upgrade is, every table's rows are in one of its tables.
LEMMA HalfwayKeeps ==
    ASSUME NEW w \in 1 .. Latest + 1, NEW j, NEW t \in Tables, FormAt(t, w - 1) # 0
    PROVE  HasRows(Halfway(w, j), t)
<1>1. CASE w \in {3, 10, 17, 19, 21}
  <2>1. w \in 1 .. Latest
    BY <1>1 DEF Latest
  <2>2. /\ "approval_requests" \in Tables /\ "execution_results" \in Tables
        /\ "skills" \in Tables
        /\ \A n \in {"approval_requests_v3", "_execution_results_v9", "skills_v17",
                     "skills_v19", "skills_v21"} : n \in Names /\ n \notin Tables
    BY NamesAre DEF Tables
  <2>3. /\ "approval_requests_v3" \in NamesOf("approval_requests")
        /\ "_execution_results_v9" \in NamesOf("execution_results")
        /\ \A n \in {"skills_v17", "skills_v19", "skills_v21"} : n \in NamesOf("skills")
    BY DEF NamesOf, Leftover
  <2>4. \A x \in Tables, u \in Names : u \notin Tables /\ u \in NamesOf(x) =>
            HasRows(RebuildHalf(x, u, w, j), t) /\ HasRows(AsideHalf(x, u, w, j), t)
    BY <2>1, RebuildKeeps
  <2> QED
    BY <1>1, <2>2, <2>3, <2>4 DEF Halfway
<1>2. CASE w = 12
  <2>1. 12 - 1 = 11
    OBVIOUS
  <2> QED
    BY <1>2, <2>1, PairKeeps DEF Halfway
<1>3. CASE w \notin {3, 10, 12, 17, 19, 21}
  <2>1. Halfway(w, j) = Old(w) \/ (w \in {2, 6, 9, 11, 14} /\ Halfway(w, j) = New(w))
    BY <1>3 DEF Halfway
  <2>2. HasRows(Old(w), t)
    BY OthersKept
  <2>3. ASSUME w \in {2, 6, 9, 11, 14} PROVE HasRows(New(w), t)
    <3>1. w \in 0 .. Latest /\ w - 1 \in 0 .. Latest
      BY <2>3 DEF Latest
    <3>2. FormAt(t, w) # 0
      BY <2>3, <3>1, Forms DEF Tables
    <3> QED
      BY <3>1, <3>2, CleanKept DEF New
  <2> QED
    BY <2>1, <2>2, <2>3
<1> QED
  BY <1>1, <1>2, <1>3

LEMMA InvTypes == UpgradeInv => UpgradeTypeOK
<1> SUFFICES ASSUME UpgradeInv PROVE UpgradeTypeOK
  OBVIOUS
<1>1. \A w \in 1 .. Latest + 1 : \A j : HalfwayDatabase(w, j) \in Databases
  <2>1. ASSUME NEW w \in 1 .. Latest + 1, NEW j PROVE HalfwayDatabase(w, j) \in Databases
    <3>1. Halfway(w, j) \in [Names -> TableStates]
      BY HalfwayType
    <3>2. w - 1 \in 0 .. Latest
      BY DEF Latest
    <3> QED
      BY <3>1, <3>2 DEF HalfwayDatabase, Databases
  <2> QED
    BY <2>1
<1>2. disk \in Databases
  <2>1. disk.version + 1 \in 1 .. Latest + 1
    BY DEF UpgradeInv, DiskInv, Latest
  <2> QED
    BY <1>1, <2>1 DEF UpgradeInv, DiskInv
<1>3. db \in Databases
  <2>1. CASE phase = "migrating" /\ txn
    <3>1. MigratingInv /\ at \in Positions
      BY <2>1 DEF UpgradeInv
    <3>2. at.version \in 1 .. Latest + 1
      BY <3>1 DEF Positions
    <3> QED
      BY <1>1, <2>1, <3>1, <3>2 DEF MigratingInv
  <2>2. CASE ~(phase = "migrating" /\ txn)
    <3>1. db = disk
      BY <2>2 DEF UpgradeInv, MigratingInv
    <3> QED
      BY <1>2, <3>1
  <2> QED
    BY <2>1, <2>2
<1> QED
  BY <1>2, <1>3 DEF UpgradeInv, UpgradeTypeOK

LEMMA InvRows == UpgradeInv => RowsSurvive
<1> SUFFICES ASSUME UpgradeInv, NEW t \in Tables, FormAt(t, disk.version) # 0
             PROVE  HasRows(disk.tables, t)
  BY DEF RowsSurvive, HasRows
<1> DEFINE w == disk.version + 1
<1>1. w \in 1 .. Latest + 1 /\ w - 1 = disk.version
  BY DEF UpgradeInv, DiskInv, Latest
<1>2. PICK j : disk = HalfwayDatabase(w, j)
  BY DEF UpgradeInv, DiskInv
<1>3. disk.tables = Halfway(w, j)
  BY <1>2 DEF HalfwayDatabase
<1> HIDE DEF w
<1>4. HasRows(Halfway(w, j), t)
  BY <1>1, HalfwayKeeps
<1> QED
  BY <1>3, <1>4

LEMMA InvServes == UpgradeInv => ServesLatest
<1> SUFFICES ASSUME UpgradeInv, phase = "serving"
             PROVE  disk = db /\ disk = Clean(Latest)
  BY DEF ServesLatest
<1>1. disk = db /\ disk.version = Latest /\ DiskInv
  BY DEF UpgradeInv
<1>2. PICK j \in 0 .. 0 : disk = HalfwayDatabase(Latest + 1, j)
  BY <1>1, LastMigration DEF DiskInv
<1>3. (Latest + 1) - 1 = Latest
  BY DEF Latest
<1>4. HalfwayDatabase(Latest + 1, 0) = Clean(Latest)
  BY <1>3, Begins, LastMigration
<1> QED
  BY <1>1, <1>2, <1>4

\* No start-up that was never interrupted leaves anything but a clean
\* installation behind, of one version or another.
UndisturbedIsClean == deaths = 0 /\ phase # "migrating" => disk = Clean(disk.version)

LEMMA InvClean == UpgradeInv => UndisturbedIsClean
<1> SUFFICES ASSUME UpgradeInv, deaths = 0, phase # "migrating"
             PROVE  disk = Clean(disk.version)
  BY DEF UndisturbedIsClean
<1>1. disk = HalfwayDatabase(disk.version + 1, 0)
  BY DEF UpgradeInv
<1>2. disk.version + 1 \in 1 .. Latest + 1 /\ (disk.version + 1) - 1 = disk.version
  BY DEF UpgradeInv, DiskInv, Latest
<1> QED
  BY <1>1, <1>2, Begins

\* SQLite refuses a statement only on a database that an interrupted upgrade
\* has left between two versions: nothing else makes a start-up fail.
FailsOnlyStranded ==
    phase = "migrating" /\ at.version <= Latest /\ Raises(Current) => Stranded

\* The databases on which a statement of the prefix is refused are stranded.
LEMMA StickingStrands ==
    ASSUME NEW w \in 1 .. Latest, NEW j \in 1 .. Prefix(w), Sticks(w, j),
           disk = HalfwayDatabase(w, j)
    PROVE  Stranded
<1>1. disk.tables = Halfway(w, j) /\ disk.version = w - 1
  BY DEF HalfwayDatabase
<1>2. \A n \in Leftovers : Halfway(w, j)[n] # Absent => Stranded
  BY <1>1 DEF Stranded
<1>3. w \in 1 .. Latest + 1
  BY DEF Latest
<1>4. ASSUME NEW t, NEW u, IsRebuild(w, t, u) PROVE Stranded
  <2>1. Prefix(w) = 1
    BY <1>4 DEF IsRebuild, Prefix, Latest
  <2>2. j = 1
    BY <2>1
  <2>3. Halfway(w, j) = RebuildHalf(t, u, w, j)
    BY <1>4, RebuildTables
  <2>4. RebuildHalf(t, u, w, 1) = [Old(w) EXCEPT ![u] = Present(w, FALSE, RefersOf(t))]
    BY DEF RebuildHalf
  <2>5. u \in Names /\ Old(w) \in [Names -> TableStates]
    BY <1>3, <1>4, RebuildTables, OldTables
  <2>6. w # 0
    BY <1>3
  <2>7. Present(w, FALSE, RefersOf(t)) # Absent
    BY <2>6, NotAbsent
  <2>8. u \in Leftovers
    BY <1>4, NamesAre DEF IsRebuild
  <2>9. Halfway(w, j)[u] # Absent
    BY <2>2, <2>3, <2>4, <2>5, <2>7
  <2> QED
    BY <1>2, <2>8, <2>9
<1>5. CASE w = 10
  <2> DEFINE t == "execution_results"
             u == "_execution_results_v9"
  <2>1. j = 1 \/ j = 2
    <3>1. Prefix(w) = 2
      BY <1>5 DEF Prefix
    <3> QED
      BY <3>1
  <2>2. Halfway(w, j) = AsideHalf(t, u, w, j)
    BY <1>5 DEF Halfway
  <2>3. AsideHalf(t, u, w, j) \in
            {[Old(w) EXCEPT ![t] = Absent, ![u] = Old(w)[t]],
             [Old(w) EXCEPT ![t] = Present(w, FALSE, RefersOf(t)), ![u] = Old(w)[t]]}
    <3> HIDE DEF t, u
    <3>1. CASE j = 1
      BY <3>1 DEF AsideHalf
    <3>2. CASE j = 2
      BY <3>2 DEF AsideHalf
    <3> QED
      BY <2>1, <3>1, <3>2
  <2>4. t \in Names /\ u \in Names /\ u \in Leftovers /\ t # u
    BY NamesAre
  <2>5. Old(w) \in [Names -> TableStates]
    BY <1>3, OldTables
  <2>6. Old(w)[t] # Absent
    <3>1. ChangesOne(t, 10) /\ ~First(10)
      BY DEF ChangesOne, First
    <3> HIDE DEF t
    <3>2. \E g \in 1 .. 10 - 1 : Old(10)[t] = Present(g, TRUE, RefersOf(t))
      BY <3>1, OneChange
    <3>3. \A g \in 1 .. 10 - 1 : g # 0
      OBVIOUS
    <3> QED
      BY <1>5, <3>2, <3>3, NotAbsent
  <2> HIDE DEF t, u
  <2>7. AsideHalf(t, u, w, j)[u] = Old(w)[t]
    BY <2>3, <2>4, <2>5
  <2> QED
    BY <1>2, <2>2, <2>4, <2>6, <2>7
<1>6. CASE w = 12
  <2> DEFINE t == "execution_results"
             u == "_execution_results_v11"
             b == "execution_file_backups"
             c == "_execution_file_backups_v11"
  <2>1. IsPair(t, u, b, c)
    BY DEF IsPair
  <2>2. c \in Leftovers
    BY NamesAre
  <2>3. j = 1 \/ j = 2 \/ j = 3
    <3>1. Prefix(w) = 3
      BY <1>6 DEF Prefix
    <3> QED
      BY <3>1
  <2>4. Halfway(w, j) = PairHalf(j)
    BY <1>6 DEF Halfway
  <2>5. PairHalf(j) \in {Pair(OldResults, Absent, Absent, OldBackups),
                         Pair(Absent, OldResults, Absent, MovedBackups),
                         Pair(HalfResults, OldResults, Absent, MovedBackups)}
    BY <2>3 DEF PairHalf
  <2> HIDE DEF t, u, b, c
  <2>6. \A r, s, x, y : Pair(r, s, x, y)[c] = y
    BY <2>1, PairStates
  <2>7. OldBackups # Absent /\ MovedBackups # Absent
    BY <2>1, PairRows
  <2>8. PairHalf(j)[c] # Absent
    BY <2>5, <2>6, <2>7
  <2> QED
    BY <1>2, <2>2, <2>4, <2>8
<1>7. CASE w = 6 /\ j = 2
  <2>1. Halfway(w, j) = New(w)
    BY <1>7 DEF Halfway
  <2>2. 6 \in 0 .. Latest /\ 6 # 0 /\ 6 - 1 < 6
    BY DEF Latest
  <2>3. FormAt("approval_requests", 6) = 6
    BY <2>2, Forms
  <2>4. New(6)["approval_requests"] = Present(6, TRUE, RefersOf("approval_requests"))
    <3>1. "approval_requests" \in Tables
      BY DEF Tables
    <3> QED
      BY <2>2, <2>3, <3>1, CleanKept DEF New
  <2>5. New(6)["approval_requests"].form = 6
    <3> DEFINE r == RefersOf("approval_requests")
               x == New(6)["approval_requests"]
    <3>1. x = Present(6, TRUE, r)
      BY <2>4
    <3> HIDE DEF r, x
    <3>2. \A g : Present(g, TRUE, r).form = g
      BY NewRow
    <3>3. x.form = 6
      BY <3>1, <3>2
    <3> QED
      BY <3>3 DEF x
  <2>6. disk.version = 6 - 1 /\ disk.tables = New(6)
    BY <1>1, <1>7, <2>1
  <2> QED
    BY <2>2, <2>5, <2>6 DEF Stranded
<1>8. CASE Rebuilds(w)
  <2>1. w \in {10, 12} \/ \E t, u : IsRebuild(w, t, u)
    BY <1>8 DEF Rebuilds, IsRebuild
  <2> QED
    BY <1>4, <1>5, <1>6, <2>1
<1> QED
  BY <1>7, <1>8 DEF Sticks

LEMMA InvStranded == UpgradeInv => FailsOnlyStranded
<1> SUFFICES ASSUME UpgradeInv, phase = "migrating", at.version <= Latest, Raises(Current)
             PROVE  Stranded
  BY DEF FailsOnlyStranded
<1> DEFINE w == at.version
           i == at.statement
           M == Migration[w]
           m == Len(M)
           H(j) == HalfwayDatabase(w, j)
<1>1. /\ w \in 1 .. Latest /\ i \in 1 .. m /\ Current = M[i]
      /\ \/ db = H(i - 1)
         \/ ~txn /\ \E j \in i .. Prefix(w) : db = H(j)
  BY OnTheWay
<1>2. ~txn => db = disk
  BY DEF UpgradeInv, MigratingInv
<1>3. /\ m \in Nat \ {0}
      /\ \A k \in 1 .. m - 1 : Takes(M[k], H(k - 1), H(k))
      /\ Takes(M[m], H(m - 1), HalfwayDatabase(w + 1, 0))
      /\ Prefix(w) \in 0 .. m - 1
      /\ \A k, j \in 1 .. Prefix(w) : k <= j =>
             Takes(M[k], H(j), H(j)) \/ (RaisesOn(M[k], H(j)) /\ Sticks(w, j))
  BY <1>1, Walk
<1> HIDE DEF w, i, M, m, H
<1>4. db # H(i - 1)
  <2>1. i \in 1 .. m - 1 \/ i = m
    BY <1>1, <1>3
  <2>2. db = H(i - 1) => ~Raises(M[i])
    BY <1>3, <2>1 DEF Takes
  <2> QED
    BY <1>1, <2>2
<1>5. PICK j \in i .. Prefix(w) : db = H(j) /\ disk = H(j)
  BY <1>1, <1>2, <1>4
<1>6. i \in 1 .. Prefix(w) /\ j \in 1 .. Prefix(w) /\ i <= j
  BY <1>1, <1>3, <1>5
<1>7. ~Takes(M[i], H(j), H(j))
  BY <1>1, <1>5 DEF Takes
<1>8. Sticks(w, j)
  BY <1>3, <1>6, <1>7
<1>9. disk = HalfwayDatabase(w, j)
  BY <1>5 DEF H
<1> QED
  BY <1>1, <1>6, <1>8, <1>9, StickingStrands

-----------------------------------------------------------------------------
(* The theorems.                                                             *)

LEMMA UpgradeInvariance == UpgradeSpec => []UpgradeInv
  BY UpgradeStarts, UpgradeStep, PTL DEF UpgradeSpec

\* The start-up keeps to the states it knows, whichever version a database is
\* of and however often the process dies (init_db, _ensure_schema).
THEOREM UpgradeTypes == UpgradeSpec => []UpgradeTypeOK
  BY UpgradeInvariance, InvTypes, PTL

\* No row is lost by any upgrade, interrupted at any statements any number of
\* times (RowsSurvive).
THEOREM RowsKept == UpgradeSpec => []RowsSurvive
  BY UpgradeInvariance, InvRows, PTL

\* A server that serves has exactly the latest schema (ServesLatest).
THEOREM LatestServed == UpgradeSpec => []ServesLatest
  BY UpgradeInvariance, InvServes, PTL

\* A start-up fails on nothing but a database between two versions, and only a
\* death leaves one (_ensure_schema, sqlite3's autocommit of DDL).
THEOREM OnlyStrandedFails == UpgradeSpec => [](FailsOnlyStranded /\ UndisturbedIsClean)
  BY UpgradeInvariance, InvStranded, InvClean, PTL

=============================================================================
