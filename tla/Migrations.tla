------------------------------ MODULE Migrations ------------------------------
(***************************************************************************)
(* `warder-api migrate' (internal/store/migrate.go): processes, possibly of  *)
(* different builds, bring one database up to date under an advisory lock  *)
(* of their session, one transaction for each file.  A process may lose    *)
(* its connection at any step: PostgreSQL then undoes what it had not      *)
(* committed and frees its lock, and somebody runs the command again.      *)
(*                                                                         *)
(* A file is its name, by its place in the order of names, and its body,   *)
(* which also stands for its checksum; a row of schema_migrations is the   *)
(* file that it records.                                                   *)
(***************************************************************************)
EXTENDS Integers, Sequences

CONSTANTS
  Processes,
  Bodies,   \* the texts of migration files
  Builds,
  Files,    \* what each build embeds, sorted by name
  Nobody

File == [filename : Nat, body : Bodies]

ASSUME MigrationAssumption ==
  /\ Files \in [Builds -> Seq(File)]
  /\ \A b \in Builds : \A i, j \in 1..Len(Files[b]) :
       i < j => Files[b][i].filename < Files[b][j].filename
  /\ Nobody \notin Processes

VARIABLES
  schema,   \* the files the database has executed and committed, in order
  table,    \* schema_migrations
  holder,   \* of the advisory lock
  at,       \* where each process is
  build,    \* what it was built from
  recorded, \* what it read from schema_migrations
  next      \* the place of the file it looks at

migrateVars == <<schema, table, holder, at, build, recorded, next>>

FileOf(p) == Files[build[p]][next[p]]

\* A file of the name that a process looks at was applied before it read the table.
Recorded(p) == \E row \in recorded[p] : row.filename = FileOf(p).filename

MigrateInit ==
  /\ schema = <<>> /\ table = {} /\ holder = Nobody
  /\ at = [p \in Processes |-> "off"]
  /\ build \in [Processes -> Builds]
  /\ recorded = [p \in Processes |-> {}]
  /\ next = [p \in Processes |-> 1]

\* A direct connection: a pooler is refused before anything is sent.
Connect(p, b) ==
  /\ at[p] = "off"
  /\ at' = [at EXCEPT ![p] = "connected"]
  /\ build' = [build EXCEPT ![p] = b]
  /\ recorded' = [recorded EXCEPT ![p] = {}]
  /\ next' = [next EXCEPT ![p] = 1]
  /\ UNCHANGED <<schema, table, holder>>

\* pg_advisory_lock waits until nobody holds it.
Lock(p) ==
  /\ at[p] = "connected" /\ holder = Nobody
  /\ holder' = p
  /\ at' = [at EXCEPT ![p] = "locked"]
  /\ UNCHANGED <<schema, table, build, recorded, next>>

ReadRecorded(p) ==
  /\ at[p] = "locked"
  /\ recorded' = [recorded EXCEPT ![p] = table]
  /\ at' = [at EXCEPT ![p] = "looping"]
  /\ UNCHANGED <<schema, table, holder, build, next>>

\* Mutant: a file name is enough.
SkipByName(p) ==
  /\ at[p] = "looping" /\ next[p] <= Len(Files[build[p]]) /\ Recorded(p)
  /\ next' = [next EXCEPT ![p] = @ + 1]
  /\ UNCHANGED <<schema, table, holder, at, build, recorded>>

\* The file was applied, and is the one that was applied.
Skip(p) ==
  /\ at[p] = "looping" /\ next[p] <= Len(Files[build[p]])
  /\ FileOf(p) \in recorded[p]
  /\ next' = [next EXCEPT ![p] = @ + 1]
  /\ UNCHANGED <<schema, table, holder, at, build, recorded>>

\* The file was not applied: its statements, in a transaction of its own.
Execute(p) ==
  /\ at[p] = "looping" /\ next[p] <= Len(Files[build[p]]) /\ ~Recorded(p)
  /\ at' = [at EXCEPT ![p] = "executed"]
  /\ UNCHANGED <<schema, table, holder, build, recorded, next>>

\* Its row, whose file name is the primary key, and COMMIT.
Commit(p) ==
  /\ at[p] = "executed"
  /\ \A row \in table : row.filename # FileOf(p).filename
  /\ schema' = Append(schema, FileOf(p))
  /\ table' = table \cup {FileOf(p)}
  /\ at' = [at EXCEPT ![p] = "looping"]
  /\ next' = [next EXCEPT ![p] = @ + 1]
  /\ UNCHANGED <<holder, build, recorded>>

\* Every return and every lost connection ends the session.  The loop ran to
\* its end; or a file was edited after it was applied; or a statement failed.
Close(p) ==
  /\ at[p] # "off"
  /\ at' = [at EXCEPT ![p] = "off"]
  /\ holder' = IF holder = p THEN Nobody ELSE holder
  /\ UNCHANGED <<schema, table, build, recorded, next>>

MigrateNext ==
  \E p \in Processes :
    \/ \E b \in Builds : Connect(p, b)
    \/ Lock(p) \/ ReadRecorded(p) \/ Skip(p) \/ Execute(p) \/ Commit(p) \/ Close(p)

MigrateSpec == MigrateInit /\ [][MigrateNext]_migrateVars

-----------------------------------------------------------------------------
(* Properties *)

Executed(f) == \E k \in 1..Len(schema) : schema[k] = f

\* The database starts empty and moves by one whole file at a time, never by two
\* of one name, and a file is only executed on top of what its build was written
\* for: everything before it in that build was executed, as that build has it.
\* No race, crash or edited file makes a process go on from another base.
EachFileOnItsBase ==
  /\ schema = <<>>
  /\ [][\E b \in Builds : \E i \in 1..Len(Files[b]) :
         /\ schema' = Append(schema, Files[b][i])
         /\ \A j \in 1..(i - 1) : Executed(Files[b][j])
         /\ \A k \in 1..Len(schema) : schema[k].filename # Files[b][i].filename]_schema
=============================================================================
