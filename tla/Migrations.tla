------------------------------ MODULE Migrations ------------------------------
(***************************************************************************)
(* store.Open: the versioned schema migrations (internal/store/migrate.go) *)
(* run by every backend instance that starts, statement by statement and   *)
(* without a transaction.  A schema object is a table, an index or a       *)
(* column.                                                                 *)
(***************************************************************************)
EXTENDS Integers, Sequences, FiniteSetsExt

CONSTANTS Instances   \* backend processes over one database

VARIABLES driver,    \* of the database: "sqlite" or "postgres"
          schema,    \* the objects that exist
          recorded,  \* rows of schema_migrations
          pc,        \* program point of each instance
          at         \* its migrate loop: current version, next statement and
                     \* what the look for a column answered

migrateVars == <<driver, schema, recorded, pc, at>>

-----------------------------------------------------------------------------
\* CREATE TABLE, INDEX IF NOT EXISTS and, on PostgreSQL, ADD COLUMN IF NOT
\* EXISTS can be repeated.
Create(o, on) == [kind |-> "create", object |-> o, on |-> on]

Table(t) == Create(t, {})

\* ALTER TABLE ... ADD COLUMN fails when the column exists.
Column(t, c) == [kind |-> "alter", object |-> c, on |-> {t}]

\* On SQLite one migration looks for the column in a statement of its own
\* and adds it when it was not there.
Probe(c) == [kind |-> "probe", object |-> c, on |-> {}]

IfAbsent(t, c) == [kind |-> "unless", object |-> c, on |-> {t}]

migrationInitial == <<Table("settings"), Table("tokens")>>

migrationTasks == <<Table("tasks"), Create("idx_tasks_status_created", {"tasks"})>>

migrationTasksAvailableAt ==
    <<Column("tasks", "tasks.available_at"),
      Create("idx_tasks_available", {"tasks.available_at"})>>

migrationRules == <<Table("rules")>>

migrationAuditLog ==
    <<Table("audit_log"), Create("idx_audit_token_created", {"audit_log"})>>

migrationArchives == <<Table("archives")>>

migrationWebSessions ==
    <<Table("web_sessions"), Create("idx_web_sessions_expires", {"web_sessions"})>>

migrationRuleExecutions ==
    <<Table("rule_executions"), Create("idx_rule_exec_rule_id", {"rule_executions"})>>

migrationTasksAISummary == <<Column("tasks", "tasks.ai_summary")>>

migrationTasksDependsOn ==
    <<Column("tasks", "tasks.depends_on"),
      Create("idx_tasks_depends_on", {"tasks.depends_on"})>>

migrationTasksSchedule ==
    <<Column("tasks", "tasks.name"), Column("tasks", "tasks.scheduled_at"),
      Column("tasks", "tasks.cron"), Column("tasks", "tasks.last_fired_at")>>

migrationSessionEvents ==
    <<Table("session_events"),
      Create("idx_session_events_session_created", {"session_events"}),
      Create("idx_session_events_created", {"session_events"})>>

migrationArchivesRawMessages ==
    IF driver = "postgres" THEN <<Create("archives.raw_messages", {"archives"})>>
    ELSE <<Probe("archives.raw_messages"), IfAbsent("archives", "archives.raw_messages")>>

migrationSessionUnread == <<Table("session_unread")>>

migrations ==
    <<migrationInitial, migrationTasks, migrationTasksAvailableAt, migrationRules,
      migrationAuditLog, migrationArchives, migrationWebSessions,
      migrationRuleExecutions, migrationTasksAISummary, migrationTasksDependsOn,
      migrationTasksSchedule, migrationSessionEvents,
      migrationArchivesRawMessages, migrationSessionUnread>>

Objects(v) == {migrations[v][k].object : k \in DOMAIN migrations[v]}

-----------------------------------------------------------------------------
Loop(v) == [version |-> v, next |-> 1, seen |-> FALSE]

Goto(i, to) == pc' = [pc EXCEPT ![i] = to]

\* An error of start-up ends the process: log.Fatalf in main.
Exit(i) == Goto(i, "down") /\ at' = [at EXCEPT ![i] = Loop(0)]

\* The loop of migrate ends at the newest version.
Continue(i, v) ==
    /\ Goto(i, IF v < Len(migrations) THEN "migrate" ELSE "initialize")
    /\ at' = [at EXCEPT ![i] = Loop(v)]

\* The connection is opened and schema_migrations created if missing.
Open(i) ==
    /\ pc[i] = "down"
    /\ schema' = schema \cup {"schema_migrations"}
    /\ Goto(i, "version")
    /\ UNCHANGED <<driver, recorded, at>>

currentVersion(i) ==
    /\ pc[i] = "version"
    /\ Continue(i, Max(recorded \cup {0}))
    /\ UNCHANGED <<driver, schema, recorded>>

\* Faulty variant: the last statement is left out.
AppliedButLast(i) == at[i].next >= Len(migrations[at[i].version + 1])

Applied(i) == at[i].next > Len(migrations[at[i].version + 1])

Statement(i) == migrations[at[i].version + 1][at[i].next]

Succeeds(s, seen) ==
    /\ s.on \subseteq schema
    /\ (s.kind = "alter" \/ (s.kind = "unless" /\ ~seen)) => s.object \notin schema

\* One statement of a migration's apply.
Apply(i) ==
    /\ pc[i] = "migrate" /\ ~Applied(i)
    /\ LET s == Statement(i) IN
       IF Succeeds(s, at[i].seen)
       THEN /\ schema' = IF s.kind = "probe" THEN schema ELSE schema \cup {s.object}
            /\ at' = [at EXCEPT ![i].next = @ + 1,
                                ![i].seen = s.kind = "probe" /\ s.object \in schema]
            /\ UNCHANGED pc
       ELSE Exit(i) /\ UNCHANGED schema
    /\ UNCHANGED <<driver, recorded>>

\* INSERT INTO schema_migrations: the version is the primary key.
Record(i) ==
    LET v == at[i].version + 1
    IN  /\ pc[i] = "migrate" /\ Applied(i)
        /\ IF v \notin recorded
           THEN recorded' = recorded \cup {v} /\ Continue(i, v)
           ELSE Exit(i) /\ UNCHANGED recorded
        /\ UNCHANGED <<driver, schema>>

\* A plain ADD COLUMN of the migration under way has been made.
HalfMigrated(i) ==
    pc[i] = "migrate" /\ \E k \in 1..(at[i].next - 1) :
        migrations[at[i].version + 1][k].kind = "alter"

=============================================================================
