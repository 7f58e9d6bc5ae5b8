---------------------------- MODULE StartupProofs ----------------------------
(* Theorems about Startup for any number of backend instances and crashes. *)
EXTENDS Startup, TLAPS

USE StartupAssumption

(* The list of migrations: fourteen, each a list of statements, and what a  *)
(* migration only looks for it also creates.                                *)
LEMMA MigrationsShape ==
    /\ Len(migrations) = 14 /\ DOMAIN migrations = 1..14
    /\ \A v \in 1..14 :
        /\ Len(migrations[v]) \in Nat
        /\ DOMAIN migrations[v] = 1..Len(migrations[v])
        /\ \A o \in Objects(v) : \E k \in DOMAIN migrations[v] :
              migrations[v][k].kind # "probe" /\ migrations[v][k].object = o
<1>1. Len(migrations) = 14 /\ DOMAIN migrations = 1..14
  BY DEF migrations
<1> DEFINE Shape(m) ==
        /\ Len(m) \in Nat
        /\ DOMAIN m = 1..Len(m)
        /\ \A j \in DOMAIN m : \E k \in DOMAIN m :
              m[k].kind # "probe" /\ m[k].object = m[j].object
<1>2. Shape(migrationInitial)  BY DEF migrationInitial, Table, Create
<1>3. Shape(migrationTasks)  BY DEF migrationTasks, Table, Create
<1>4. Shape(migrationTasksAvailableAt)  BY DEF migrationTasksAvailableAt, Column, Create
<1>5. Shape(migrationRules)  BY DEF migrationRules, Table, Create
<1>6. Shape(migrationAuditLog)  BY DEF migrationAuditLog, Table, Create
<1>7. Shape(migrationArchives)  BY DEF migrationArchives, Table, Create
<1>8. Shape(migrationWebSessions)  BY DEF migrationWebSessions, Table, Create
<1>9. Shape(migrationRuleExecutions)  BY DEF migrationRuleExecutions, Table, Create
<1>10. Shape(migrationTasksAISummary)  BY DEF migrationTasksAISummary, Column
<1>11. Shape(migrationTasksDependsOn)  BY DEF migrationTasksDependsOn, Column, Create
<1>12. Shape(migrationTasksSchedule)  BY DEF migrationTasksSchedule, Column
<1>13. Shape(migrationSessionEvents)  BY DEF migrationSessionEvents, Table, Create
<1>14. Shape(migrationArchivesRawMessages)
  <2> DEFINE c == "archives.raw_messages"
  <2>1. Shape(<<Create(c, {"archives"})>>)  BY DEF Create
  <2>2. Shape(<<Probe(c), IfAbsent("archives", c)>>)  BY DEF Probe, IfAbsent
  <2> HIDE DEF Shape
  <2> QED  BY <2>1, <2>2 DEF migrationArchivesRawMessages
<1>15. Shape(migrationSessionUnread)  BY DEF migrationSessionUnread, Table, Create
<1> HIDE DEF Shape
<1>16. \A v \in 1..14 : Shape(migrations[v])
  BY <1>2, <1>3, <1>4, <1>5, <1>6, <1>7, <1>8, <1>9, <1>10, <1>11, <1>12, <1>13, <1>14, <1>15
    DEF migrations
<1> QED  BY <1>1, <1>16 DEF Shape, Objects

(* How many there are. *)
LEMMA MigrationCount == Len(migrations) = 14
BY MigrationsShape

(* Its statements are numbered from 1. *)
LEMMA StatementsNumbered ==
    ASSUME NEW v \in Nat, v < Len(migrations)
    PROVE  \A k \in DOMAIN migrations[v + 1] : k \in Nat /\ k >= 1
<1>1. v + 1 \in 1..14  BY MigrationCount
<1>2. Len(migrations[v + 1]) \in Nat /\ DOMAIN migrations[v + 1] = 1..Len(migrations[v + 1])
  BY <1>1, MigrationsShape
<1> QED  BY <1>2

(* The list depends on the driver only, which never changes. *)
LEMMA MigrationsStay == UNCHANGED driver => UNCHANGED migrations
BY DEF migrations, migrationInitial, migrationTasks, migrationTasksAvailableAt,
    migrationRules, migrationAuditLog, migrationArchives, migrationWebSessions,
    migrationRuleExecutions, migrationTasksAISummary, migrationTasksDependsOn,
    migrationTasksSchedule, migrationSessionEvents, migrationArchivesRawMessages,
    migrationSessionUnread, Table, Create, Column, Probe, IfAbsent

(* MAX(version) over gapless rows is their number. *)
LEMMA CurrentVersion ==
    ASSUME NEW n \in Nat
    PROVE  Max((1..n) \cup {0}) = n
<1> DEFINE S == (1..n) \cup {0}
<1>1. n \in S /\ \A y \in S : y \in Int /\ n >= y
  OBVIOUS
<1>2. ASSUME NEW x \in S, \A y \in S : x >= y
      PROVE  x = n
  <2>1. x >= n /\ n >= x /\ x \in Int  BY <1>1, <1>2
  <2> QED  BY <2>1
<1>3. Max(S) \in S /\ \A y \in S : Max(S) >= y
  BY <1>1 DEF Max
<1> QED  BY <1>2, <1>3

(* The initial state satisfies the invariant. *)
LEMMA InitInv == Init => IInv
<1> SUFFICES ASSUME Init PROVE IInv
  OBVIOUS
<1>1. TypeOK
  <2>1. Loop(0) \in [version : Nat, next : Nat \ {0}, seen : BOOLEAN]
    BY DEF Loop
  <2>2. at \in [Instances -> [version : Nat, next : Nat \ {0}, seen : BOOLEAN]]
    BY <2>1 DEF Init
  <2>3. conf \in [password : Passwords, token : BOOLEAN]
    BY DEF Init
  <2>4. provided \in BOOLEAN
    BY DEF Init
  <2>5. driver \in {"sqlite", "postgres"} /\ pc \in [Instances -> Points]
    BY DEF Init, Points
  <2>6. password \in {"none", "initial", "changed"} /\ token \in {"none", "active", "revoked"}
    BY DEF Init
  <2> QED  BY <2>2, <2>3, <2>4, <2>5, <2>6 DEF TypeOK
<1>2. RecordedPrefix
  <2>1. recorded = 1..0 /\ 0 \in 0..Len(migrations)
    BY MigrationsShape DEF Init
  <2> QED  BY <2>1 DEF RecordedPrefix
<1>3. LoopSound /\ OpenComplete
  BY DEF Init, LoopSound, OpenComplete
<1> QED  BY <1>1, <1>2, <1>3 DEF IInv

(* The types survive every step. *)
LEMMA TypeStep ==
    ASSUME TypeOK, NEW i \in Instances, RecordedPrefix,
           \/ Opening(i) \/ Provision(i)
           \/ ChangePassword(i) \/ RevokeDefault(i) \/ Shutdown(i) \/ Crash(i)
    PROVE  TypeOK'
<1> DEFINE L == [version : Nat, next : Nat \ {0}, seen : BOOLEAN]
<1>0. \A v \in Nat : Loop(v) \in L
  BY DEF Loop
<1>1. UNCHANGED driver
  BY DEF Opening, Open, currentVersion, Apply, Record, Provision, Initialize, SetInitial,
    EnsureDefaultToken, CreateToken, SetProvided, MainStep, ChangePassword, RevokeDefault,
    Shutdown, Crash, migrateVars
<1>2. UNCHANGED conf
  BY DEF Opening, Provision, Initialize, SetInitial, EnsureDefaultToken, CreateToken,
    SetProvided, MainStep, ChangePassword, RevokeDefault, Shutdown, Crash
<1>3. pc' \in [Instances -> Points]
  BY DEF TypeOK, Points, Opening, Open, currentVersion, Apply, Record, Continue, Exit, Goto,
    Provision, Initialize, SetInitial, EnsureDefaultToken, CreateToken, SetProvided, MainStep,
    ChangePassword, RevokeDefault, Shutdown, Crash, migrateVars
<1>4. /\ password' \in {"none", "initial", "changed"}
      /\ token' \in {"none", "active", "revoked"}
  BY DEF TypeOK, Opening, Provision, Initialize, SetInitial, EnsureDefaultToken, CreateToken,
    SetProvided, ChangePassword, RevokeDefault, Shutdown, Crash, credentials
<1>5. provided' \in BOOLEAN
  BY DEF TypeOK, Opening, Provision, Initialize, SetInitial, EnsureDefaultToken, CreateToken,
    SetProvided, ChangePassword, RevokeDefault, Shutdown, Crash, credentials
<1>6. at' \in [Instances -> L]
  <2>0. at \in [Instances -> L] /\ Loop(0) \in L
    BY <1>0 DEF TypeOK
  <2>1. CASE currentVersion(i)
    <3>1. PICK n \in 0..Len(migrations) : recorded = 1..n
      BY DEF RecordedPrefix
    <3>2. n \in Nat
      BY <3>1, MigrationsShape
    <3>3. Max(recorded \cup {0}) = n
      BY <3>1, <3>2, CurrentVersion
    <3>4. at' = [at EXCEPT ![i] = Loop(n)] /\ Loop(n) \in L
      BY <2>1, <3>2, <3>3, <1>0 DEF currentVersion, Continue
    <3> QED  BY <2>0, <3>4
  <2>2. CASE Apply(i)
    <3>1. CASE at' = [at EXCEPT ![i] = Loop(0)]
      BY <2>0, <3>1
    <3>2. ASSUME NEW b \in BOOLEAN,
                 at' = [at EXCEPT ![i].next = @ + 1, ![i].seen = b]
          PROVE  at' \in [Instances -> L]
      <4>1. at[i] \in L  BY <2>0
      <4>2. [at[i] EXCEPT !.next = @ + 1, !.seen = b] \in L
        <5>1. [at[i] EXCEPT !.next = @ + 1] \in L
          BY <4>1
        <5>2. [[at[i] EXCEPT !.next = @ + 1] EXCEPT !.seen = b] \in L
          BY <5>1
        <5>3. [at[i] EXCEPT !.next = @ + 1, !.seen = b] =
                [[at[i] EXCEPT !.next = @ + 1] EXCEPT !.seen = b]
          BY <4>1
        <5> QED  BY <5>2, <5>3
      <4>3. at' = [at EXCEPT ![i] = [at[i] EXCEPT !.next = @ + 1, !.seen = b]]
        BY <2>0, <3>2
      <4> QED  BY <2>0, <4>2, <4>3
    <3> QED  BY <2>2, <3>1, <3>2 DEF Apply, Exit
  <2>3. CASE Record(i)
    <3>1. at[i].version + 1 \in Nat
      BY <2>0
    <3> QED  BY <2>0, <2>3, <3>1, <1>0 DEF Record, Continue, Exit
  <2>4. CASE Crash(i)
    BY <2>0, <2>4 DEF Crash, Exit
  <2>5. CASE ~(currentVersion(i) \/ Apply(i) \/ Record(i) \/ Crash(i))
    <3>1. UNCHANGED at
      BY <2>5 DEF Opening, Open, Provision, Initialize, SetInitial, EnsureDefaultToken,
        CreateToken, SetProvided, MainStep, ChangePassword, RevokeDefault, Shutdown, migrateVars
    <3> QED  BY <2>0, <3>1
  <2> QED  BY <2>1, <2>2, <2>3, <2>4, <2>5
<1> QED  BY <1>1, <1>2, <1>3, <1>4, <1>5, <1>6 DEF TypeOK

(* What keeps the rest: nothing is taken from the schema, no version is     *)
(* recorded, and nobody gets into the migrations or past them.              *)
LEMMA Quiet ==
    ASSUME IInv, UNCHANGED <<driver, recorded>>, schema \subseteq schema',
           \A j \in Instances :
               /\ pc'[j] = "migrate" => pc[j] = "migrate" /\ at'[j] = at[j]
               /\ pc'[j] \notin {"down", "version", "migrate"} =>
                      pc[j] \notin {"down", "version", "migrate"}
    PROVE  RecordedPrefix' /\ LoopSound' /\ OpenComplete'
<1>1. UNCHANGED migrations
  BY MigrationsStay
<1>2. RecordedPrefix'
  BY <1>1 DEF IInv, RecordedPrefix, Objects
<1>3. LoopSound'
  BY <1>1 DEF IInv, LoopSound, StatementsDone
<1>4. OpenComplete'
  BY <1>1 DEF IInv, OpenComplete
<1> QED  BY <1>2, <1>3, <1>4

(* Opening the store and reading the version. *)
LEMMA VersionStep ==
    ASSUME IInv, NEW i \in Instances, currentVersion(i)
    PROVE  RecordedPrefix' /\ LoopSound' /\ OpenComplete'
<1>0. PICK n \in 0..Len(migrations) : recorded = 1..n
  BY DEF IInv, RecordedPrefix
<1>1. n \in Nat /\ DOMAIN migrations = 1..Len(migrations) /\ Len(migrations) \in Nat
  BY MigrationsShape
<1>2. Max(recorded \cup {0}) = n
  BY <1>0, <1>1, CurrentVersion
<1>3. UNCHANGED <<driver, schema, recorded>> /\ UNCHANGED migrations
  BY MigrationsStay DEF currentVersion
<1>4. /\ pc' = [pc EXCEPT ![i] = IF n < Len(migrations) THEN "migrate" ELSE "initialize"]
      /\ at' = [at EXCEPT ![i] = Loop(n)]
  BY <1>2 DEF currentVersion, Continue, Goto
<1>5. RecordedPrefix'
  BY <1>3 DEF IInv, RecordedPrefix, Objects
<1>6. LoopSound'
  <2> SUFFICES ASSUME NEW j \in Instances, pc'[j] = "migrate"
               PROVE  /\ at'[j].version < Len(migrations)
                      /\ 1..at'[j].version \subseteq recorded
                      /\ StatementsDone(j)'
    BY <1>3 DEF LoopSound
  <2>1. CASE j = i
    <3>1. n < Len(migrations) /\ at'[i] = Loop(n)
      BY <1>4, <2>1 DEF IInv, TypeOK
    <3>2. at'[i].version = n /\ at'[i].next = 1
      BY <3>1 DEF Loop
    <3>3. \A k \in DOMAIN migrations[n + 1] : k \in Nat /\ k >= 1
      BY <1>1, <3>1, StatementsNumbered
    <3>4. StatementsDone(i)'
      BY <1>3, <3>2, <3>3 DEF StatementsDone
    <3> QED  BY <1>0, <2>1, <3>1, <3>2, <3>4
  <2>2. CASE j # i
    <3>1. pc[j] = "migrate" /\ at'[j] = at[j]
      BY <1>4, <2>2 DEF IInv, TypeOK
    <3> QED  BY <1>3, <3>1 DEF IInv, LoopSound, StatementsDone
  <2> QED  BY <2>1, <2>2
<1>7. OpenComplete'
  <2> SUFFICES ASSUME NEW j \in Instances, pc'[j] \notin {"down", "version", "migrate"}
               PROVE  recorded = DOMAIN migrations
    BY <1>3 DEF OpenComplete
  <2>1. CASE j = i
    <3>1. ~(n < Len(migrations))
      BY <1>4, <2>1 DEF IInv, TypeOK
    <3>2. n = 14
      BY <1>0, <3>1, MigrationCount
    <3> QED  BY <1>0, <3>2, MigrationsShape
  <2>2. CASE j # i
    <3>1. pc'[j] = pc[j]
      BY <1>4, <2>2 DEF IInv, TypeOK
    <3> QED  BY <3>1 DEF IInv, OpenComplete
  <2> QED  BY <2>1, <2>2
<1> QED  BY <1>5, <1>6, <1>7

(* One statement of a migration that succeeds leaves its object in place. *)
LEMMA ApplyStep ==
    ASSUME IInv, NEW i \in Instances, Apply(i)
    PROVE  RecordedPrefix' /\ LoopSound' /\ OpenComplete'
<1> DEFINE s == Statement(i)
<1>1. UNCHANGED <<driver, recorded>> /\ UNCHANGED migrations /\ pc[i] = "migrate"
  BY MigrationsStay DEF Apply
<1>2. CASE Succeeds(s, at[i].seen)
  <2>1. /\ schema' = IF s.kind = "probe" THEN schema ELSE schema \cup {s.object}
        /\ UNCHANGED pc
        /\ \A j \in Instances : j # i => at'[j] = at[j]
        /\ at'[i].version = at[i].version /\ at'[i].next = at[i].next + 1
    BY <1>2 DEF Apply, IInv, TypeOK
  <2>2. RecordedPrefix' /\ OpenComplete'
    BY <1>1, <2>1 DEF IInv, RecordedPrefix, OpenComplete, Objects
  <2>3. LoopSound'
    <3> SUFFICES ASSUME NEW j \in Instances, pc'[j] = "migrate"
                 PROVE  /\ at'[j].version < Len(migrations)
                        /\ 1..at'[j].version \subseteq recorded
                        /\ StatementsDone(j)'
      BY <1>1 DEF LoopSound
    <3>1. /\ at[j].version < Len(migrations)
          /\ 1..at[j].version \subseteq recorded
          /\ StatementsDone(j)
      BY <2>1 DEF IInv, LoopSound
    <3>2. CASE j # i
      BY <1>1, <2>1, <3>1, <3>2 DEF StatementsDone
    <3>3. CASE j = i
      <4> DEFINE m == migrations[at[i].version + 1]
      <4>1. \A k \in DOMAIN m : k \in Int
        BY <3>1, <3>3, StatementsNumbered DEF IInv, TypeOK
      <4>2. at[i].next \in Nat
        BY DEF IInv, TypeOK
      <4>3. ASSUME NEW k \in DOMAIN m, k < at[i].next + 1, m[k].kind # "probe"
            PROVE  m[k].object \in schema'
        <5>1. CASE k < at[i].next
          BY <2>1, <3>1, <3>3, <4>3, <5>1 DEF StatementsDone
        <5>2. CASE k = at[i].next
          BY <2>1, <4>3, <5>2 DEF Statement
        <5> QED  BY <4>1, <4>2, <4>3, <5>1, <5>2
      <4>4. StatementsDone(i)'
        BY <1>1, <2>1, <4>3 DEF StatementsDone
      <4> QED  BY <2>1, <3>1, <3>3, <4>4
    <3> QED  BY <3>2, <3>3
  <2> QED  BY <2>2, <2>3
<1>3. CASE ~Succeeds(s, at[i].seen)
  <2>1. /\ UNCHANGED schema
        /\ pc' = [pc EXCEPT ![i] = "down"]
        /\ at' = [at EXCEPT ![i] = Loop(0)]
    BY <1>3 DEF Apply, Exit, Goto
  <2> QED  BY <1>1, <2>1, Quiet DEF IInv, TypeOK
<1> QED  BY <1>2, <1>3

(* The first number missing from 1..n is the successor of n. *)
LEMMA FirstMissing ==
    ASSUME NEW n \in Nat, NEW x \in Nat, 1..x \subseteq 1..n, x + 1 \notin 1..n
    PROVE  x = n
<1>1. x <= n  OBVIOUS
<1> QED  BY <1>1

(* A version is recorded when its migration is complete and the versions    *)
(* before it are recorded; one that another instance has recorded ends the  *)
(* process.                                                                 *)
LEMMA RecordStep ==
    ASSUME IInv, NEW i \in Instances, Record(i)
    PROVE  RecordedPrefix' /\ LoopSound' /\ OpenComplete'
<1> DEFINE v == at[i].version + 1
           m == migrations[v]
<1>0. /\ UNCHANGED <<driver, schema>> /\ UNCHANGED migrations
      /\ pc[i] = "migrate" /\ Applied(i)
  BY MigrationsStay DEF Record
<1>1. /\ at[i].version \in Nat /\ at[i].next \in Nat
      /\ at[i].version < Len(migrations) /\ 1..at[i].version \subseteq recorded
      /\ StatementsDone(i)
  BY <1>0 DEF IInv, TypeOK, LoopSound
<1>2. CASE v \notin recorded
  <2>1. /\ recorded' = recorded \cup {v}
        /\ pc' = [pc EXCEPT ![i] = IF v < Len(migrations) THEN "migrate" ELSE "initialize"]
        /\ at' = [at EXCEPT ![i] = Loop(v)]
    BY <1>2 DEF Record, Continue, Goto
  <2>2. PICK n \in 0..Len(migrations) : recorded = 1..n
    BY DEF IInv, RecordedPrefix
  <2>3. Len(migrations) = 14 /\ DOMAIN migrations = 1..14
    BY MigrationsShape
  \* There is no gap, so v is the successor of the newest version.
  <2>4. v = n + 1 /\ v \in 1..14
    <3>1. n \in Nat /\ 1..at[i].version \subseteq 1..n /\ at[i].version + 1 \notin 1..n
      BY <1>1, <1>2, <2>2, <2>3
    <3>2. at[i].version = n
      BY <1>1, <3>1, FirstMissing
    <3>3. n \in Nat /\ n < 14
      BY <1>1, <2>3, <3>1, <3>2
    <3> QED  BY <3>2, <3>3
  <2>5. recorded' = 1..v
    BY <2>1, <2>2, <2>3, <2>4
  \* Every statement of the migration has been made.
  <2>6. Objects(v) \subseteq schema
    <3>1. Len(m) \in Nat /\ DOMAIN m = 1..Len(m)
      BY <2>4, MigrationsShape
    <3>2. \A k \in DOMAIN m : k < at[i].next
      BY <1>0, <1>1, <3>1 DEF Applied
    <3>3. \A k \in DOMAIN m : m[k].kind # "probe" => m[k].object \in schema
      BY <1>1, <3>2 DEF StatementsDone
    <3>4. \A o \in Objects(v) : \E k \in DOMAIN m : m[k].kind # "probe" /\ m[k].object = o
      BY <2>4, MigrationsShape
    <3> QED  BY <3>3, <3>4
  <2>7. RecordedPrefix'
    <3>1. \A w \in recorded' : Objects(w) \subseteq schema
      BY <2>1, <2>6 DEF IInv, RecordedPrefix
    <3>2. v \in 0..Len(migrations)
      BY <2>3, <2>4
    <3> QED  BY <1>0, <2>5, <3>1, <3>2 DEF RecordedPrefix, Objects
  <2>8. LoopSound'
    <3> SUFFICES ASSUME NEW j \in Instances, pc'[j] = "migrate"
                 PROVE  /\ at'[j].version < Len(migrations)
                        /\ 1..at'[j].version \subseteq recorded'
                        /\ StatementsDone(j)'
      BY <1>0 DEF LoopSound
    <3>1. CASE j = i
      <4>1. v < Len(migrations) /\ at'[i] = Loop(v)
        BY <2>1, <3>1 DEF IInv, TypeOK
      <4>2. at'[i].version = v /\ at'[i].next = 1
        BY <4>1 DEF Loop
      <4>3. v \in Nat  BY <1>1
      <4>4. \A k \in DOMAIN migrations[v + 1] : k \in Nat /\ k >= 1
        BY <4>1, <4>3, StatementsNumbered
      <4>5. StatementsDone(i)'
        BY <1>0, <4>2, <4>4 DEF StatementsDone
      <4> QED  BY <2>5, <3>1, <4>1, <4>2, <4>5
    <3>2. CASE j # i
      <4>1. pc[j] = "migrate" /\ at'[j] = at[j]
        BY <2>1, <3>2 DEF IInv, TypeOK
      <4>2. /\ at[j].version < Len(migrations) /\ 1..at[j].version \subseteq recorded
            /\ StatementsDone(j)
        BY <4>1 DEF IInv, LoopSound
      <4> QED  BY <1>0, <2>1, <4>1, <4>2 DEF StatementsDone
    <3> QED  BY <3>1, <3>2
  <2>9. OpenComplete'
    <3> SUFFICES ASSUME NEW j \in Instances, pc'[j] \notin {"down", "version", "migrate"}
                 PROVE  recorded' = DOMAIN migrations
      BY <1>0 DEF OpenComplete
    <3>1. CASE j = i
      <4>1. ~(v < 14)
        BY <2>1, <2>3, <3>1 DEF IInv, TypeOK
      <4>2. v = 14
        BY <2>4, <4>1
      <4> QED  BY <2>3, <2>5, <4>2
    <3>2. CASE j # i
      <4>1. pc'[j] = pc[j]
        BY <2>1, <3>2 DEF IInv, TypeOK
      <4>2. recorded = 1..14
        BY <2>3, <4>1 DEF IInv, OpenComplete
      <4> QED  BY <1>2, <2>4, <4>2
    <3> QED  BY <3>1, <3>2
  <2> QED  BY <2>7, <2>8, <2>9
<1>3. CASE v \in recorded
  <2>1. /\ UNCHANGED recorded
        /\ pc' = [pc EXCEPT ![i] = "down"]
        /\ at' = [at EXCEPT ![i] = Loop(0)]
    BY <1>3 DEF Record, Exit, Goto
  <2> QED  BY <1>0, <2>1, Quiet DEF IInv, TypeOK
<1> QED  BY <1>2, <1>3

(* The other steps neither record a version nor pass the migrations. *)
LEMMA OtherStep ==
    ASSUME IInv, NEW i \in Instances,
           \/ Open(i) \/ Provision(i)
           \/ ChangePassword(i) \/ RevokeDefault(i) \/ Shutdown(i) \/ Crash(i)
    PROVE  RecordedPrefix' /\ LoopSound' /\ OpenComplete'
<1>1. UNCHANGED <<driver, recorded>> /\ schema \subseteq schema'
  BY DEF Open, Provision, Initialize, SetInitial, EnsureDefaultToken, CreateToken,
    SetProvided, MainStep, ChangePassword, RevokeDefault, Shutdown, Crash, migrateVars
<1>2. \A j \in Instances :
        /\ pc'[j] = "migrate" => pc[j] = "migrate" /\ at'[j] = at[j]
        /\ pc'[j] \notin {"down", "version", "migrate"} =>
              pc[j] \notin {"down", "version", "migrate"}
  BY DEF IInv, TypeOK, Open, Provision, Initialize, SetInitial, EnsureDefaultToken,
    CreateToken, SetProvided, MainStep, ChangePassword, RevokeDefault, Shutdown, Crash,
    Exit, Goto, migrateVars
<1> QED  BY <1>1, <1>2, Quiet

(* The inductive invariant, for any number of instances and crashes. *)
THEOREM Invariant == Spec => []IInv
<1>1. Init => IInv  BY InitInv
<1>2. IInv /\ [Next]_vars => IInv'
  <2> SUFFICES ASSUME IInv, [Next]_vars PROVE IInv'
    OBVIOUS
  <2>1. CASE Next
    <3>1. PICK i \in Instances :
            \/ Opening(i) \/ Provision(i)
            \/ ChangePassword(i) \/ RevokeDefault(i) \/ Shutdown(i) \/ Crash(i)
      BY <2>1 DEF Next
    <3>2. TypeOK'  BY <3>1, TypeStep DEF IInv
    <3>3. RecordedPrefix' /\ LoopSound' /\ OpenComplete'
      BY <3>1, VersionStep, ApplyStep, RecordStep, OtherStep DEF Opening
    <3> QED  BY <3>2, <3>3 DEF IInv
  <2>2. CASE UNCHANGED vars
    <3>1. RecordedPrefix' /\ LoopSound' /\ OpenComplete'
      BY <2>2, Quiet DEF vars, migrateVars
    <3>2. TypeOK'
      BY <2>2 DEF vars, migrateVars, credentials, IInv, TypeOK
    <3> QED  BY <3>1, <3>2 DEF IInv
  <2> QED  BY <2>1, <2>2
<1> QED  BY <1>1, <1>2, PTL DEF Spec

-----------------------------------------------------------------------------
(* A recorded version stands for its whole migration, and an instance that  *)
(* has its store open finds the whole schema, whatever raced and crashed.   *)
THEOREM OpenStoreIsMigrated == Spec => []SchemaComplete
<1>1. IInv => SchemaComplete
  BY DEF IInv, RecordedPrefix, OpenComplete, SchemaComplete
<1> QED  BY <1>1, Invariant, PTL

(* No start and no race of starts takes back what an administrator did: a   *)
(* revoked default token stays revoked, a changed password stays unless an  *)
(* instance found none before.                                              *)
THEOREM AdministratorsWordStands == Spec => CredentialsKept
<1>1. ASSUME IInv, [Next]_vars
      PROVE  [ /\ token = "revoked" => token' = "revoked"
               /\ password = "changed" /\ Undisturbed => password' = "changed" /\ Undisturbed'
             ]_vars
  <2> SUFFICES ASSUME Next
               PROVE  /\ token = "revoked" => token' = "revoked"
                      /\ password = "changed" /\ Undisturbed =>
                            password' = "changed" /\ Undisturbed'
    BY <1>1
  <2>1. PICK i \in Instances :
          \/ Opening(i) \/ Provision(i)
          \/ ChangePassword(i) \/ RevokeDefault(i) \/ Shutdown(i) \/ Crash(i)
    BY DEF Next
  <2>2. token = "revoked" => token' = "revoked"
    BY <2>1 DEF Opening, Provision, Initialize, SetInitial, EnsureDefaultToken, CreateToken,
      SetProvided, ChangePassword, RevokeDefault, Shutdown, Crash, credentials
  <2>3. password = "changed" /\ Undisturbed => password' = "changed"
    BY <2>1 DEF Undisturbed, Opening, Provision, Initialize, SetInitial, EnsureDefaultToken,
      CreateToken, SetProvided, MainStep, ChangePassword, RevokeDefault, Shutdown, Crash,
      credentials
  \* Only Initialize sends an instance to store the initial password, and
  \* only when it found none.
  <2>4. password = "changed" /\ Undisturbed => Undisturbed'
    BY <1>1, <2>1 DEF IInv, TypeOK, Undisturbed, Opening, Open, currentVersion, Apply, Record,
      Continue, Exit, Goto, Provision, Initialize, SetInitial, EnsureDefaultToken,
      CreateToken, SetProvided, MainStep, ChangePassword, RevokeDefault, Shutdown, Crash,
      migrateVars
  <2> QED  BY <2>2, <2>3, <2>4
<1> QED  BY <1>1, Invariant, PTL DEF Spec, CredentialsKept

=============================================================================
