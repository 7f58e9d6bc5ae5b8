-------------------------------- MODULE Startup --------------------------------
(***************************************************************************)
(* The start of the backend (cmd/starburst-backend/main.go): the schema is *)
(* migrated, the admin password and the default token are provisioned on   *)
(* the first run, and requests are served.  Every error on the way ends    *)
(* the process, which is then started again.  Several instances may start  *)
(* on one database at the same time, and each may crash at any point.      *)
(***************************************************************************)
EXTENDS Migrations

CONSTANTS Passwords,  \* configured initial passwords: "strong" or "weak"
          MaxCrashes  \* bound on the crashes of one behaviour

ASSUME StartupAssumption ==
    /\ Passwords \subseteq {"strong", "weak"}
    /\ MaxCrashes \in Nat

VARIABLES conf,      \* the configuration: initial password, default token given
          password,  \* setting admin.password_hash: none, initial or changed
          provided,  \* setting admin.default_token_set
          token,     \* the row of the token with id "default"
          crashes,
          torn       \* history: a crash hit between two statements that the
                     \* next start cannot repeat

credentials == <<password, provided, token>>

vars == <<migrateVars, conf, credentials, crashes, torn>>

Init ==
    /\ driver \in {"sqlite", "postgres"}
    /\ schema = {} /\ recorded = {}
    /\ pc = [i \in Instances |-> "down"]
    /\ at = [i \in Instances |-> Loop(0)]
    /\ conf \in [password : Passwords, token : BOOLEAN]
    /\ password = "none" /\ provided = FALSE /\ token = "none"
    /\ crashes = 0 /\ torn = FALSE

-----------------------------------------------------------------------------
Opening(i) ==
    /\ Open(i) \/ currentVersion(i) \/ Apply(i) \/ Record(i)
    /\ UNCHANGED <<conf, credentials, crashes, torn>>

\* A step of main after the store is open that goes to a point or exits.
MainStep(i, from, to) ==
    /\ pc[i] = from /\ pc' = [pc EXCEPT ![i] = to]
    /\ UNCHANGED <<driver, schema, recorded, at, conf, crashes, torn>>

\* Faulty variant: the initial password is stored on every start.
InitializeAlways(i) ==
    /\ MainStep(i, "initialize", "setPassword")
    /\ UNCHANGED credentials

\* Initialize: an existing password is kept.
Initialize(i) ==
    /\ MainStep(i, "initialize", IF password = "none" THEN "setPassword" ELSE "token")
    /\ UNCHANGED credentials

\* SetPassword of the initial one refuses a weak password.
SetInitial(i) ==
    /\ IF conf.password = "strong"
       THEN MainStep(i, "setPassword", "token") /\ password' = "initial"
       ELSE MainStep(i, "setPassword", "down") /\ UNCHANGED password
    /\ UNCHANGED <<provided, token>>

\* Faulty variant: the setting is not looked at.
EnsureDefaultTokenAlways(i) ==
    /\ MainStep(i, "token", IF conf.token THEN "createToken" ELSE "serving")
    /\ UNCHANGED credentials

\* EnsureDefaultToken: nothing to do without a token or after the first run.
EnsureDefaultToken(i) ==
    /\ MainStep(i, "token", IF conf.token /\ ~provided THEN "createToken" ELSE "serving")
    /\ UNCHANGED credentials

\* CreateToken: the id "default" is the primary key, revoked or not.
CreateToken(i) ==
    /\ IF token = "none"
       THEN MainStep(i, "createToken", "setProvided") /\ token' = "active"
       ELSE MainStep(i, "createToken", "down") /\ UNCHANGED token
    /\ UNCHANGED <<password, provided>>

SetProvided(i) ==
    /\ MainStep(i, "setProvided", "serving")
    /\ provided' = TRUE
    /\ UNCHANGED <<password, token>>

\* Requests a serving instance may get: handleWebPassword and the DELETE of
\* handleTokenByID, each one statement.
ChangePassword(i) ==
    /\ pc[i] = "serving"
    /\ password' = "changed"
    /\ UNCHANGED <<migrateVars, conf, provided, token, crashes, torn>>

RevokeDefault(i) ==
    /\ pc[i] = "serving" /\ token = "active"
    /\ token' = "revoked"
    /\ UNCHANGED <<migrateVars, conf, password, provided, crashes, torn>>

\* A signal ends a serving instance.
Shutdown(i) ==
    /\ MainStep(i, "serving", "down")
    /\ UNCHANGED credentials

Crash(i) ==
    /\ pc[i] # "down" /\ crashes < MaxCrashes
    /\ crashes' = crashes + 1
    /\ torn' = (torn \/ HalfMigrated(i) \/ pc[i] = "setProvided")
    /\ Exit(i)
    /\ UNCHANGED <<driver, schema, recorded, conf, credentials>>

Provision(i) ==
    \/ Initialize(i) \/ SetInitial(i)
    \/ EnsureDefaultToken(i) \/ CreateToken(i) \/ SetProvided(i)

Next ==
    \E i \in Instances :
        \/ Opening(i) \/ Provision(i)
        \/ ChangePassword(i) \/ RevokeDefault(i) \/ Shutdown(i) \/ Crash(i)

Spec == Init /\ [][Next]_vars

\* A process that is down is started again (restart: unless-stopped), and a
\* start goes on; signals, requests and crashes are not forced.
Fairness == \A i \in Instances : WF_vars(Opening(i) \/ Provision(i))

FairSpec == Spec /\ Fairness

-----------------------------------------------------------------------------
(* A recorded version stands for its whole migration, and an instance that *)
(* has its store open finds the whole schema, although migrations run in   *)
(* several statements, instances race and any of them may crash (migrate). *)
SchemaComplete ==
    /\ \A v \in recorded : Objects(v) \subseteq schema
    /\ \A i \in Instances :
        pc[i] \notin {"down", "version", "migrate"} => recorded = DOMAIN migrations

(* A start never takes back what an administrator did: the default token   *)
(* stays revoked, and the changed password stays, unless an instance had   *)
(* looked for a password before there was one and stores the initial one   *)
(* late (Initialize, EnsureDefaultToken).                                  *)
Undisturbed == \A i \in Instances : pc[i] # "setPassword"

CredentialsKept ==
    [][ /\ token = "revoked" => token' = "revoked"
        /\ password = "changed" /\ Undisturbed => password' = "changed" /\ Undisturbed'
      ]_vars

(* Every instance comes up again and again, whatever races and crashes it  *)
(* went through.  Except: the configured first password is refused, or a   *)
(* crash hit after an ADD COLUMN and before its version was recorded, or   *)
(* between the default token and its setting.                              *)
StartsAgain ==
    \A i \in Instances :
        []<>(pc[i] = "serving" \/ torn \/ (conf.password = "weak" /\ password = "none"))

(* The first start with the documented default configuration comes up      *)
(* (docs/API.md).                                                          *)
FirstStart == <>(\E i \in Instances : pc[i] = "serving")

-----------------------------------------------------------------------------
(* The inductive invariant behind SchemaComplete. *)

Points == {"down", "version", "migrate", "initialize", "setPassword", "token",
           "createToken", "setProvided", "serving"}

\* Every variable stays in its type.
TypeOK ==
    /\ driver \in {"sqlite", "postgres"}
    /\ pc \in [Instances -> Points]
    /\ at \in [Instances -> [version : Nat, next : Nat \ {0}, seen : BOOLEAN]]
    /\ conf \in [password : Passwords, token : BOOLEAN]
    /\ password \in {"none", "initial", "changed"} /\ provided \in BOOLEAN
    /\ token \in {"none", "active", "revoked"}

\* The recorded versions have no gaps, and each stands for its objects.
RecordedPrefix ==
    /\ \E n \in 0..Len(migrations) : recorded = 1..n
    /\ \A v \in recorded : Objects(v) \subseteq schema

\* The statements of a migration that an instance has behind it are in
\* effect; the look for a column has none.
StatementsDone(i) ==
    LET m == migrations[at[i].version + 1]
    IN  \A k \in DOMAIN m : k < at[i].next /\ m[k].kind # "probe" => m[k].object \in schema

\* An instance that migrates works on the successor of a recorded version.
LoopSound ==
    \A i \in Instances : pc[i] = "migrate" =>
        /\ at[i].version < Len(migrations)
        /\ 1..at[i].version \subseteq recorded
        /\ StatementsDone(i)

OpenComplete ==
    \A i \in Instances :
        pc[i] \notin {"down", "version", "migrate"} => recorded = DOMAIN migrations

IInv == TypeOK /\ RecordedPrefix /\ LoopSound /\ OpenComplete

=============================================================================
