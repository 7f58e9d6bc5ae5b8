----------------------------- MODULE AdminAccess -----------------------------
(***************************************************************************)
(* Access to a running backend: login with the admin password behind a     *)
(* rate limit, web sessions, API tokens, the audit log and the runtime     *)
(* configuration of the LLM (internal/server: handlers.go, ratelimit.go,   *)
(* server.go, llm_config.go; internal/store: store.go, websession.go).     *)
(* Requests run concurrently, one database statement or one critical       *)
(* section per step.  A restart ends them all and forgets what is kept in  *)
(* memory.                                                                 *)
(***************************************************************************)
EXTENDS Integers, FiniteSets

CONSTANTS Requests,       \* requests under way at a time
          Clients,        \* keys of the login limiter
          Sessions,       \* web session ids
          Tokens,         \* token ids
          Flags,          \* LLM settings the process may be started with
          Limit, Window,  \* of the login limiter
          TTL,            \* life of a web session
          TouchInterval,  \* least time between two writes of last_used
          None,
          MaxClock, MaxRequests, MaxFaults  \* bounds of one behaviour

Empty == "empty"

Settings == {"url", "key", "model"}

LLM == [Settings -> {Empty, "flag", "web"}]

ASSUME AccessAssumption ==
    /\ Limit \in Nat \ {0} /\ Window \in Nat \ {0}
    /\ TTL \in Nat /\ TouchInterval \in Nat
    /\ MaxClock \in Nat /\ MaxRequests \in Nat /\ MaxFaults \in Nat
    /\ IsFiniteSet(Requests)
    /\ Flags \subseteq LLM
    /\ None \notin Tokens \cup Sessions

VARIABLES clock,
          \* the database
          password, sessions, tokens, lastUsed, saved, audited,
          \* memory of the process, with the flags it was started with
          attempts, touchSeen, llm, flags,
          req,        \* where each request is, and what it works on
          \* history
          guesses,    \* the password checks since the last success
          acted,      \* finished or running requests served for a token
          unaudited,  \* of these, the ones whose audit row could not be written
          mixed,      \* two updates of the LLM settings overlapped, or one failed
          started, faults

database == <<password, sessions, tokens, lastUsed, saved, audited>>
memory == <<attempts, touchSeen, llm, flags>>
history == <<guesses, acted, unaudited, mixed>>
vars == <<clock, database, memory, req, history, started, faults>>

Never == -1

NewRequest(pc, op, arg, token) ==
    [pc |-> pc, op |-> op, arg |-> arg, token |-> token, query |-> FALSE,
     after |-> "act", update |-> [f \in Settings |-> Empty]]

Idle == NewRequest("idle", "none", None, None)

Init ==
    /\ clock = 0
    /\ password = "first"
    /\ \E s \in Sessions : sessions = [x \in Sessions |-> IF x = s THEN TTL ELSE Never]
    /\ \E t \in Tokens : tokens = [x \in Tokens |-> IF x = t THEN "active" ELSE "absent"]
    /\ lastUsed = [t \in Tokens |-> Never]
    /\ flags \in Flags /\ llm = flags /\ saved = flags
    /\ audited = [t \in Tokens |-> 0]
    /\ attempts = [c \in Clients |-> {}]
    /\ touchSeen = [t \in Tokens |-> Never]
    /\ req = [r \in Requests |-> Idle]
    /\ guesses = [c \in Clients |-> {}]
    /\ acted = [t \in Tokens |-> 0] /\ unaudited = [t \in Tokens |-> 0]
    /\ mixed = FALSE
    /\ started = 0 /\ faults = 0

-----------------------------------------------------------------------------
Set(r, rec) == req' = [req EXCEPT ![r] = rec]

Goto(r, to) == req' = [req EXCEPT ![r].pc = to]

Arrive(r) ==
    /\ req[r].pc = "idle" /\ started < MaxRequests
    /\ started' = started + 1

-----------------------------------------------------------------------------
(* Login: POST of handleWebSession. *)

\* The instant of an attempt; its number tells it from others at that instant.
Attempt(c) == [number |-> Cardinality(guesses[c]) + 1, at |-> clock]

\* Attempts strictly younger than the window.
Recent(c) == {a \in attempts[c] : a.at > clock - Window}

\* Faulty variant: one attempt too many.
AllowedOneMore(c) == Cardinality(Recent(c)) <= Limit

Allowed(c) == Cardinality(Recent(c)) < Limit

\* allow, one critical section (the wait between its look at the clock and
\* the lock is left out): an allowed attempt is recorded and every key pruned,
\* a refused one only drops the old attempts of its key.
Login(r, c, pw) ==
    /\ Arrive(r)
    /\ IF Allowed(c)
       THEN /\ attempts' = [x \in Clients |->
                   IF x = c THEN Recent(c) \cup {Attempt(c)} ELSE Recent(x)]
            /\ guesses' = [guesses EXCEPT ![c] = @ \cup {Attempt(c)}]
            /\ Set(r, NewRequest("verify", pw, c, None))
       ELSE /\ attempts' = [attempts EXCEPT ![c] = Recent(c)]
            /\ UNCHANGED <<guesses, req>>
    /\ UNCHANGED <<clock, database, touchSeen, llm, flags, acted, unaudited, mixed, faults>>

VerifyPassword(r) ==
    /\ req[r].pc = "verify"
    /\ IF req[r].op = password THEN Goto(r, "clear") ELSE Set(r, Idle)
    /\ UNCHANGED <<clock, database, memory, history, started, faults>>

Clear(r) ==
    /\ req[r].pc = "clear"
    /\ attempts' = [attempts EXCEPT ![req[r].arg] = {}]
    /\ guesses' = [guesses EXCEPT ![req[r].arg] = {}]
    /\ Goto(r, "register")
    /\ UNCHANGED <<clock, database, touchSeen, llm, flags, acted, unaudited, mixed,
                   started, faults>>

\* registerWebSession draws an id nobody has.
registerWebSession(r) ==
    /\ req[r].pc = "register"
    /\ \E s \in Sessions :
        /\ sessions[s] = Never
        /\ sessions' = [sessions EXCEPT ![s] = clock + TTL]
    /\ Set(r, Idle)
    /\ UNCHANGED <<clock, password, tokens, lastUsed, saved, audited, memory, history,
                   started, faults>>

-----------------------------------------------------------------------------
(* Authentication of the other requests. *)

\* GetWebSession: a session is valid up to and including its expiry.
requireWeb(s) == sessions[s] # Never /\ clock <= sessions[s]

\* GetTokenByHash: the token exists and is not revoked.
VerifyToken(t) == tokens[t] = "active"

\* Operations and their arguments.
WebOps == {<<"logout", s>> : s \in Sessions} \cup {<<"password", "second">>}
            \cup {<<"llm", x>> : x \in {Empty, "web"}}

\* New ids are random; DELETE names a token of the list.
TokenOps ==
    {<<IF tokens[t] = "absent" THEN "create" ELSE "revoke", t>> : t \in Tokens}

WebRequest(r, s) ==
    /\ Arrive(r) /\ requireWeb(s)
    /\ \E o \in WebOps \cup TokenOps :
        /\ o[1] = "logout" => o[2] = s
        /\ Set(r, NewRequest("act", o[1], o[2], None))
    /\ UNCHANGED <<clock, database, memory, history, faults>>

\* touchTokenThrottled decides under its lock whether last_used is written
\* before the request goes on.
Touching(r, t, rec) ==
    IF touchSeen[t] # Never /\ clock - touchSeen[t] < TouchInterval
    THEN Set(r, [rec EXCEPT !.pc = rec.after]) /\ UNCHANGED touchSeen
    ELSE Set(r, [rec EXCEPT !.pc = "touch"]) /\ touchSeen' = [touchSeen EXCEPT ![t] = clock]

\* requireToken takes the token from the header, tokenFromRequest also from
\* the query, which the endpoints that change tokens do not accept.
TokenRequest(r, t) ==
    /\ Arrive(r) /\ VerifyToken(t)
    /\ \E o \in TokenOps \cup {<<"read", None>>}, q \in BOOLEAN :
        /\ q => o[1] = "read"
        /\ Touching(r, t, [NewRequest("act", o[1], o[2], t) EXCEPT !.query = q])
    /\ acted' = [acted EXCEPT ![t] = @ + 1]
    /\ UNCHANGED <<clock, database, attempts, llm, flags, guesses, unaudited, mixed, faults>>

TouchToken(r) ==
    /\ req[r].pc = "touch"
    /\ lastUsed' = [lastUsed EXCEPT ![req[r].token] = clock]
    /\ Goto(r, req[r].after)
    /\ UNCHANGED <<clock, password, sessions, tokens, saved, audited, memory, history,
                   started, faults>>

-----------------------------------------------------------------------------
(* The handlers. *)

Acting(r, op) == req[r].pc = "act" /\ req[r].op = op

\* After the handler the middleware writes the audit row.
Respond(r) ==
    /\ Goto(r, "finish")
    /\ UNCHANGED <<clock, memory, history, started, faults>>

DeleteWebSession(r) ==
    /\ Acting(r, "logout") /\ Respond(r)
    /\ sessions' = [sessions EXCEPT ![req[r].arg] = Never]
    /\ UNCHANGED <<password, tokens, lastUsed, saved, audited>>

SetPassword(r) ==
    /\ Acting(r, "password") /\ Respond(r)
    /\ password' = req[r].arg
    /\ UNCHANGED <<sessions, tokens, lastUsed, saved, audited>>

\* A token of another id is created; an id is never drawn twice.
CreateToken(r) ==
    /\ Acting(r, "create") /\ Respond(r)
    /\ tokens' = [tokens EXCEPT ![req[r].arg] = IF @ = "absent" THEN "active" ELSE @]
    /\ UNCHANGED <<password, sessions, lastUsed, saved, audited>>

\* RevokeToken: WHERE revoked_at IS NULL.
RevokeToken(r) ==
    /\ Acting(r, "revoke") /\ Respond(r)
    /\ tokens' = [tokens EXCEPT ![req[r].arg] = IF @ = "active" THEN "revoked" ELSE @]
    /\ UNCHANGED <<password, sessions, lastUsed, saved, audited>>

\* Any other endpoint.
Read(r) == Acting(r, "read") /\ Respond(r) /\ UNCHANGED database

\* A statement fails: an error is answered.
ActFails(r) ==
    /\ req[r].pc = "act" /\ req[r].op # "llm" /\ faults < MaxFaults
    /\ faults' = faults + 1
    /\ Goto(r, "finish")
    /\ UNCHANGED <<clock, database, memory, history, started>>

-----------------------------------------------------------------------------
(* The LLM configuration: updateLLMConfig and loadLLMConfig. *)

Updating(r) == req[r].pc \in Settings \cup {"apply"}

\* Faulty variant: the model is not stored.
NextSettingShort(f) == CASE f = "url" -> "key" [] f = "key" -> "apply" [] f = "model" -> "apply"

NextSetting(f) == CASE f = "url" -> "key" [] f = "key" -> "model" [] f = "model" -> "apply"

\* An empty key keeps the current one.
KeyOrCurrent(k) == IF k = Empty THEN llm["key"] ELSE k

BeginUpdate(r) ==
    /\ Acting(r, "llm")
    /\ \E k \in {Empty, "web"} :
        Set(r, [req[r] EXCEPT !.pc = "url", !.update =
            [f \in Settings |-> IF f = "key" THEN KeyOrCurrent(k) ELSE req[r].arg]])
    /\ mixed' = (mixed \/ \E x \in Requests : Updating(x))
    /\ UNCHANGED <<clock, database, memory, guesses, acted, unaudited, started, faults>>

\* SetSetting of one field; its error is ignored.
SaveSetting(r) ==
    /\ req[r].pc \in Settings
    /\ \/ /\ saved' = [saved EXCEPT ![req[r].pc] = req[r].update[req[r].pc]]
          /\ UNCHANGED <<mixed, faults>>
       \/ /\ faults < MaxFaults /\ faults' = faults + 1
          /\ mixed' = TRUE
          /\ UNCHANGED saved
    /\ Goto(r, NextSetting(req[r].pc))
    /\ UNCHANGED <<clock, password, sessions, tokens, lastUsed, audited, memory,
                   guesses, acted, unaudited, started>>

SetConfig(r) ==
    /\ req[r].pc = "apply"
    /\ llm' = req[r].update
    /\ Goto(r, "finish")
    /\ UNCHANGED <<clock, database, attempts, touchSeen, flags, history, started, faults>>

\* What a start loads: the stored value, or the flag if there is none.
loadLLMConfig == [f \in Settings |-> IF saved[f] = Empty THEN flags[f] ELSE saved[f]]

-----------------------------------------------------------------------------
(* The end of a request: logMiddleware. *)

\* Faulty variant: the token is looked up again for the audit row.
FinishUncached(r) ==
    /\ req[r].pc = "finish"
    /\ IF req[r].token # None /\ VerifyToken(req[r].token)
       THEN Goto(r, "audit") ELSE Set(r, Idle)
    /\ UNCHANGED <<clock, database, memory, history, started, faults>>

\* A token of the header was cached when it was accepted; one of the query
\* is verified once more, and may have been revoked since.
Finish(r) ==
    LET t == req[r].token
    IN  /\ req[r].pc = "finish"
        /\ \/ t = None /\ Set(r, Idle) /\ UNCHANGED <<touchSeen, unaudited>>
           \/ t # None /\ ~req[r].query /\ Goto(r, "audit") /\ UNCHANGED <<touchSeen, unaudited>>
           \/ /\ req[r].query /\ VerifyToken(t)
              /\ Touching(r, t, [req[r] EXCEPT !.after = "audit"]) /\ UNCHANGED unaudited
           \/ /\ req[r].query /\ ~VerifyToken(t)
              /\ unaudited' = [unaudited EXCEPT ![t] = @ + 1]
              /\ Set(r, Idle) /\ UNCHANGED touchSeen
        /\ UNCHANGED <<clock, database, attempts, llm, flags, guesses, acted, mixed,
                       started, faults>>

RecordAudit(r) ==
    /\ req[r].pc = "audit"
    /\ \/ /\ audited' = [audited EXCEPT ![req[r].token] = @ + 1]
          /\ UNCHANGED <<unaudited, faults>>
       \/ /\ faults < MaxFaults /\ faults' = faults + 1
          /\ unaudited' = [unaudited EXCEPT ![req[r].token] = @ + 1]
          /\ UNCHANGED audited
    /\ Set(r, Idle)
    /\ UNCHANGED <<clock, password, sessions, tokens, lastUsed, saved, memory, guesses,
                   acted, mixed, started>>

-----------------------------------------------------------------------------
\* The housekeeping of main.
DeleteExpiredWebSessions ==
    /\ \E s \in Sessions : sessions[s] # Never /\ sessions[s] <= clock
    /\ sessions' = [s \in Sessions |-> IF sessions[s] <= clock THEN Never ELSE sessions[s]]
    /\ UNCHANGED <<clock, password, tokens, lastUsed, saved, audited, memory, req, history,
                   started, faults>>

Serving(t) == Cardinality({r \in Requests : req[r].token = t})

\* The process ends and starts again.
Restart ==
    /\ faults < MaxFaults /\ faults' = faults + 1
    /\ unaudited' = [t \in Tokens |-> unaudited[t] + Serving(t)]
    /\ req' = [r \in Requests |-> Idle]
    /\ attempts' = [c \in Clients |-> {}] /\ guesses' = attempts'
    /\ touchSeen' = [t \in Tokens |-> Never]
    /\ llm' = loadLLMConfig /\ saved' = loadLLMConfig
    /\ UNCHANGED <<clock, password, sessions, tokens, lastUsed, audited, flags, acted,
                   mixed, started>>

Tick ==
    /\ clock < MaxClock /\ clock' = clock + 1
    /\ UNCHANGED <<database, memory, req, history, started, faults>>

Handle(r) ==
    \/ VerifyPassword(r) \/ Clear(r) \/ registerWebSession(r) \/ TouchToken(r)
    \/ DeleteWebSession(r) \/ SetPassword(r) \/ CreateToken(r) \/ RevokeToken(r)
    \/ Read(r) \/ ActFails(r)
    \/ BeginUpdate(r) \/ SaveSetting(r) \/ SetConfig(r)
    \/ Finish(r) \/ RecordAudit(r)

Next ==
    \/ Tick \/ Restart \/ DeleteExpiredWebSessions
    \/ \E r \in Requests :
        \/ Handle(r)
        \/ \E c \in Clients, pw \in {"first", "second", "wrong"} : Login(r, c, pw)
        \/ \E s \in Sessions : WebRequest(r, s)
        \/ \E t \in Tokens : TokenRequest(r, t)

Spec == Init /\ [][Next]_vars

-----------------------------------------------------------------------------
(* No client gets more than Limit passwords checked within any window, at  *)
(* the boundaries too, counting from its last success or the last restart, *)
(* both of which forget the attempts (allow, prune, clear).                *)
LoginsBounded ==
    \A c \in Clients, t \in 0..clock :
        Cardinality({g \in guesses[c] : g.at \in (t - Window + 1)..t}) <= Limit

(* Every request that was served for a token leaves an audit row, also     *)
(* when the token is revoked meanwhile, even by the request itself.        *)
(* Except: its INSERT failed, the process ended, or the token came in the  *)
(* query and was revoked before the row was written.  Calls under          *)
(* /api/stt and outside /api are not audited and left out (logMiddleware).  *)
TokenTrail ==
    \A t \in Tokens : acted[t] = audited[t] + unaudited[t] + Serving(t)

(* A restart brings back the LLM configuration that was in effect, once no *)
(* update is under way.  Except: updates overlapped or one of their        *)
(* statements failed; a setting cleared over the web takes the value of    *)
(* its flag again (updateLLMConfig, loadLLMConfig).                        *)
ConfigSurvives ==
    ~mixed /\ (\A r \in Requests : ~Updating(r)) =>
        \A f \in Settings :
            loadLLMConfig[f] = llm[f] \/ (llm[f] = Empty /\ loadLLMConfig[f] = flags[f])

-----------------------------------------------------------------------------
(* The inductive invariant behind the three. *)

Points == {"idle", "verify", "clear", "register", "touch", "act", "finish", "audit",
           "apply"} \cup Settings

Ops == {"none", "first", "second", "wrong", "logout", "password", "llm", "create",
        "revoke", "read"}

Args == Clients \cup Sessions \cup Tokens \cup {None, "second", "web", Empty}

Request == [pc : Points, op : Ops, arg : Args, token : Tokens \cup {None},
            query : BOOLEAN, after : {"act", "audit"}, update : LLM]

\* The variables the properties are about stay in their types.
TypeOK ==
    /\ clock \in Nat
    /\ req \in [Requests -> Request]
    /\ attempts \in [Clients -> SUBSET [number : Nat, at : Nat]]
    /\ guesses \in [Clients -> SUBSET [number : Nat, at : Nat]]
    /\ saved \in LLM /\ llm \in LLM /\ flags \in LLM
    /\ audited \in [Tokens -> Nat] /\ acted \in [Tokens -> Nat]
    /\ unaudited \in [Tokens -> Nat]
    /\ mixed \in BOOLEAN

\* Which requests have a token, and what their arguments are.
RequestShape ==
    \A r \in Requests :
        /\ req[r].pc \in {"touch", "audit"} \/ req[r].query => req[r].token \in Tokens
        /\ req[r].pc \in {"idle", "verify", "clear", "register"} \/ req[r].op = "llm" =>
              req[r].token = None
        /\ req[r].pc \in {"verify", "clear"} => req[r].arg \in Clients
        /\ req[r].op = "llm" => req[r].arg \in {"web", Empty}
        /\ Updating(r) => req[r].op = "llm"

\* Every guess within the window is still known to the limiter.
GuessesKnown ==
    \A c \in Clients :
        /\ IsFiniteSet(guesses[c]) /\ attempts[c] \subseteq guesses[c]
        /\ \A g \in guesses[c] :
            /\ g.number <= Cardinality(guesses[c]) /\ g.at <= clock
            /\ g.at > clock - Window => g \in attempts[c]

\* The settings an update has stored before the one at which it is.
Stored(f) == CASE f = "url" -> {} [] f = "key" -> {"url"} [] f = "model" -> {"url", "key"}
               [] f = "apply" -> Settings

\* While no updates overlap and none fails, there is at most one, what it has
\* stored is stored, and without one the database holds what is in effect.
UpdateOrderly ==
    ~mixed =>
        /\ \A r, x \in Requests : Updating(r) /\ Updating(x) => r = x
        /\ \A r \in Requests : Updating(r) =>
              \A f \in Stored(req[r].pc) : saved[f] = req[r].update[f]
        /\ (\A r \in Requests : ~Updating(r)) => saved = llm

IInv ==
    /\ TypeOK /\ RequestShape /\ TokenTrail
    /\ GuessesKnown /\ LoginsBounded
    /\ UpdateOrderly

=============================================================================
