-------------------------- MODULE AdminAccessProofs --------------------------
(* Theorems about AdminAccess for any requests, clients, sessions and tokens. *)
EXTENDS AdminAccess, FiniteSetTheorems, TLAPS

USE AccessAssumption

-----------------------------------------------------------------------------
(* Requests. *)

(* A new request is a request. *)
LEMMA NewFacts ==
    ASSUME NEW pc \in Points, NEW op \in Ops, NEW arg \in Args, NEW t \in Tokens \cup {None},
           NEW n, n = NewRequest(pc, op, arg, t)
    PROVE  /\ n \in Request
           /\ n.pc = pc /\ n.op = op /\ n.arg = arg /\ n.token = t /\ ~n.query
<1>1. [f \in Settings |-> Empty] \in LLM
  BY DEF LLM
<1> QED  BY <1>1 DEF NewRequest, Request

(* The request that is none. *)
LEMMA IdleFacts ==
    /\ Idle \in Request
    /\ Idle.pc = "idle" /\ Idle.op = "none" /\ Idle.token = None /\ ~Idle.query
<1>1. "idle" \in Points /\ "none" \in Ops /\ None \in Args /\ None \in Tokens \cup {None}
  BY DEF Points, Ops, Args
<1>2. Idle = NewRequest("idle", "none", None, None)
  BY DEF Idle
<1> QED  BY <1>1, <1>2, NewFacts

(* A request moves on to a point and keeps the rest. *)
LEMMA GotoFacts ==
    ASSUME req \in [Requests -> Request], NEW r \in Requests, NEW to \in Points, Goto(r, to)
    PROVE  /\ req' \in [Requests -> Request]
           /\ \A x \in Requests : x # r => req'[x] = req[x]
           /\ req'[r].pc = to /\ req'[r].op = req[r].op /\ req'[r].arg = req[r].arg
           /\ req'[r].token = req[r].token /\ req'[r].query = req[r].query
           /\ req'[r].update = req[r].update
<1>1. req[r] \in Request  OBVIOUS
<1>2. [req[r] EXCEPT !.pc = to] \in Request
  BY <1>1 DEF Request
<1>3. req' = [req EXCEPT ![r] = [req[r] EXCEPT !.pc = to]]
  BY DEF Goto
<1>4. req'[r] = [req[r] EXCEPT !.pc = to]
  BY <1>3
<1> QED  BY <1>1, <1>2, <1>3, <1>4 DEF Request

(* A request is replaced. *)
LEMMA SetFacts ==
    ASSUME req \in [Requests -> Request], NEW r \in Requests, NEW rec \in Request, Set(r, rec)
    PROVE  /\ req' \in [Requests -> Request]
           /\ \A x \in Requests : x # r => req'[x] = req[x]
           /\ req'[r] = rec
BY DEF Set

(* touchTokenThrottled lets a request go on at once or after a write. *)
LEMMA TouchingFacts ==
    ASSUME req \in [Requests -> Request], NEW r \in Requests, NEW t, NEW rec \in Request,
           Touching(r, t, rec)
    PROVE  /\ req' \in [Requests -> Request]
           /\ \A x \in Requests : x # r => req'[x] = req[x]
           /\ req'[r].pc \in {"act", "audit", "touch"}
           /\ req'[r].op = rec.op /\ req'[r].arg = rec.arg /\ req'[r].token = rec.token
<1>1. PICK to \in {"act", "audit", "touch"} : Set(r, [rec EXCEPT !.pc = to])
  BY DEF Touching, Request
<1>2. [rec EXCEPT !.pc = to] \in Request
  BY <1>1 DEF Request, Points
<1>3. req'[r] = [rec EXCEPT !.pc = to]
  BY <1>1, <1>2, SetFacts
<1> QED  BY <1>1, <1>2, <1>3, SetFacts DEF Request

(* What a handler may be asked to do. *)
LEMMA OpFacts ==
    /\ \A o \in WebOps \cup TokenOps \cup {<<"read", None>>} :
        o[1] \in Ops /\ o[2] \in Args /\ (o[1] = "llm" => o[2] \in {"web", Empty})
    /\ \A o \in TokenOps \cup {<<"read", None>>} : o[1] # "llm"
BY DEF WebOps, TokenOps, Ops, Args

(* The settings are stored in order. *)
LEMMA NextSettingFacts ==
    ASSUME NEW f \in Settings
    PROVE  /\ NextSetting(f) \in Settings \cup {"apply"}
           /\ Stored(NextSetting(f)) = Stored(f) \cup {f}
BY DEF NextSetting, Stored, Settings

(* The requests stay in their type and shape, whatever is done for them. *)
LEMMA RequestsStep ==
    ASSUME TypeOK, RequestShape, Next
    PROVE  req' \in [Requests -> Request] /\ RequestShape'
<1>0. req \in [Requests -> Request]  BY DEF TypeOK
<1>1. CASE Tick \/ DeleteExpiredWebSessions
  BY <1>0, <1>1 DEF Tick, DeleteExpiredWebSessions, RequestShape, Updating
<1>2. CASE Restart
  <2>1. req' = [r \in Requests |-> Idle]
    BY <1>2 DEF Restart
  <2> QED  BY <2>1, IdleFacts DEF RequestShape, Updating, Settings
<1>3. ASSUME NEW r \in Requests,
             \/ Handle(r)
             \/ \E c \in Clients, pw \in {"first", "second", "wrong"} : Login(r, c, pw)
             \/ \E s \in Sessions : WebRequest(r, s)
             \/ \E t \in Tokens : TokenRequest(r, t)
      PROVE  req' \in [Requests -> Request] /\ RequestShape'
  \* Only the request itself changes.
  <2> DEFINE Shape(q) ==
        /\ q.pc \in {"touch", "audit"} \/ q.query => q.token \in Tokens
        /\ q.pc \in {"idle", "verify", "clear", "register"} \/ q.op = "llm" => q.token = None
        /\ q.pc \in {"verify", "clear"} => q.arg \in Clients
        /\ q.op = "llm" => q.arg \in {"web", Empty}
        /\ q.pc \in Settings \cup {"apply"} => q.op = "llm"
  <2> SUFFICES /\ req' \in [Requests -> Request]
               /\ \A x \in Requests : x # r => req'[x] = req[x]
               /\ Shape(req'[r])
    BY DEF RequestShape, Updating
  <2>0. Shape(req[r])
    BY DEF RequestShape, Updating
  <2>1. CASE Set(r, Idle)
    BY <1>0, <2>1, SetFacts, IdleFacts DEF Settings
  <2>2. CASE UNCHANGED req
    BY <1>0, <2>0, <2>2
  <2>3. ASSUME NEW to \in {"clear", "register", "finish", "audit", "act"}, Goto(r, to),
               to = "audit" => req[r].token \in Tokens,
               to = "clear" => req[r].pc = "verify",
               to = "register" => req[r].pc = "clear"
        PROVE  /\ req' \in [Requests -> Request]
               /\ \A x \in Requests : x # r => req'[x] = req[x]
               /\ Shape(req'[r])
    <3>1. to \in Points  BY DEF Points
    <3> QED  BY <1>0, <2>0, <2>3, <3>1, GotoFacts DEF Settings
  <2>4. ASSUME NEW c \in Clients, NEW pw \in {"first", "second", "wrong"}, Login(r, c, pw)
        PROVE  /\ req' \in [Requests -> Request]
               /\ \A x \in Requests : x # r => req'[x] = req[x]
               /\ Shape(req'[r])
    <3>1. CASE Set(r, NewRequest("verify", pw, c, None))
      <4> DEFINE n == NewRequest("verify", pw, c, None)
      <4>1. "verify" \in Points /\ pw \in Ops /\ c \in Args
        BY DEF Points, Ops, Args
      <4>2. /\ n \in Request /\ n.pc = "verify" /\ n.op = pw /\ n.arg = c
            /\ n.token = None /\ ~n.query
        BY <4>1, NewFacts
      <4> HIDE DEF n
      <4> QED  BY <1>0, <3>1, <4>2, SetFacts DEF n, Settings
    <3> QED  BY <2>2, <2>4, <3>1 DEF Login
  <2>5. ASSUME NEW s \in Sessions, WebRequest(r, s)
        PROVE  /\ req' \in [Requests -> Request]
               /\ \A x \in Requests : x # r => req'[x] = req[x]
               /\ Shape(req'[r])
    <3>1. PICK o \in WebOps \cup TokenOps : Set(r, NewRequest("act", o[1], o[2], None))
      BY <2>5 DEF WebRequest
    <3> DEFINE n == NewRequest("act", o[1], o[2], None)
    <3>2. "act" \in Points /\ o[1] \in Ops /\ o[2] \in Args
      BY OpFacts DEF Points
    <3>3. /\ n \in Request /\ n.pc = "act" /\ n.op = o[1] /\ n.arg = o[2]
          /\ n.token = None /\ ~n.query
      BY <3>2, NewFacts
    <3> HIDE DEF n
    <3> QED  BY <1>0, <3>1, <3>3, SetFacts, OpFacts DEF n, Settings
  <2>6. ASSUME NEW t \in Tokens, TokenRequest(r, t)
        PROVE  /\ req' \in [Requests -> Request]
               /\ \A x \in Requests : x # r => req'[x] = req[x]
               /\ Shape(req'[r])
    <3>1. PICK o \in TokenOps \cup {<<"read", None>>}, q \in BOOLEAN :
            Touching(r, t, [NewRequest("act", o[1], o[2], t) EXCEPT !.query = q])
      BY <2>6 DEF TokenRequest
    <3> DEFINE m == NewRequest("act", o[1], o[2], t)
               n == [m EXCEPT !.query = q]
    <3>2. o[1] \in Ops /\ o[2] \in Args /\ o[1] # "llm" /\ "act" \in Points
      BY OpFacts DEF Points
    <3>3. m \in Request /\ m.op = o[1] /\ m.token = t
      BY <3>2, NewFacts
    <3> HIDE DEF m
    <3>4. n \in Request /\ n.op = o[1] /\ n.token = t
      BY <3>3 DEF Request
    <3>5. Touching(r, t, n)
      BY <3>1 DEF m
    <3> HIDE DEF n
    <3> QED  BY <1>0, <3>2, <3>4, <3>5, TouchingFacts DEF Settings
  <2>7. CASE BeginUpdate(r)
    <3>1. PICK k \in {Empty, "web"} :
            Set(r, [req[r] EXCEPT !.pc = "url", !.update =
                [f \in Settings |-> IF f = "key" THEN KeyOrCurrent(k) ELSE req[r].arg]])
      BY <2>7 DEF BeginUpdate
    <3> DEFINE u == [f \in Settings |-> IF f = "key" THEN KeyOrCurrent(k) ELSE req[r].arg]
               n == [[req[r] EXCEPT !.pc = "url"] EXCEPT !.update = u]
    <3>2. req[r].op = "llm" /\ req[r] \in Request
      BY <1>0, <2>7 DEF BeginUpdate, Acting
    <3>3. u \in LLM
      <4>1. req[r].arg \in {Empty, "flag", "web"}
        BY <2>0, <3>2
      <4>2. KeyOrCurrent(k) \in {Empty, "flag", "web"}
        BY DEF KeyOrCurrent, TypeOK, LLM, Settings
      <4> QED  BY <4>1, <4>2 DEF LLM
    <3> HIDE DEF u
    <3>4. [req[r] EXCEPT !.pc = "url"] \in Request
      BY <3>2 DEF Request, Points, Settings
    <3>5. n \in Request
      BY <3>3, <3>4 DEF Request
    <3>6. n = [req[r] EXCEPT !.pc = "url", !.update = u]
      BY <3>2 DEF Request
    <3>7. /\ n.pc = "url" /\ n.op = req[r].op /\ n.arg = req[r].arg
          /\ n.token = req[r].token /\ n.query = req[r].query
      BY <3>2, <3>4 DEF Request
    <3> HIDE DEF n
    <3>8. Set(r, n)
      BY <3>1, <3>6 DEF u
    <3> QED  BY <1>0, <2>0, <3>2, <3>5, <3>7, <3>8, SetFacts DEF Settings
  <2>8. CASE SaveSetting(r)
    <3>1. req[r].pc \in Settings /\ Goto(r, NextSetting(req[r].pc))
      BY <2>8 DEF SaveSetting
    <3>2. NextSetting(req[r].pc) \in Settings \cup {"apply"}
      BY <3>1, NextSettingFacts
    <3>3. NextSetting(req[r].pc) \in Points
      BY <3>2 DEF Points
    <3> QED  BY <1>0, <2>0, <3>1, <3>2, <3>3, GotoFacts DEF Settings
  <2>9. CASE Finish(r)
    <3>1. ASSUME req[r].query, Touching(r, req[r].token, [req[r] EXCEPT !.after = "audit"])
          PROVE  /\ req' \in [Requests -> Request]
                 /\ \A x \in Requests : x # r => req'[x] = req[x]
                 /\ Shape(req'[r])
      <4>1. req[r] \in Request  BY <1>0
      <4> DEFINE n == [req[r] EXCEPT !.after = "audit"]
      <4>2. n \in Request /\ n.op = req[r].op /\ n.arg = req[r].arg /\ n.token = req[r].token
        BY <4>1 DEF Request
      <4>3. req[r].token \in Tokens
        BY <2>0, <3>1
      <4> HIDE DEF n
      <4> QED  BY <1>0, <2>0, <3>1, <4>2, <4>3, TouchingFacts DEF n, Settings
    <3>2. req[r].token \in Tokens \cup {None}
      BY <1>0 DEF Request
    <3> QED  BY <2>1, <2>3, <2>9, <3>1, <3>2 DEF Finish
  <2>10. CASE TouchToken(r)
    <3>1. req[r].after \in {"act", "audit"}
      BY <1>0 DEF Request
    <3> QED  BY <2>0, <2>3, <2>10, <3>1 DEF TouchToken
  <2>11. CASE \/ VerifyPassword(r) \/ Clear(r) \/ registerWebSession(r)
              \/ DeleteWebSession(r) \/ SetPassword(r) \/ CreateToken(r) \/ RevokeToken(r)
              \/ Read(r) \/ ActFails(r) \/ SetConfig(r) \/ RecordAudit(r)
    BY <2>1, <2>3, <2>11 DEF VerifyPassword, Clear, registerWebSession, DeleteWebSession,
      SetPassword, CreateToken, RevokeToken, Read, ActFails, SetConfig, RecordAudit, Respond
  <2> QED  BY <1>3, <2>4, <2>5, <2>6, <2>7, <2>8, <2>9, <2>10, <2>11 DEF Handle
<1> QED  BY <1>1, <1>2, <1>3 DEF Next

-----------------------------------------------------------------------------
(* Served requests. *)

(* The requests served for a token are counted. *)
LEMMA ServingType ==
    ASSUME NEW t
    PROVE  Serving(t) \in Nat
<1> DEFINE S == {x \in Requests : req[x].token = t}
<1>1. S \in SUBSET Requests /\ IsFiniteSet(Requests)  OBVIOUS
<1>2. IsFiniteSet(S)  BY <1>1, FS_Subset
<1>3. Cardinality(S) \in Nat  BY <1>2, FS_CardinalityType
<1> QED  BY <1>3 DEF Serving

(* A token serves one request more or less when one takes it up or leaves it. *)
LEMMA ServingStep ==
    ASSUME NEW r \in Requests, NEW t,
           \A x \in Requests : x # r => req'[x].token = req[x].token
    PROVE  /\ req[r].token # t /\ req'[r].token = t => Serving(t)' = Serving(t) + 1
           /\ req[r].token = t /\ req'[r].token # t => Serving(t)' = Serving(t) - 1
           /\ (req[r].token = t <=> req'[r].token = t) => Serving(t)' = Serving(t)
<1> DEFINE S == {x \in Requests : req[x].token = t}
           T == {x \in Requests : req'[x].token = t}
<1>1. Serving(t) = Cardinality(S) /\ Serving(t)' = Cardinality(T)
  BY DEF Serving
<1>2. S \in SUBSET Requests /\ IsFiniteSet(Requests)  OBVIOUS
<1>3. IsFiniteSet(S)  BY <1>2, FS_Subset
<1>4. ASSUME req[r].token # t, req'[r].token = t
      PROVE  Serving(t)' = Serving(t) + 1
  <2>1. T = S \cup {r} /\ r \notin S
    BY <1>4
  <2> HIDE DEF S, T
  <2> QED  BY <1>1, <1>3, <2>1, FS_AddElement
<1>5. ASSUME req[r].token = t, req'[r].token # t
      PROVE  Serving(t)' = Serving(t) - 1
  <2>1. T = S \ {r} /\ r \in S
    BY <1>5
  <2> HIDE DEF S, T
  <2> QED  BY <1>1, <1>3, <2>1, FS_RemoveElement
<1>6. ASSUME req[r].token = t <=> req'[r].token = t
      PROVE  Serving(t)' = Serving(t)
  <2>1. T = S
    BY <1>6
  <2> QED  BY <1>1, <2>1
<1> QED  BY <1>4, <1>5, <1>6

(* Every step keeps count of the requests served for a token. *)
LEMMA TrailStep ==
    ASSUME TypeOK, RequestShape, TokenTrail, Next
    PROVE  TokenTrail'
<1>0. req \in [Requests -> Request]  BY DEF TypeOK
<1>1. CASE Tick \/ DeleteExpiredWebSessions
  BY <1>1 DEF Tick, DeleteExpiredWebSessions, database, history, TokenTrail, Serving
<1>2. CASE Restart
  <2> SUFFICES ASSUME NEW t \in Tokens
               PROVE  acted'[t] = audited'[t] + unaudited'[t] + Serving(t)'
    BY DEF TokenTrail
  <2>1. Serving(t)' = 0
    <3>1. {r \in Requests : req'[r].token = t} = {}
      BY <1>2, IdleFacts DEF Restart
    <3> QED  BY <3>1, FS_EmptySet DEF Serving
  <2>2. /\ acted' = acted /\ audited' = audited
        /\ unaudited'[t] = unaudited[t] + Serving(t)
    BY <1>2 DEF Restart
  <2>3. Serving(t) \in Nat  BY ServingType
  <2> QED  BY <2>1, <2>2, <2>3 DEF TokenTrail, TypeOK
<1>3. ASSUME NEW r \in Requests,
             \/ Handle(r)
             \/ \E c \in Clients, pw \in {"first", "second", "wrong"} : Login(r, c, pw)
             \/ \E s \in Sessions : WebRequest(r, s)
             \/ \E t \in Tokens : TokenRequest(r, t)
      PROVE  TokenTrail'
  <2> DEFINE Others == \A x \in Requests : x # r => req'[x].token = req[x].token
  <2>0. req[r] \in Request  BY <1>0
  <2>1. ASSUME Set(r, Idle)
        PROVE  Others /\ req'[r].token = None
    BY <1>0, <2>1, SetFacts, IdleFacts
  <2>2. ASSUME NEW to \in Points, Goto(r, to)
        PROVE  Others /\ req'[r].token = req[r].token
    BY <1>0, <2>2, GotoFacts
  <2>3. ASSUME Others, req'[r].token = req[r].token, UNCHANGED <<acted, audited, unaudited>>
        PROVE  TokenTrail'
    BY <2>3, ServingStep DEF TokenTrail
  <2>4. ASSUME NEW c \in Clients, NEW pw \in {"first", "second", "wrong"}, Login(r, c, pw)
        PROVE  TokenTrail'
    <3>1. UNCHANGED <<acted, audited, unaudited>> /\ req[r].pc = "idle"
      BY <2>4 DEF Login, database, Arrive
    <3>2. req[r].token = None
      BY <3>1 DEF RequestShape
    <3>3. ASSUME Set(r, NewRequest("verify", pw, c, None))
          PROVE  Others /\ req'[r].token = None
      <4>1. "verify" \in Points /\ pw \in Ops /\ c \in Args
        BY DEF Points, Ops, Args
      <4> QED  BY <1>0, <3>3, <4>1, NewFacts, SetFacts
    <3>4. CASE UNCHANGED req
      BY <2>3, <3>1, <3>4
    <3> QED  BY <2>3, <2>4, <3>1, <3>2, <3>3, <3>4 DEF Login
  <2>5. ASSUME NEW s \in Sessions, WebRequest(r, s)
        PROVE  TokenTrail'
    <3>1. PICK o \in WebOps \cup TokenOps : Set(r, NewRequest("act", o[1], o[2], None))
      BY <2>5 DEF WebRequest
    <3>2. UNCHANGED <<acted, audited, unaudited>> /\ req[r].pc = "idle"
      BY <2>5 DEF WebRequest, database, history, Arrive
    <3>3. req[r].token = None
      BY <3>2 DEF RequestShape
    <3>4. "act" \in Points /\ o[1] \in Ops /\ o[2] \in Args
      BY OpFacts DEF Points
    <3>5. Others /\ req'[r].token = None
      BY <1>0, <3>1, <3>4, NewFacts, SetFacts
    <3> QED  BY <2>3, <3>2, <3>3, <3>5
  <2>6. ASSUME NEW t \in Tokens, TokenRequest(r, t)
        PROVE  TokenTrail'
    <3>1. PICK o \in TokenOps \cup {<<"read", None>>}, q \in BOOLEAN :
            Touching(r, t, [NewRequest("act", o[1], o[2], t) EXCEPT !.query = q])
      BY <2>6 DEF TokenRequest
    <3> DEFINE m == NewRequest("act", o[1], o[2], t)
               n == [m EXCEPT !.query = q]
    <3>2. o[1] \in Ops /\ o[2] \in Args /\ "act" \in Points
      BY OpFacts DEF Points
    <3>3. m \in Request /\ m.token = t
      BY <3>2, NewFacts
    <3> HIDE DEF m
    <3>4. n \in Request /\ n.token = t
      BY <3>3 DEF Request
    <3>5. Touching(r, t, n)
      BY <3>1 DEF m
    <3> HIDE DEF n
    <3>6. Others /\ req'[r].token = t
      BY <1>0, <3>4, <3>5, TouchingFacts
    <3>7. /\ acted' = [acted EXCEPT ![t] = @ + 1]
          /\ UNCHANGED <<audited, unaudited>> /\ req[r].pc = "idle"
      BY <2>6 DEF TokenRequest, database, Arrive
    <3>8. req[r].token = None
      BY <3>7 DEF RequestShape
    <3> SUFFICES ASSUME NEW k \in Tokens
                 PROVE  acted'[k] = audited'[k] + unaudited'[k] + Serving(k)'
      BY DEF TokenTrail
    <3>9. Serving(k) \in Nat  BY ServingType
    <3>10. CASE k = t
      <4>1. Serving(k)' = Serving(k) + 1
        BY <3>6, <3>8, <3>10, ServingStep
      <4> QED  BY <3>7, <3>9, <3>10, <4>1 DEF TokenTrail, TypeOK
    <3>11. CASE k # t
      <4>1. Serving(k)' = Serving(k)
        BY <3>6, <3>8, <3>11, ServingStep
      <4> QED  BY <3>7, <3>9, <3>11, <4>1 DEF TokenTrail, TypeOK
    <3> QED  BY <3>10, <3>11
  <2>7. CASE BeginUpdate(r)
    <3>1. PICK u : Set(r, [req[r] EXCEPT !.pc = "url", !.update = u])
      BY <2>7 DEF BeginUpdate
    <3>2. Others /\ req'[r].token = req[r].token
      BY <1>0, <2>0, <3>1 DEF Set, Request
    <3>3. UNCHANGED <<acted, audited, unaudited>>
      BY <2>7 DEF BeginUpdate, database
    <3> QED  BY <2>3, <3>2, <3>3
  <2>8. CASE SaveSetting(r)
    <3>1. req[r].pc \in Settings /\ Goto(r, NextSetting(req[r].pc))
      BY <2>8 DEF SaveSetting
    <3>2. NextSetting(req[r].pc) \in Points
      BY <3>1, NextSettingFacts DEF Points
    <3>3. UNCHANGED <<acted, audited, unaudited>>
      BY <2>8 DEF SaveSetting
    <3> QED  BY <2>2, <2>3, <3>1, <3>2, <3>3
  <2>9. ASSUME NEW t \in Tokens, req[r].token = t, Set(r, Idle), UNCHANGED acted,
               \/ /\ audited' = [audited EXCEPT ![t] = @ + 1] /\ UNCHANGED unaudited
               \/ /\ unaudited' = [unaudited EXCEPT ![t] = @ + 1] /\ UNCHANGED audited
        PROVE  TokenTrail'
    <3>1. Others /\ req'[r].token = None
      BY <2>1, <2>9
    <3> SUFFICES ASSUME NEW k \in Tokens
                 PROVE  acted'[k] = audited'[k] + unaudited'[k] + Serving(k)'
      BY DEF TokenTrail
    <3>2. Serving(k) \in Nat  BY ServingType
    <3>3. CASE k = t
      <4>1. Serving(k)' = Serving(k) - 1
        BY <2>9, <3>1, <3>3, ServingStep
      <4> QED  BY <2>9, <3>2, <3>3, <4>1 DEF TokenTrail, TypeOK
    <3>4. CASE k # t
      <4>1. Serving(k)' = Serving(k)
        BY <2>9, <3>1, <3>4, ServingStep
      <4> QED  BY <2>9, <3>2, <3>4, <4>1 DEF TokenTrail, TypeOK
    <3> QED  BY <3>3, <3>4
  <2>10. CASE RecordAudit(r)
    <3>1. req[r].token \in Tokens
      BY <2>10 DEF RecordAudit, RequestShape
    <3> QED  BY <2>9, <2>10, <3>1 DEF RecordAudit
  <2>11. CASE Finish(r)
    <3>1. UNCHANGED <<acted, audited>>
      BY <2>11 DEF Finish, database
    <3>2. CASE req[r].token = None /\ Set(r, Idle) /\ UNCHANGED unaudited
      BY <2>1, <2>3, <3>1, <3>2
    <3>3. CASE Goto(r, "audit") /\ UNCHANGED unaudited
      <4>1. "audit" \in Points  BY DEF Points
      <4> QED  BY <2>2, <2>3, <3>1, <3>3, <4>1
    <3>4. CASE /\ Touching(r, req[r].token, [req[r] EXCEPT !.after = "audit"])
               /\ UNCHANGED unaudited
      <4> DEFINE n == [req[r] EXCEPT !.after = "audit"]
      <4>1. n \in Request /\ n.token = req[r].token
        BY <2>0 DEF Request
      <4> HIDE DEF n
      <4>2. Others /\ req'[r].token = req[r].token
        BY <1>0, <3>4, <4>1, TouchingFacts DEF n
      <4> QED  BY <2>3, <3>1, <3>4, <4>2
    <3>5. CASE /\ req[r].query /\ Set(r, Idle)
               /\ unaudited' = [unaudited EXCEPT ![req[r].token] = @ + 1]
      <4>1. req[r].token \in Tokens
        BY <3>5 DEF RequestShape
      <4> QED  BY <2>9, <3>1, <3>5, <4>1
    <3> QED  BY <2>11, <3>2, <3>3, <3>4, <3>5 DEF Finish
  <2>12. CASE TouchToken(r)
    <3>1. req[r].after \in Points /\ Goto(r, req[r].after)
      BY <2>0, <2>12 DEF TouchToken, Request, Points
    <3> QED  BY <2>2, <2>3, <2>12, <3>1 DEF TouchToken, history
  <2>13. CASE VerifyPassword(r) \/ Clear(r) \/ registerWebSession(r)
    <3>1. req[r].token = None
      BY <2>13 DEF VerifyPassword, Clear, registerWebSession, RequestShape
    <3>2. "clear" \in Points /\ "register" \in Points  BY DEF Points
    <3>3. UNCHANGED <<acted, audited, unaudited>>
      BY <2>13 DEF VerifyPassword, Clear, registerWebSession, database, history
    <3>4. Set(r, Idle) \/ Goto(r, "clear") \/ Goto(r, "register")
      BY <2>13 DEF VerifyPassword, Clear, registerWebSession
    <3> QED  BY <2>1, <2>2, <2>3, <3>1, <3>2, <3>3, <3>4
  <2>14. CASE \/ DeleteWebSession(r) \/ SetPassword(r) \/ CreateToken(r) \/ RevokeToken(r)
              \/ Read(r) \/ ActFails(r) \/ SetConfig(r)
    <3>1. Goto(r, "finish")
      BY <2>14 DEF DeleteWebSession, SetPassword, CreateToken, RevokeToken, Read, ActFails,
        SetConfig, Respond
    <3>2. UNCHANGED <<acted, audited, unaudited>>
      BY <2>14 DEF DeleteWebSession, SetPassword, CreateToken, RevokeToken, Read, ActFails,
        SetConfig, Respond, database, history
    <3>3. "finish" \in Points  BY DEF Points
    <3> QED  BY <2>2, <2>3, <3>1, <3>2, <3>3
  <2> QED  BY <1>3, <2>4, <2>5, <2>6, <2>7, <2>8, <2>10, <2>11, <2>12, <2>13, <2>14 DEF Handle
<1> QED  BY <1>1, <1>2, <1>3 DEF Next

-----------------------------------------------------------------------------
(* Password guesses. *)

(* The guesses of a window that ends at an instant. *)
Within(G, t) == {g \in G : g.at \in (t - Window + 1)..t}

(* The guesses at which the limiter looks are those of the window that ends now. *)
LEMMA RecentFacts ==
    ASSUME TypeOK, GuessesKnown, NEW c \in Clients
    PROVE  /\ Recent(c) = Within(guesses[c], clock)
           /\ IsFiniteSet(Recent(c)) /\ Recent(c) \subseteq guesses[c]
<1>1. /\ guesses[c] \in SUBSET [number : Nat, at : Nat] /\ clock \in Nat /\ Window \in Nat
      /\ attempts[c] \in SUBSET [number : Nat, at : Nat]
  BY DEF TypeOK
<1>2. /\ attempts[c] \subseteq guesses[c] /\ IsFiniteSet(guesses[c])
      /\ \A g \in guesses[c] : g.at <= clock /\ (g.at > clock - Window => g \in attempts[c])
  BY DEF GuessesKnown
<1>3. Recent(c) = Within(guesses[c], clock)
  BY <1>1, <1>2 DEF Recent, Within
<1>4. Recent(c) \in SUBSET guesses[c]
  BY <1>2 DEF Recent
<1> QED  BY <1>2, <1>3, <1>4, FS_Subset

(* A new attempt is one that was not there, and is counted. *)
LEMMA AttemptFacts ==
    ASSUME TypeOK, GuessesKnown, NEW c \in Clients
    PROVE  /\ Attempt(c) \in [number : Nat, at : Nat]
           /\ Attempt(c).at = clock /\ Attempt(c).number = Cardinality(guesses[c]) + 1
           /\ Attempt(c) \notin guesses[c]
           /\ IsFiniteSet(guesses[c] \cup {Attempt(c)})
           /\ Cardinality(guesses[c] \cup {Attempt(c)}) = Cardinality(guesses[c]) + 1
           /\ Cardinality(guesses[c]) \in Nat
<1>1. /\ IsFiniteSet(guesses[c]) /\ clock \in Nat
      /\ \A g \in guesses[c] : g.number <= Cardinality(guesses[c])
  BY DEF TypeOK, GuessesKnown
<1>2. Cardinality(guesses[c]) \in Nat
  BY <1>1, FS_CardinalityType
<1>3. /\ Attempt(c) \in [number : Nat, at : Nat]
      /\ Attempt(c).at = clock /\ Attempt(c).number = Cardinality(guesses[c]) + 1
  BY <1>1, <1>2 DEF Attempt
<1>4. Attempt(c) \notin guesses[c]
  BY <1>1, <1>2, <1>3
<1> QED  BY <1>1, <1>2, <1>3, <1>4, FS_AddElement

(* The limiter never forgets a guess of the current window. *)
LEMMA GuessStep ==
    ASSUME TypeOK, RequestShape, GuessesKnown, LoginsBounded, Next
    PROVE  /\ attempts' \in [Clients -> SUBSET [number : Nat, at : Nat]]
           /\ guesses' \in [Clients -> SUBSET [number : Nat, at : Nat]]
           /\ GuessesKnown' /\ LoginsBounded'
<1> DEFINE Record == [number : Nat, at : Nat]
           Good(G, A, now) ==
             /\ A \in SUBSET Record /\ G \in SUBSET Record
             /\ IsFiniteSet(G) /\ A \subseteq G
             /\ \A g \in G : /\ g.number <= Cardinality(G) /\ g.at <= now
                             /\ g.at > now - Window => g \in A
             /\ \A t \in 0..now : Cardinality(Within(G, t)) <= Limit
<1>0. /\ clock \in Nat /\ Window \in Nat \ {0} /\ Limit \in Nat \ {0}
      /\ attempts \in [Clients -> SUBSET Record] /\ guesses \in [Clients -> SUBSET Record]
      /\ req \in [Requests -> Request]
  BY DEF TypeOK
<1>1. \A c \in Clients : Good(guesses[c], attempts[c], clock)
  BY <1>0 DEF GuessesKnown, LoginsBounded, Within
<1>2. ASSUME attempts' \in [Clients -> SUBSET Record], guesses' \in [Clients -> SUBSET Record],
             \A c \in Clients : Good(guesses'[c], attempts'[c], clock')
      PROVE  /\ attempts' \in [Clients -> SUBSET Record]
             /\ guesses' \in [Clients -> SUBSET Record]
             /\ GuessesKnown' /\ LoginsBounded'
  BY <1>2 DEF GuessesKnown, LoginsBounded, Within
<1>3. Good({}, {}, clock)
  <2>1. \A t \in 0..clock : Within({}, t) = {}
    BY DEF Within
  <2> QED  BY <1>0, <2>1, FS_EmptySet
<1>4. ASSUME NEW c \in Clients
      PROVE  Good(guesses[c], Recent(c), clock)
  BY <1>0, <1>1, <1>4, RecentFacts DEF Recent
<1>5. CASE UNCHANGED <<attempts, guesses, clock>>
  BY <1>0, <1>1, <1>2, <1>5
<1>6. CASE Tick
  <2>1. attempts' = attempts /\ guesses' = guesses /\ clock' = clock + 1
    BY <1>6 DEF Tick, memory, history
  <2>2. ASSUME NEW c \in Clients
        PROVE  Good(guesses[c], attempts[c], clock + 1)
    <3>1. Good(guesses[c], attempts[c], clock)  BY <1>1
    <3>2. Within(guesses[c], clock + 1) \in SUBSET Within(guesses[c], clock)
      BY <1>0, <3>1 DEF Within
    <3>3. Within(guesses[c], clock) \in SUBSET guesses[c]
      BY DEF Within
    <3>4. IsFiniteSet(Within(guesses[c], clock))
      BY <3>1, <3>3, FS_Subset
    <3>5. Cardinality(Within(guesses[c], clock + 1)) <= Limit
      <4>1. Cardinality(Within(guesses[c], clock + 1)) <= Cardinality(Within(guesses[c], clock))
        BY <3>2, <3>4, FS_Subset
      <4>2. IsFiniteSet(Within(guesses[c], clock + 1))
        BY <3>2, <3>4, FS_Subset
      <4>3. /\ Cardinality(Within(guesses[c], clock + 1)) \in Nat
            /\ Cardinality(Within(guesses[c], clock)) \in Nat
        BY <3>4, <4>2, FS_CardinalityType
      <4>4. Cardinality(Within(guesses[c], clock)) <= Limit
        BY <1>0, <3>1
      <4> QED  BY <1>0, <4>1, <4>3, <4>4
    <3>6. \A t \in 0..(clock + 1) : t = clock + 1 \/ t \in 0..clock
      BY <1>0
    <3> QED  BY <1>0, <3>1, <3>5, <3>6
  <2> QED  BY <1>0, <1>2, <2>1, <2>2
<1>7. CASE Restart
  <2>1. /\ attempts' = [c \in Clients |-> {}] /\ guesses' = [c \in Clients |-> {}]
        /\ clock' = clock
    BY <1>7 DEF Restart
  <2>2. attempts' \in [Clients -> SUBSET Record] /\ guesses' \in [Clients -> SUBSET Record]
    BY <2>1
  <2>3. \A c \in Clients : guesses'[c] = {} /\ attempts'[c] = {}
    BY <2>1
  <2> QED  BY <1>2, <1>3, <2>1, <2>2, <2>3
<1>8. ASSUME NEW r \in Requests, Clear(r)
      PROVE  /\ attempts' \in [Clients -> SUBSET Record]
             /\ guesses' \in [Clients -> SUBSET Record]
             /\ GuessesKnown' /\ LoginsBounded'
  <2>1. /\ attempts' = [attempts EXCEPT ![req[r].arg] = {}]
        /\ guesses' = [guesses EXCEPT ![req[r].arg] = {}]
        /\ clock' = clock
    BY <1>8 DEF Clear
  <2>2. \A c \in Clients : \/ attempts'[c] = {} /\ guesses'[c] = {}
                           \/ attempts'[c] = attempts[c] /\ guesses'[c] = guesses[c]
    <3>1. PICK d \in Clients : d = req[r].arg
      BY <1>8 DEF Clear, RequestShape
    <3>2. /\ attempts' = [attempts EXCEPT ![d] = {}]
          /\ guesses' = [guesses EXCEPT ![d] = {}]
      BY <2>1, <3>1
    <3>3. ASSUME NEW c \in Clients, c = d
          PROVE  attempts'[c] = {} /\ guesses'[c] = {}
      BY <1>0, <3>2, <3>3
    <3>4. ASSUME NEW c \in Clients, c # d
          PROVE  attempts'[c] = attempts[c] /\ guesses'[c] = guesses[c]
      BY <1>0, <3>2, <3>4
    <3> QED  BY <3>3, <3>4
  <2>3. \A c \in Clients : Good(guesses'[c], attempts'[c], clock)
    <3> SUFFICES ASSUME NEW c \in Clients
                 PROVE  Good(guesses'[c], attempts'[c], clock)
      OBVIOUS
    <3> HIDE DEF Good
    <3> QED  BY <1>1, <1>3, <2>2
  <2>4. attempts' \in [Clients -> SUBSET Record] /\ guesses' \in [Clients -> SUBSET Record]
    BY <1>0, <2>1
  <2> QED  BY <1>2, <2>1, <2>3, <2>4
<1>9. ASSUME NEW r \in Requests, NEW c \in Clients, NEW pw, Login(r, c, pw)
      PROVE  /\ attempts' \in [Clients -> SUBSET Record]
             /\ guesses' \in [Clients -> SUBSET Record]
             /\ GuessesKnown' /\ LoginsBounded'
  <2>0. clock' = clock  BY <1>9 DEF Login
  <2>1. CASE ~Allowed(c)
    <3>1. attempts' = [attempts EXCEPT ![c] = Recent(c)] /\ guesses' = guesses
      BY <1>9, <2>1 DEF Login
    <3>2. Recent(c) \in SUBSET Record
      BY <1>0 DEF Recent
    <3> QED  BY <1>0, <1>1, <1>2, <1>4, <2>0, <3>1, <3>2
  <2>2. CASE Allowed(c)
    <3> DEFINE a == Attempt(c)
               G == guesses[c]
    <3>1. /\ attempts' = [x \in Clients |->
                  IF x = c THEN Recent(c) \cup {a} ELSE Recent(x)]
          /\ guesses' = [guesses EXCEPT ![c] = @ \cup {a}]
      BY <1>9, <2>2 DEF Login
    <3>2. /\ a \in Record /\ a.at = clock /\ a.number = Cardinality(G) + 1 /\ a \notin G
          /\ IsFiniteSet(G \cup {a}) /\ Cardinality(G \cup {a}) = Cardinality(G) + 1
          /\ Cardinality(G) \in Nat
      BY AttemptFacts
    <3>3. Recent(c) = Within(G, clock) /\ IsFiniteSet(Recent(c)) /\ Recent(c) \subseteq G
      BY RecentFacts
    <3>4. Good(G, Recent(c), clock)
      BY <1>4
    <3> HIDE DEF a, G
    <3>5. ASSUME NEW t \in 0..clock
          PROVE  Cardinality(Within(G \cup {a}, t)) <= Limit
      <4>1. CASE t = clock
        <5>1. Within(G \cup {a}, t) = Within(G, clock) \cup {a}
          BY <1>0, <3>2, <4>1 DEF Within
        <5>2. a \notin Recent(c)
          BY <3>2, <3>3
        <5>3. Cardinality(Recent(c) \cup {a}) = Cardinality(Recent(c)) + 1
          BY <3>3, <5>2, FS_AddElement
        <5>4. Cardinality(Recent(c)) < Limit /\ Cardinality(Recent(c)) \in Nat
          BY <2>2, <3>3, FS_CardinalityType DEF Allowed
        <5>5. Within(G \cup {a}, t) = Recent(c) \cup {a}
          BY <3>3, <5>1
        <5>6. Cardinality(Within(G \cup {a}, t)) = Cardinality(Recent(c)) + 1
          BY <5>3, <5>5
        <5>7. Cardinality(Recent(c)) + 1 <= Limit
          BY <5>4, <1>0
        <5> QED  BY <5>6, <5>7
      <4>2. CASE t # clock
        <5>1. Within(G \cup {a}, t) = Within(G, t)
          BY <1>0, <3>2, <4>2 DEF Within
        <5> QED  BY <3>4, <5>1
      <4> QED  BY <4>1, <4>2
    <3>6. Good(G \cup {a}, Recent(c) \cup {a}, clock)
      <4>1. \A g \in G : g.number \in Nat
        BY <3>4
      <4>2. \A g \in G : g.number <= Cardinality(G) + 1
        BY <3>2, <3>4, <4>1
      <4>3. \A g \in G \cup {a} : g.number <= Cardinality(G \cup {a})
        BY <3>2, <4>2
      <4>4. \A g \in G \cup {a} : g.at <= clock /\ (g.at > clock - Window => g \in Recent(c) \cup {a})
        BY <1>0, <3>2, <3>4
      <4>5. Recent(c) \cup {a} \in SUBSET Record /\ G \cup {a} \in SUBSET Record
        BY <3>2, <3>4
      <4> QED  BY <3>2, <3>3, <3>5, <4>3, <4>4, <4>5
    <3>7. \A x \in Clients : x # c => Good(guesses'[x], attempts'[x], clock)
      BY <1>0, <1>4, <3>1
    <3>8. guesses'[c] = G \cup {a} /\ attempts'[c] = Recent(c) \cup {a}
      BY <1>0, <3>1 DEF G
    <3>9. \A x \in Clients : Good(guesses'[x], attempts'[x], clock)
      BY <3>6, <3>7, <3>8
    <3>10. \A x \in Clients : guesses'[x] \in SUBSET Record /\ attempts'[x] \in SUBSET Record
      BY <3>9
    <3>11. attempts' \in [Clients -> SUBSET Record] /\ guesses' \in [Clients -> SUBSET Record]
      BY <1>0, <3>1, <3>10
    <3> QED  BY <1>2, <2>0, <3>9, <3>11
  <2> QED  BY <2>1, <2>2
<1>10. ASSUME NEW r \in Requests, Handle(r), ~Clear(r)
       PROVE  UNCHANGED <<attempts, guesses, clock>>
  BY <1>10 DEF Handle, VerifyPassword, registerWebSession, TouchToken, DeleteWebSession,
    SetPassword, CreateToken, RevokeToken, Read, ActFails, BeginUpdate, SaveSetting,
    SetConfig, Finish, RecordAudit, Respond, memory, history
<1>11. ASSUME NEW r \in Requests,
              (\E s \in Sessions : WebRequest(r, s)) \/ \E t \in Tokens : TokenRequest(r, t)
       PROVE  UNCHANGED <<attempts, guesses, clock>>
  BY <1>11 DEF WebRequest, TokenRequest, memory, history
<1>12. CASE DeleteExpiredWebSessions
  BY <1>5, <1>12 DEF DeleteExpiredWebSessions, memory, history
<1> QED  BY <1>5, <1>6, <1>7, <1>8, <1>9, <1>10, <1>11, <1>12 DEF Next

-----------------------------------------------------------------------------
(* Updates of the LLM settings. *)

(* A step that is no part of an update leaves the updates in order. *)
LEMMA QuietStep ==
    ASSUME UpdateOrderly, UNCHANGED <<saved, llm, mixed>>,
           \A x \in Requests : Updating(x)' <=> Updating(x),
           \A x \in Requests : Updating(x) => req'[x] = req[x]
    PROVE  UpdateOrderly'
BY DEF UpdateOrderly

(* While no updates overlap and none fails, database and memory agree. *)
LEMMA UpdateStep ==
    ASSUME TypeOK, RequestShape, UpdateOrderly, Next
    PROVE  UpdateOrderly'
<1>0. req \in [Requests -> Request] /\ saved \in LLM /\ llm \in LLM
  BY DEF TypeOK
<1>1. CASE Tick \/ DeleteExpiredWebSessions
  <2>1. UNCHANGED <<saved, llm, mixed, req>>
    BY <1>1 DEF Tick, DeleteExpiredWebSessions, database, memory, history
  <2> QED  BY <2>1, QuietStep DEF Updating
<1>2. CASE Restart
  <2>1. saved' = llm' /\ req' = [r \in Requests |-> Idle]
    BY <1>2 DEF Restart
  <2>2. \A r \in Requests : ~Updating(r)'
    BY <2>1, IdleFacts DEF Updating, Settings
  <2> QED  BY <2>1, <2>2 DEF UpdateOrderly
<1>3. ASSUME NEW r \in Requests,
             \/ Handle(r)
             \/ \E c \in Clients, pw \in {"first", "second", "wrong"} : Login(r, c, pw)
             \/ \E s \in Sessions : WebRequest(r, s)
             \/ \E t \in Tokens : TokenRequest(r, t)
      PROVE  UpdateOrderly'
  <2> DEFINE Elsewhere == Points \ (Settings \cup {"apply"})
             Others == \A x \in Requests : x # r => req'[x] = req[x]
  <2>0. req[r] \in Request  BY <1>0
  <2>1. ASSUME Others, UNCHANGED <<saved, llm, mixed>>,
               req[r].pc \in Elsewhere, req'[r].pc \in Elsewhere
        PROVE  UpdateOrderly'
    <3>1. \A x \in Requests : Updating(x)' <=> Updating(x)
      BY <2>1 DEF Updating
    <3>2. \A x \in Requests : Updating(x) => req'[x] = req[x]
      BY <2>1 DEF Updating
    <3> QED  BY <2>1, <3>1, <3>2, QuietStep
  <2>2. ASSUME Set(r, Idle)
        PROVE  Others /\ req'[r].pc \in Elsewhere
    BY <1>0, <2>2, SetFacts, IdleFacts DEF Points, Settings
  <2>3. ASSUME NEW to \in Points, Goto(r, to)
        PROVE  Others /\ req'[r].pc = to /\ req'[r].update = req[r].update
    BY <1>0, <2>3, GotoFacts
  <2>4. {"idle", "verify", "clear", "register", "touch", "act", "finish", "audit"}
          \subseteq Elsewhere
    BY DEF Points, Settings
  <2> HIDE DEF Elsewhere
  <2>5. ASSUME NEW c \in Clients, NEW pw \in {"first", "second", "wrong"}, Login(r, c, pw)
        PROVE  UpdateOrderly'
    <3>1. UNCHANGED <<saved, llm, mixed>> /\ req[r].pc = "idle"
      BY <2>5 DEF Login, database, Arrive
    <3>2. CASE Set(r, NewRequest("verify", pw, c, None))
      <4>1. "verify" \in Points /\ pw \in Ops /\ c \in Args
        BY DEF Points, Ops, Args
      <4>2. Others /\ req'[r].pc = "verify"
        BY <1>0, <3>2, <4>1, NewFacts, SetFacts
      <4> QED  BY <2>1, <2>4, <3>1, <4>2
    <3>3. CASE UNCHANGED req
      BY <2>1, <2>4, <3>1, <3>3
    <3> QED  BY <2>5, <3>2, <3>3 DEF Login
  <2>6. ASSUME NEW s \in Sessions, WebRequest(r, s)
        PROVE  UpdateOrderly'
    <3>1. PICK o \in WebOps \cup TokenOps : Set(r, NewRequest("act", o[1], o[2], None))
      BY <2>6 DEF WebRequest
    <3>2. UNCHANGED <<saved, llm, mixed>> /\ req[r].pc = "idle"
      BY <2>6 DEF WebRequest, database, memory, history, Arrive
    <3>3. "act" \in Points /\ o[1] \in Ops /\ o[2] \in Args
      BY OpFacts DEF Points
    <3>4. Others /\ req'[r].pc = "act"
      BY <1>0, <3>1, <3>3, NewFacts, SetFacts
    <3> QED  BY <2>1, <2>4, <3>2, <3>4
  <2>7. ASSUME NEW t \in Tokens, TokenRequest(r, t)
        PROVE  UpdateOrderly'
    <3>1. PICK o \in TokenOps \cup {<<"read", None>>}, q \in BOOLEAN :
            Touching(r, t, [NewRequest("act", o[1], o[2], t) EXCEPT !.query = q])
      BY <2>7 DEF TokenRequest
    <3> DEFINE m == NewRequest("act", o[1], o[2], t)
               n == [m EXCEPT !.query = q]
    <3>2. o[1] \in Ops /\ o[2] \in Args /\ "act" \in Points
      BY OpFacts DEF Points
    <3>3. m \in Request
      BY <3>2, NewFacts
    <3> HIDE DEF m
    <3>4. n \in Request
      BY <3>3 DEF Request
    <3>5. Touching(r, t, n)
      BY <3>1 DEF m
    <3> HIDE DEF n
    <3>6. Others /\ req'[r].pc \in {"act", "audit", "touch"}
      BY <1>0, <3>4, <3>5, TouchingFacts
    <3>7. UNCHANGED <<saved, llm, mixed>> /\ req[r].pc = "idle"
      BY <2>7 DEF TokenRequest, database, Arrive
    <3> QED  BY <2>1, <2>4, <3>6, <3>7
  <2>8. CASE BeginUpdate(r)
    <3>1. PICK u : Set(r, [req[r] EXCEPT !.pc = "url", !.update = u])
      BY <2>8 DEF BeginUpdate
    <3>2. Others /\ req'[r].pc = "url"
      BY <1>0, <2>0, <3>1 DEF Set, Request
    <3>3. mixed' = (mixed \/ \E x \in Requests : Updating(x)) /\ req[r].pc = "act"
      BY <2>8 DEF BeginUpdate, Acting
    <3> SUFFICES ASSUME ~mixed'
                 PROVE  /\ \A y, x \in Requests : Updating(y)' /\ Updating(x)' => y = x
                        /\ \A y \in Requests : Updating(y)' =>
                              \A f \in Stored(req'[y].pc) : saved'[f] = req'[y].update[f]
                        /\ (\A y \in Requests : ~Updating(y)') => saved' = llm'
      BY DEF UpdateOrderly
    <3>4. \A x \in Requests : ~Updating(x)
      BY <3>3
    <3>5. \A x \in Requests : Updating(x)' <=> x = r
      BY <3>2, <3>4 DEF Updating, Settings
    <3>6. Stored(req'[r].pc) = {}
      BY <3>2 DEF Stored
    <3> QED  BY <3>5, <3>6
  <2>9. CASE SaveSetting(r)
    <3> DEFINE f == req[r].pc
    <3>1. f \in Settings /\ Goto(r, NextSetting(f)) /\ llm' = llm
      BY <2>9 DEF SaveSetting, memory
    <3>2. /\ NextSetting(f) \in Settings \cup {"apply"}
          /\ Stored(NextSetting(f)) = Stored(f) \cup {f}
      BY <3>1, NextSettingFacts
    <3>3. Others /\ req'[r].pc = NextSetting(f) /\ req'[r].update = req[r].update
      BY <2>3, <3>1, <3>2 DEF Points
    <3> SUFFICES ASSUME ~mixed'
                 PROVE  /\ \A y, x \in Requests : Updating(y)' /\ Updating(x)' => y = x
                        /\ \A y \in Requests : Updating(y)' =>
                              \A g \in Stored(req'[y].pc) : saved'[g] = req'[y].update[g]
                        /\ (\A y \in Requests : ~Updating(y)') => saved' = llm'
      BY DEF UpdateOrderly
    <3>4. ~mixed /\ saved' = [saved EXCEPT ![f] = req[r].update[f]]
      BY <2>9 DEF SaveSetting
    <3>5. Updating(r) /\ Updating(r)'
      BY <3>1, <3>2, <3>3 DEF Updating
    <3>6. \A x \in Requests : Updating(x)' <=> Updating(x)
      BY <3>3, <3>5 DEF Updating
    <3>7. \A x \in Requests : Updating(x) => x = r
      BY <3>4, <3>5 DEF UpdateOrderly
    <3>8. \A g \in Stored(f) : saved[g] = req[r].update[g]
      BY <3>4, <3>5 DEF UpdateOrderly
    <3>9. Stored(f) \subseteq Settings
      BY <3>1 DEF Stored, Settings
    <3> HIDE DEF f
    <3>10. \A g \in Stored(f) \cup {f} : saved'[g] = req[r].update[g]
      BY <1>0, <3>1, <3>4, <3>8, <3>9 DEF LLM
    <3> QED  BY <3>2, <3>3, <3>5, <3>6, <3>7, <3>10
  <2>10. CASE SetConfig(r)
    <3>1. /\ req[r].pc = "apply" /\ Goto(r, "finish")
          /\ llm' = req[r].update /\ UNCHANGED <<saved, mixed>>
      BY <2>10 DEF SetConfig, database, history
    <3>2. Others /\ req'[r].pc = "finish"
      BY <2>3, <3>1 DEF Points
    <3> SUFFICES ASSUME ~mixed
                 PROVE  saved' = llm' /\ \A y \in Requests : ~Updating(y)'
      BY <3>1 DEF UpdateOrderly
    <3>3. Updating(r) /\ ~Updating(r)'
      BY <3>1, <3>2 DEF Updating, Settings
    <3>4. \A x \in Requests : Updating(x) => x = r
      BY <3>3 DEF UpdateOrderly
    <3>5. \A x \in Requests : ~Updating(x)'
      BY <3>2, <3>3, <3>4 DEF Updating
    <3>6. Stored(req[r].pc) = Settings
      BY <3>1 DEF Stored
    <3>7. \A g \in Settings : saved[g] = req[r].update[g]
      BY <3>3, <3>6 DEF UpdateOrderly
    <3>8. req[r].update \in LLM
      BY <2>0 DEF Request
    <3>9. saved = req[r].update
      BY <1>0, <3>7, <3>8 DEF LLM
    <3> QED  BY <3>1, <3>5, <3>9
  <2>11. CASE Finish(r)
    <3>1. UNCHANGED <<saved, llm, mixed>> /\ req[r].pc = "finish"
      BY <2>11 DEF Finish, database
    <3>2. CASE Set(r, Idle)
      BY <2>1, <2>2, <2>4, <3>1, <3>2
    <3>3. CASE Goto(r, "audit")
      BY <2>1, <2>3, <2>4, <3>1, <3>3 DEF Points
    <3>4. CASE Touching(r, req[r].token, [req[r] EXCEPT !.after = "audit"])
      <4> DEFINE n == [req[r] EXCEPT !.after = "audit"]
      <4>1. n \in Request
        BY <2>0 DEF Request
      <4> HIDE DEF n
      <4>2. Others /\ req'[r].pc \in {"act", "audit", "touch"}
        BY <1>0, <3>4, <4>1, TouchingFacts DEF n
      <4> QED  BY <2>1, <2>4, <3>1, <4>2
    <3> QED  BY <2>11, <3>2, <3>3, <3>4 DEF Finish
  <2>12. CASE TouchToken(r)
    <3>1. req[r].after \in {"act", "audit"} /\ Goto(r, req[r].after)
      BY <2>0, <2>12 DEF TouchToken, Request
    <3>2. Others /\ req'[r].pc \in {"act", "audit"}
      BY <2>3, <3>1 DEF Points
    <3> QED  BY <2>1, <2>4, <2>12, <3>2 DEF TouchToken, memory, history
  <2>13. CASE \/ VerifyPassword(r) \/ Clear(r) \/ registerWebSession(r) \/ RecordAudit(r)
    <3>1. /\ UNCHANGED <<saved, llm, mixed>>
          /\ req[r].pc \in {"verify", "clear", "register", "audit"}
      BY <2>13 DEF VerifyPassword, Clear, registerWebSession, RecordAudit, database, memory,
        history
    <3>2. Set(r, Idle) \/ Goto(r, "clear") \/ Goto(r, "register")
      BY <2>13 DEF VerifyPassword, Clear, registerWebSession, RecordAudit
    <3>3. Others /\ req'[r].pc \in Elsewhere
      BY <2>2, <2>3, <2>4, <3>2 DEF Points
    <3> QED  BY <2>1, <2>4, <3>1, <3>3
  <2>14. CASE \/ DeleteWebSession(r) \/ SetPassword(r) \/ CreateToken(r) \/ RevokeToken(r)
              \/ Read(r) \/ ActFails(r)
    <3>1. Goto(r, "finish") /\ req[r].pc = "act"
      BY <2>14 DEF DeleteWebSession, SetPassword, CreateToken, RevokeToken, Read, ActFails,
        Acting, Respond
    <3>2. UNCHANGED <<saved, llm, mixed>>
      BY <2>14 DEF DeleteWebSession, SetPassword, CreateToken, RevokeToken, Read, ActFails,
        Respond, database, memory, history
    <3>3. Others /\ req'[r].pc = "finish"
      BY <2>3, <3>1 DEF Points
    <3> QED  BY <2>1, <2>4, <3>1, <3>2, <3>3
  <2> QED
    BY <1>3, <2>5, <2>6, <2>7, <2>8, <2>9, <2>10, <2>11, <2>12, <2>13, <2>14 DEF Handle
<1> QED  BY <1>1, <1>2, <1>3 DEF Next

-----------------------------------------------------------------------------
(* The theorems. *)

(* What is loaded at a start are settings. *)
LEMMA LoadFacts ==
    ASSUME TypeOK
    PROVE  loadLLMConfig \in LLM
<1>1. \A f \in Settings : saved[f] \in {Empty, "flag", "web"} /\ flags[f] \in {Empty, "flag", "web"}
  BY DEF TypeOK, LLM
<1> QED  BY <1>1 DEF loadLLMConfig, LLM

(* Clock, settings and counters stay in their types. *)
LEMMA TypeStep ==
    ASSUME TypeOK, RequestShape, Next
    PROVE  /\ clock' \in Nat
           /\ saved' \in LLM /\ llm' \in LLM /\ flags' \in LLM
           /\ audited' \in [Tokens -> Nat] /\ acted' \in [Tokens -> Nat]
           /\ unaudited' \in [Tokens -> Nat]
           /\ mixed' \in BOOLEAN
<1> DEFINE Typed == /\ clock' \in Nat
                    /\ saved' \in LLM /\ llm' \in LLM /\ flags' \in LLM
                    /\ audited' \in [Tokens -> Nat] /\ acted' \in [Tokens -> Nat]
                    /\ unaudited' \in [Tokens -> Nat]
                    /\ mixed' \in BOOLEAN
<1>0. /\ clock \in Nat /\ saved \in LLM /\ llm \in LLM /\ flags \in LLM
      /\ audited \in [Tokens -> Nat] /\ acted \in [Tokens -> Nat]
      /\ unaudited \in [Tokens -> Nat] /\ mixed \in BOOLEAN
      /\ req \in [Requests -> Request]
  BY DEF TypeOK
<1>1. CASE Tick
  BY <1>0, <1>1 DEF Tick, database, memory, history
<1>2. CASE DeleteExpiredWebSessions
  BY <1>0, <1>2 DEF DeleteExpiredWebSessions, memory, history
<1>3. CASE Restart
  <2>1. \A t \in Tokens : unaudited[t] + Serving(t) \in Nat
    BY <1>0, ServingType
  <2>2. saved' \in LLM /\ llm' \in LLM
    BY <1>3, LoadFacts DEF Restart
  <2>3. unaudited' \in [Tokens -> Nat]
    BY <1>3, <2>1 DEF Restart
  <2> QED  BY <1>0, <1>3, <2>2, <2>3 DEF Restart
<1>4. ASSUME NEW r \in Requests,
             \/ \E c \in Clients, pw \in {"first", "second", "wrong"} : Login(r, c, pw)
             \/ \E s \in Sessions : WebRequest(r, s)
             \/ \E t \in Tokens : TokenRequest(r, t)
      PROVE  Typed
  BY <1>0, <1>4 DEF Login, WebRequest, TokenRequest, database, memory, history
<1>5. ASSUME NEW r \in Requests, Handle(r)
      PROVE  Typed
  <2>1. CASE BeginUpdate(r)
    <3>1. mixed' \in BOOLEAN
      BY <2>1 DEF BeginUpdate
    <3> QED  BY <1>0, <2>1, <3>1 DEF BeginUpdate, database, memory
  <2>2. CASE SaveSetting(r)
    <3>1. req[r].update \in LLM
      BY <1>0 DEF Request
    <3>2. req[r].pc \in Settings => req[r].update[req[r].pc] \in {Empty, "flag", "web"}
      BY <3>1 DEF LLM
    <3>3. saved' \in LLM
      BY <1>0, <2>2, <3>2 DEF SaveSetting, LLM
    <3> QED  BY <1>0, <2>2, <3>3 DEF SaveSetting, memory
  <2>3. CASE SetConfig(r)
    <3>1. req[r].update \in LLM
      BY <1>0 DEF Request
    <3> QED  BY <1>0, <2>3, <3>1 DEF SetConfig, database, history
  <2>4. CASE Finish(r)
    BY <1>0, <2>4 DEF Finish, database
  <2>5. CASE RecordAudit(r)
    BY <1>0, <2>5 DEF RecordAudit, memory
  <2>6. CASE \/ VerifyPassword(r) \/ Clear(r) \/ registerWebSession(r) \/ TouchToken(r)
             \/ DeleteWebSession(r) \/ SetPassword(r) \/ CreateToken(r) \/ RevokeToken(r)
             \/ Read(r) \/ ActFails(r)
    BY <1>0, <2>6 DEF VerifyPassword, Clear, registerWebSession, TouchToken, DeleteWebSession,
      SetPassword, CreateToken, RevokeToken, Read, ActFails, Respond, database, memory, history
  <2> QED  BY <1>5, <2>1, <2>2, <2>3, <2>4, <2>5, <2>6 DEF Handle
<1> QED  BY <1>1, <1>2, <1>3, <1>4, <1>5 DEF Next

(* The invariant holds at the start. *)
LEMMA InitFacts == Init => IInv
<1> SUFFICES ASSUME Init PROVE IInv
  OBVIOUS
<1>1. req = [r \in Requests |-> Idle] /\ req \in [Requests -> Request]
  BY IdleFacts DEF Init
<1>2. TypeOK
  BY <1>1 DEF Init, TypeOK, LLM
<1>3. RequestShape
  BY <1>1, IdleFacts DEF RequestShape, Updating, Settings
<1>4. TokenTrail
  <2> SUFFICES ASSUME NEW t \in Tokens
               PROVE  acted[t] = audited[t] + unaudited[t] + Serving(t)
    BY DEF TokenTrail
  <2>1. {r \in Requests : req[r].token = t} = {}
    BY <1>1, IdleFacts
  <2> QED  BY <2>1, FS_EmptySet DEF Serving, Init
<1>5. \A c \in Clients : guesses[c] = {} /\ attempts[c] = {}
  BY DEF Init
<1>6. GuessesKnown
  BY <1>5, FS_EmptySet DEF GuessesKnown
<1>7. LoginsBounded
  <2> SUFFICES ASSUME NEW c \in Clients, NEW t \in 0..clock
               PROVE  Cardinality({g \in guesses[c] : g.at \in (t - Window + 1)..t}) <= Limit
    BY DEF LoginsBounded
  <2>1. {g \in guesses[c] : g.at \in (t - Window + 1)..t} = {}
    BY <1>5
  <2>2. Cardinality({g \in guesses[c] : g.at \in (t - Window + 1)..t}) = 0
    BY <2>1, FS_EmptySet
  <2> QED  BY <2>2
<1>8. UpdateOrderly
  <2>1. \A r \in Requests : ~Updating(r)
    BY <1>1, IdleFacts DEF Updating, Settings
  <2> QED  BY <2>1 DEF UpdateOrderly, Init
<1> QED  BY <1>2, <1>3, <1>4, <1>6, <1>7, <1>8 DEF IInv

(* Access stays in order: the request handlers, the limiter, the audit     *)
(* log and the LLM configuration in every interleaving, with failing       *)
(* statements and restarts.                                                *)
THEOREM Invariant == Spec => []IInv
<1>1. IInv /\ [Next]_vars => IInv'
  <2> SUFFICES ASSUME IInv, [Next]_vars PROVE IInv'
    OBVIOUS
  <2>1. CASE Next
    <3>1. TypeOK /\ RequestShape /\ TokenTrail /\ GuessesKnown /\ LoginsBounded /\ UpdateOrderly
      BY DEF IInv
    <3>2. req' \in [Requests -> Request] /\ RequestShape'
      BY <2>1, <3>1, RequestsStep
    <3>3. /\ attempts' \in [Clients -> SUBSET [number : Nat, at : Nat]]
          /\ guesses' \in [Clients -> SUBSET [number : Nat, at : Nat]]
          /\ GuessesKnown' /\ LoginsBounded'
      BY <2>1, <3>1, GuessStep
    <3>4. TokenTrail' /\ UpdateOrderly'
      BY <2>1, <3>1, TrailStep, UpdateStep
    <3>5. TypeOK'
      BY <2>1, <3>1, <3>2, <3>3, TypeStep DEF TypeOK
    <3> QED  BY <3>2, <3>3, <3>4, <3>5 DEF IInv
  <2>2. CASE UNCHANGED vars
    BY <2>2 DEF vars, database, memory, history, IInv, TypeOK, RequestShape, Updating,
      TokenTrail, Serving, GuessesKnown, LoginsBounded, UpdateOrderly
  <2> QED  BY <2>1, <2>2
<1> QED  BY <1>1, InitFacts, PTL DEF Spec

(* No client ever gets more than Limit passwords checked within a window,  *)
(* whatever the window, the limit and the number of clients and requests   *)
(* at once (allow).                                                        *)
THEOREM GuessingIsBounded == Spec => []LoginsBounded
<1>1. IInv => LoginsBounded  BY DEF IInv
<1> QED  BY <1>1, Invariant, PTL

(* The audit log accounts for every request served for a token, for any    *)
(* number of requests at once (logMiddleware).                             *)
THEOREM TokensLeaveATrail == Spec => []TokenTrail
<1>1. IInv => TokenTrail  BY DEF IInv
<1> QED  BY <1>1, Invariant, PTL

(* A restart brings back the LLM configuration (updateLLMConfig,           *)
(* loadLLMConfig).                                                         *)
THEOREM ConfigurationSurvives == Spec => []ConfigSurvives
<1>1. IInv => ConfigSurvives
  <2> SUFFICES ASSUME IInv, ~mixed, \A r \in Requests : ~Updating(r), NEW f \in Settings
               PROVE  loadLLMConfig[f] = llm[f] \/ (llm[f] = Empty /\ loadLLMConfig[f] = flags[f])
    BY DEF ConfigSurvives
  <2>1. saved = llm
    BY DEF IInv, UpdateOrderly
  <2> QED  BY <2>1 DEF loadLLMConfig
<1> QED  BY <1>1, Invariant, PTL

=============================================================================
