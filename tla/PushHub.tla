-------------------------------- MODULE PushHub --------------------------------
(***************************************************************************)
(* The push hub (internal/push/hub.go), the websocket handler that         *)
(* registers connections with it (handleWebSocket) and its end in main.    *)
(* Handlers, broadcasters and Run are goroutines; the map of clients and   *)
(* each connection's writes are guarded by locks.  A peer may vanish       *)
(* without closing its connection: nothing tells it from a slow one but    *)
(* the deadlines on reads and writes.                                      *)
(***************************************************************************)
EXTENDS Integers, FiniteSets

CONSTANTS Conns,          \* connections
          Broadcasters,   \* goroutines that call Broadcast
          None,
          MaxBroadcasts   \* bound on the broadcasts of one behaviour

ASSUME HubAssumption ==
    /\ MaxBroadcasts \in Nat
    /\ None \notin Conns \cup Broadcasters
    /\ Conns \cap Broadcasters = {}

VARIABLES clients,   \* the hub's map
          open,      \* connections this side has not closed
          peer,      \* the other side of each: alive, gone silently or closed
          handler,   \* program point of each connection's handler
          writer,    \* who holds a connection's write lock
          bpc, todo, target, message,  \* each broadcaster: where it is, the rest of
                     \* its snapshot, the connection it writes to, its message
          run, ending,  \* Run, and the connections it still has to close
          server,    \* the HTTP server and main
          owed,      \* history: the messages whose snapshot held a connection
                     \* and that were not written to it
          sent       \* broadcasts made

conns == <<open, peer, handler, writer>>
broadcasts == <<bpc, todo, target, message, owed, sent>>
vars == <<clients, conns, broadcasts, run, ending, server>>

Init ==
    /\ clients = {} /\ open = {}
    /\ peer = [c \in Conns |-> "alive"]
    /\ handler = [c \in Conns |-> "none"]
    /\ writer = [c \in Conns |-> None]
    /\ bpc = [b \in Broadcasters |-> "idle"]
    /\ todo = [b \in Broadcasters |-> {}]
    /\ target = [b \in Broadcasters |-> None]
    /\ message = [b \in Broadcasters |-> 0]
    /\ owed = [c \in Conns |-> {}]
    /\ sent = 0
    /\ run = "waiting" /\ ending = {}
    /\ server = "up"

-----------------------------------------------------------------------------
\* A write succeeds only on an open connection whose peer has not closed; to
\* a silent or a slow peer it may also fail, when the deadline passes.
MaySucceed(c) == c \in open /\ peer[c] # "closed"

-----------------------------------------------------------------------------
(* handleWebSocket. *)

Step(c, from, to) ==
    /\ handler[c] = from
    /\ handler' = [handler EXCEPT ![c] = to]
    /\ UNCHANGED <<broadcasts, run, ending, server>>

\* The request is authenticated and upgraded while the server accepts.
Connect(c) ==
    /\ server = "up"
    /\ Step(c, "none", "upgraded")
    /\ open' = open \cup {c}
    /\ UNCHANGED <<clients, peer, writer>>

\* Register; then the ping goroutine is started.
Register(c) ==
    /\ Step(c, "upgraded", "greet")
    /\ clients' = clients \cup {c}
    /\ UNCHANGED <<open, peer, writer>>

\* hubConn.Write of "subscribed"; its error is ignored.
GreetLock(c) ==
    /\ writer[c] = None /\ writer' = [writer EXCEPT ![c] = c]
    /\ Step(c, "greet", "greeting")
    /\ UNCHANGED <<clients, open, peer>>

\* Faulty variant: the lock is not released.
GreetWriteLocked(c) ==
    /\ Step(c, "greeting", "reading")
    /\ UNCHANGED <<clients, open, peer, writer>>

GreetWrite(c) ==
    /\ writer' = [writer EXCEPT ![c] = None]
    /\ Step(c, "greeting", "reading")
    /\ UNCHANGED <<clients, open, peer>>

\* Faulty variant: no deadline on reads.
ReadUnblocksLate(c) == c \notin open \/ peer[c] = "closed"

\* ReadMessage returns an error when either side has closed or when no pong
\* has moved the read deadline.  A peer whose pongs come too late, or that
\* sends more than the read limit, counts as gone.
ReadUnblocks(c) == c \notin open \/ peer[c] # "alive"

\* The deferred calls run: the ping goroutine ends, then Unregister.
ReadFails(c) ==
    /\ ReadUnblocks(c)
    /\ Step(c, "reading", "unregister")
    /\ UNCHANGED <<clients, open, peer, writer>>

\* Unregister closes the connection if it finds it in the map.
Unregister(c) ==
    /\ Step(c, "unregister", IF c \in clients THEN "close" ELSE "done")
    /\ clients' = clients \ {c}
    /\ UNCHANGED <<open, peer, writer>>

Close(c) ==
    /\ Step(c, "close", "done")
    /\ open' = open \ {c}
    /\ UNCHANGED <<clients, peer, writer>>

\* The ping goroutine, which lives until the handler leaves its read loop: a
\* ping that is not written by its deadline closes the connection.
PingFails(c) ==
    /\ c \in open /\ handler[c] \in {"greet", "greeting", "reading"}
    /\ open' = open \ {c}
    /\ UNCHANGED <<clients, peer, handler, writer, broadcasts, run, ending, server>>

PeerLeaves(c) ==
    /\ c \in open /\ peer[c] = "alive"
    /\ \E how \in {"gone", "closed"} : peer' = [peer EXCEPT ![c] = how]
    /\ UNCHANGED <<clients, open, handler, writer, broadcasts, run, ending, server>>

-----------------------------------------------------------------------------
(* Broadcast: the snapshot is taken under the hub's lock, the writes are not. *)

Snapshot(b) ==
    /\ bpc[b] = "idle" /\ sent < MaxBroadcasts
    /\ bpc' = [bpc EXCEPT ![b] = "loop"]
    /\ todo' = [todo EXCEPT ![b] = clients]
    /\ sent' = sent + 1
    /\ message' = [message EXCEPT ![b] = sent']
    /\ owed' = [c \in Conns |-> owed[c] \cup (IF c \in clients THEN {sent'} ELSE {})]
    /\ UNCHANGED <<clients, conns, target, run, ending, server>>

Fan(b, from, to) ==
    /\ bpc[b] = from
    /\ bpc' = [bpc EXCEPT ![b] = to]
    /\ UNCHANGED <<peer, handler, sent, run, ending, server>>

\* The next connection of the snapshot, in the order of a Go map: any.
Take(b) ==
    /\ Fan(b, "loop", "lock")
    /\ \E c \in todo[b] :
        /\ target' = [target EXCEPT ![b] = c]
        /\ todo' = [todo EXCEPT ![b] = @ \ {c}]
    /\ UNCHANGED <<clients, open, writer, message, owed>>

WriteLock(b) ==
    /\ Fan(b, "lock", "write")
    /\ writer[target[b]] = None
    /\ writer' = [writer EXCEPT ![target[b]] = b]
    /\ UNCHANGED <<clients, open, todo, target, message, owed>>

WriteSucceeds(b) ==
    /\ Fan(b, "write", "loop")
    /\ MaySucceed(target[b])
    /\ owed' = [owed EXCEPT ![target[b]] = @ \ {message[b]}]
    /\ writer' = [writer EXCEPT ![target[b]] = None]
    /\ UNCHANGED <<clients, open, todo, target, message>>

\* Faulty variant: the error is only logged.
WriteFailsLogged(b) ==
    /\ Fan(b, "write", "loop")
    /\ writer' = [writer EXCEPT ![target[b]] = None]
    /\ UNCHANGED <<clients, open, todo, target, message, owed>>

\* The write has an error, or its deadline passes.
WriteFails(b) ==
    /\ Fan(b, "write", "unregister")
    /\ writer' = [writer EXCEPT ![target[b]] = None]
    /\ UNCHANGED <<clients, open, todo, target, message, owed>>

Drop(b) ==
    /\ Fan(b, "unregister", IF target[b] \in clients THEN "close" ELSE "loop")
    /\ clients' = clients \ {target[b]}
    /\ UNCHANGED <<open, writer, todo, target, message, owed>>

CloseDropped(b) ==
    /\ Fan(b, "close", "loop")
    /\ open' = open \ {target[b]}
    /\ UNCHANGED <<clients, writer, todo, target, message, owed>>

Finish(b) ==
    /\ todo[b] = {}
    /\ Fan(b, "loop", "idle")
    /\ target' = [target EXCEPT ![b] = None]
    /\ message' = [message EXCEPT ![b] = 0]
    /\ UNCHANGED <<clients, open, writer, todo, owed>>

-----------------------------------------------------------------------------
(* The end: the server shuts down, which does not wait for upgraded          *)
(* connections, then main's deferred Stop lets Run close what it finds.      *)

Stop ==
    /\ server = "up" /\ server' = "stopped"
    /\ UNCHANGED <<clients, conns, broadcasts, run, ending>>

\* Faulty variant: the map is cleared before the connections are listed.
RunTakesAllCleared ==
    /\ server = "stopped" /\ run = "waiting"
    /\ run' = "closing"
    /\ ending' = {} /\ clients' = {}
    /\ UNCHANGED <<conns, broadcasts, server>>

RunTakesAll ==
    /\ server = "stopped" /\ run = "waiting"
    /\ run' = "closing"
    /\ ending' = clients /\ clients' = {}
    /\ UNCHANGED <<conns, broadcasts, server>>

RunCloses ==
    /\ run = "closing"
    /\ \E c \in ending : ending' = ending \ {c} /\ open' = open \ {c}
    /\ UNCHANGED <<clients, peer, handler, writer, broadcasts, run, server>>

-----------------------------------------------------------------------------
HandlerStep(c) ==
    \/ Register(c) \/ GreetLock(c) \/ GreetWrite(c)
    \/ ReadFails(c) \/ Unregister(c) \/ Close(c)

BroadcastStep(b) ==
    \/ Take(b) \/ WriteLock(b) \/ WriteSucceeds(b) \/ WriteFails(b)
    \/ Drop(b) \/ CloseDropped(b) \/ Finish(b)

RunStep == RunTakesAll \/ RunCloses

Next ==
    \/ \E c \in Conns : Connect(c) \/ HandlerStep(c) \/ PingFails(c) \/ PeerLeaves(c)
    \/ \E b \in Broadcasters : Snapshot(b) \/ BroadcastStep(b)
    \/ Stop \/ RunStep

Spec == Init /\ [][Next]_vars

\* Goroutines make progress and every read and write ends by its deadline; with
\* a bounded number of broadcasts a lock is not contended for ever.  Nothing
\* obliges a client to connect, a peer to leave or a broadcast to start.
Fairness ==
    /\ \A c \in Conns : WF_vars(HandlerStep(c))
    /\ \A b \in Broadcasters : WF_vars(BroadcastStep(b))
    /\ WF_vars(RunStep)

FairSpec == Spec /\ Fairness

-----------------------------------------------------------------------------
(* Properties. *)

Running == {message[b] : b \in {x \in Broadcasters : bpc[x] # "idle"}}

\* Broadcast drops the connection it cannot write to, so a client that is still
\* in the map has missed no finished broadcast whose snapshot held it, however
\* broadcasts, registrations and the hub's end interleave.
Delivered ==
    \A c \in clients : owed[c] \subseteq Running

\* "closes every remaining connection" (Run): once Run has returned, an open
\* connection was registered after the map was cleared, or is about to be, or
\* one of the two callers of Unregister that took it from the map is on its
\* way to close it.  The first exception is real: Shutdown does not wait for a
\* handler that has upgraded its connection and not yet registered it.
StopCloses ==
    (run = "closing" /\ ending = {}) =>
        \A c \in open :
            \/ c \in clients
            \/ handler[c] \in {"upgraded", "close"}
            \/ \E b \in Broadcasters : bpc[b] = "close" /\ target[b] = c

\* Slow or dead clients do not hold a broadcast: every broadcast that took its
\* snapshot comes to its end, whatever happens to the connections meanwhile.
BroadcastEnds ==
    \A b \in Broadcasters : bpc[b] # "idle" ~> bpc[b] = "idle"

\* The half-open guard of handleWebSocket: a connection whose peer has gone,
\* with or without a word, or that anyone has closed, ends up closed, out of
\* the map, and its handler's goroutine ended.
Reclaimed ==
    \A c \in Conns :
        (handler[c] # "none" /\ (c \notin open \/ peer[c] # "alive"))
            ~> (handler[c] = "done" /\ c \notin open \cup clients)

-----------------------------------------------------------------------------
(* The inductive invariant behind Delivered and StopCloses. *)

HandlerPoints == {"none", "upgraded", "greet", "greeting", "reading", "unregister",
                  "close", "done"}

BroadcastPoints == {"idle", "loop", "lock", "write", "unregister", "close"}

\* Every variable stays in its type.
TypeOK ==
    /\ clients \subseteq Conns /\ open \subseteq Conns /\ ending \subseteq Conns
    /\ peer \in [Conns -> {"alive", "gone", "closed"}]
    /\ handler \in [Conns -> HandlerPoints]
    /\ writer \in [Conns -> Conns \cup Broadcasters \cup {None}]
    /\ bpc \in [Broadcasters -> BroadcastPoints]
    /\ todo \in [Broadcasters -> SUBSET Conns]
    /\ target \in [Broadcasters -> Conns \cup {None}]
    /\ message \in [Broadcasters -> Nat]
    /\ owed \in [Conns -> SUBSET Nat] /\ sent \in Nat
    /\ run \in {"waiting", "closing"} /\ server \in {"up", "stopped"}

\* Inside the loop over its snapshot, a broadcaster has a connection.
Aimed == \A b \in Broadcasters : bpc[b] \notin {"idle", "loop"} => target[b] \in Conns

\* A connection is in the map only between its one registration and the end
\* of its handler, and it was owed nothing before.
OnceRegistered ==
    \A c \in Conns :
        /\ c \in clients => handler[c] \in {"greet", "greeting", "reading", "unregister"}
        /\ handler[c] \in {"none", "upgraded"} => owed[c] = {}

\* Broadcaster b will still write to c, or is about to drop it.
Serves(b, c) ==
    /\ bpc[b] # "idle"
    /\ c \in todo[b] \/ (target[b] = c /\ bpc[b] \in {"lock", "write", "unregister"})

\* What a client in the map is owed is the message of a broadcaster that
\* has not passed it.
Pending ==
    \A c \in clients : \A m \in owed[c] :
        \E b \in Broadcasters : Serves(b, c) /\ message[b] = m

\* Somebody is in charge of closing every open connection.
InCharge(c) ==
    \/ c \in clients \/ c \in ending
    \/ handler[c] \in {"upgraded", "close"}
    \/ \E b \in Broadcasters : bpc[b] = "close" /\ target[b] = c

Owned ==
    /\ \A c \in open : InCharge(c)
    /\ run = "waiting" => ending = {}

\* The write lock of a connection names the goroutine that writes to it.
LockHeld ==
    /\ \A c \in Conns : handler[c] = "greeting" => writer[c] = c
    /\ \A b \in Broadcasters : bpc[b] = "write" => writer[target[b]] = b

IInv == TypeOK /\ Aimed /\ OnceRegistered /\ Pending /\ Owned /\ LockHeld

\* hubConn.Write serialises the writes to one connection: no two broadcasts
\* write to it at the same time, nor does one write during the greeting.
WritesExclusive ==
    \A b \in Broadcasters : bpc[b] = "write" =>
        /\ handler[target[b]] # "greeting"
        /\ \A x \in Broadcasters \ {b} : bpc[x] = "write" => target[x] # target[b]

=============================================================================
