-------------------------- MODULE ForwardLifecycle --------------------------
(***************************************************************************)
(* The life of a remote forward (tcpip-forward) for HTTP and alias         *)
(* targets: the request handler of every SSH connection, the set-up and    *)
(* the tear-down of a forward, the takeover of a target (force-connect),   *)
(* the shared registries and the closing of a connection.                  *)
(*                                                                         *)
(* sshmuxer/requests.go, sshmuxer/forward_lifecycle.go,                    *)
(* sshmuxer/httphandler.go, sshmuxer/aliashandler.go, utils/conn.go,       *)
(* utils/utils.go.                                                         *)
(*                                                                         *)
(* A holder (HTTPHolder, AliasHolder) is an object the route table points  *)
(* at; it is identified here with the forward whose set-up created it.     *)
(***************************************************************************)
EXTENDS Naturals

CONSTANTS
  Conn,                 \* SSH connections
  Fwd,                  \* forwards; a forward is one tcpip-forward request
  Target,               \* requested targets: listener type, address and port
  Name,                 \* hosts and aliases
  NoConn, NoFwd,        \* nil
  NameOf,               \* the host or alias a target asks for
  SchemeOf,             \* the scheme of a target: http or https, alias
  RandomName,           \* names getRandomHost / getRandomAlias can produce
  Banned,               \* bannedSubdomainList, bannedAliasList, wildcards
  ConnID,               \* the connection ID of each connection
  LoadBalancer,         \* --http-load-balancer, --alias-load-balancer
  ForceRequested,       \* --force-requested-subdomains, --force-requested-aliases
  BindRandom,           \* --bind-random-subdomains, --bind-random-aliases
  ForceConnectEnabled,  \* --enable-force-connect
  StrictUnique,         \* --strict-unique-ip
  Deniable,             \* connections the census or the user's rules may deny
  Faulty,               \* forwards whose payload, socket or reply may fail
  Manual                \* forwards that may be cancelled or disconnected

ASSUME NilAssumption == NoConn \notin Conn /\ NoFwd \notin Fwd
ASSUME NameAssumption ==
  /\ Target # {} /\ Name # {}
  /\ NameOf \in [Target -> Name] /\ RandomName \subseteq Name /\ Banned \subseteq Name
ASSUME FlagAssumption ==
  /\ LoadBalancer \in BOOLEAN
  /\ ForceRequested \in BOOLEAN
  /\ BindRandom \in BOOLEAN
  /\ ForceConnectEnabled \in BOOLEAN
  /\ StrictUnique \in BOOLEAN
ASSUME EnvironmentAssumption ==
  Deniable \subseteq Conn /\ Faulty \subseteq Fwd /\ Manual \subseteq Fwd

VARIABLES
  phase,          \* phase[c]: progress of SSHConnection.CleanUp
  toRun,          \* toRun[c]: callbacks RunAllForwardCleanups still has to run
  running,        \* running[c]: the callback it is running
  hpc,            \* hpc[c]: where the request handler of c is
  cur,            \* cur[c]: the forward it is working on
  victims,        \* victims[c]: connections a takeover still has to close
  evicting,       \* evicting[c]: the one it is closing
  forceConnect,   \* forceConnect[c]: the force-connect option of the session
  owner,          \* owner[f]: connection of the request, NoConn before it
  target,         \* target[f]: ListenerHolder.Type, OriginalAddr, OriginalPort
  forced,         \* forced[f]: forceConnectRequested of that request
  listeners,      \* state.Listeners (its ListenerHolders)
  connListeners,  \* sshConn.Listeners of all connections
  registered,     \* sshConn.ForwardCleanups of all connections
  watching,       \* forwards whose teardown watcher is waiting
  accepting,      \* forwards whose accept loop is running
  lisClosed,      \* forwards whose unix listener has been closed
  cleanup,        \* cleanup[f]: progress of cleanupOnce.Do(lifecycle.cleanup)
  holder,         \* holder[f]: the holder captured by onCleanup, NoFwd: no-op
  servers,        \* servers[h]: the backends in h.Balancer / h.SSHConnections
  hname,          \* hname[h]: the host of HTTPUrl, or the alias, of h
  routes,         \* state.HTTPListeners, state.AliasListeners: the entry of a name
  bindLock,       \* bindAllocationLock
  targetLock      \* the per-target force-connect lock (module TargetLock)

connVars    == <<phase, toRun, running>>
handlerVars == <<hpc, cur, victims, evicting>>
requestVars == <<forceConnect, owner, target, forced>>
tableVars   == <<listeners, connListeners, registered>>
taskVars    == <<watching, accepting, lisClosed, cleanup>>
routeVars   == <<holder, servers, hname, routes>>
lockVars    == <<bindLock, targetLock>>
vars == <<connVars, handlerVars, requestVars, tableVars, taskVars, routeVars, lockVars>>

Phase   == {"open", "running", "closed", "gone"}
Stage   == {"none", "closing", "unlisted", "cleaned"}
Control == {"idle", "await", "deny", "lock", "disconnect", "listen", "bind",
            "refuse", "register", "reply", "cleanup", "cancel", "return"}

TypeOK ==
  /\ phase \in [Conn -> Phase]
  /\ toRun \in [Conn -> SUBSET Fwd]
  /\ running \in [Conn -> Fwd \cup {NoFwd}]
  /\ hpc \in [Conn -> Control]
  /\ cur \in [Conn -> Fwd \cup {NoFwd}]
  /\ victims \in [Conn -> SUBSET Conn]
  /\ evicting \in [Conn -> Conn \cup {NoConn}]
  /\ forceConnect \in [Conn -> BOOLEAN]
  /\ owner \in [Fwd -> Conn \cup {NoConn}]
  /\ target \in [Fwd -> Target]
  /\ forced \in [Fwd -> BOOLEAN]
  /\ listeners \in SUBSET Fwd
  /\ connListeners \in SUBSET Fwd
  /\ registered \in SUBSET Fwd
  /\ watching \in SUBSET Fwd
  /\ accepting \in SUBSET Fwd
  /\ lisClosed \in SUBSET Fwd
  /\ cleanup \in [Fwd -> Stage]
  /\ holder \in [Fwd -> Fwd \cup {NoFwd}]
  /\ servers \in [Fwd -> SUBSET Fwd]
  /\ hname \in [Fwd -> Name]
  /\ routes \in [Name -> Fwd \cup {NoFwd}]
  /\ bindLock \in Conn \cup {NoConn}
  /\ targetLock \in [Target -> Conn \cup {NoConn}]

(* Every connection is authenticated and in state.SSHConnections; nothing  *)
(* has been requested. target and hname are read only once assigned.       *)
Init ==
  /\ phase = [c \in Conn |-> "open"]
  /\ toRun = [c \in Conn |-> {}]
  /\ running = [c \in Conn |-> NoFwd]
  /\ hpc = [c \in Conn |-> "idle"]
  /\ cur = [c \in Conn |-> NoFwd]
  /\ victims = [c \in Conn |-> {}]
  /\ evicting = [c \in Conn |-> NoConn]
  /\ forceConnect = [c \in Conn |-> FALSE]
  /\ owner = [f \in Fwd |-> NoConn]
  /\ target = [f \in Fwd |-> CHOOSE t \in Target : TRUE]
  /\ forced = [f \in Fwd |-> FALSE]
  /\ listeners = {} /\ connListeners = {} /\ registered = {}
  /\ watching = {} /\ accepting = {} /\ lisClosed = {}
  /\ cleanup = [f \in Fwd |-> "none"]
  /\ holder = [f \in Fwd |-> NoFwd]
  /\ servers = [h \in Fwd |-> {}]
  /\ hname = [h \in Fwd |-> CHOOSE n \in Name : TRUE]
  /\ routes = [n \in Name |-> NoFwd]
  /\ bindLock = NoConn
  /\ targetLock = [t \in Target |-> NoConn]

-----------------------------------------------------------------------------
(* Helpers.                                                                *)

(* The Close channel of the connection has been closed.                    *)
Closed(c) == phase[c] \in {"closed", "gone"}

(* The handler of c moves from one point to another.                       *)
Go(c, from, to) == hpc[c] = from /\ hpc' = [hpc EXCEPT ![c] = to]

(* cleanupOnce.Do: the first caller starts the cleanup, the others only    *)
(* wait for it. It closes the done channel and the unix listener, which    *)
(* ends the watcher and the accept loop: their own calls of Do have no     *)
(* effect any more.                                                        *)
OnceDo(f) ==
  /\ cleanup' = [cleanup EXCEPT ![f] = IF @ = "none" THEN "closing" ELSE @]
  /\ lisClosed' = lisClosed \cup {f}
  /\ watching' = watching \ {f}
  /\ accepting' = accepting \ {f}

(* The first caller of CleanUp runs it: RunAllForwardCleanups collects the *)
(* callbacks registered at that moment.                                    *)
BeginCleanUp(d) ==
  /\ phase[d] = "open"
  /\ phase' = [phase EXCEPT ![d] = "running"]
  /\ toRun' = [toRun EXCEPT ![d] = {f \in registered : owner[f] = d}]
  /\ UNCHANGED running

(* Mutant: every holder counts as stale.                                   *)
StaleAlways(h) == TRUE

(* isHTTPHolderStale, isAliasHolderStale: no backend has a listener.       *)
Stale(h) == servers[h] \cap listeners = {}

InUse(n) == routes[n] # NoFwd /\ ~Stale(routes[n])

(* The key of a holder in the route table: HTTPUrl.String() has the scheme *)
(* of the forward that created the holder, though GetOpenHost compares     *)
(* hosts only; so a name has at most one entry.                            *)
Key(h) == <<SchemeOf[target[h]], hname[h]>>

(* forceRequestedSubdomain / forceRequestedAlias: no fallback.             *)
Forcing(c) == ForceRequested \/ forceConnect[c]

(* httpLoadBalancer / aliasLoadBalancer.                                   *)
Balancing(c) == LoadBalancer /\ ~forceConnect[c]

(* The first name GetOpenHost / GetOpenAlias looks at is not the requested *)
(* one, and the request is reported unavailable.                           *)
Renamed(c) ==
  \/ BindRandom /\ ~forceConnect[c]
  \/ NameOf[target[cur[c]]] \in Banned

FirstNames(c) == IF Renamed(c) THEN RandomName ELSE {NameOf[target[cur[c]]]}

(* strict-unique-ip: another live connection with this ID has a listener.  *)
DuplicateID(c) ==
  /\ StrictUnique
  /\ \E f \in connListeners : /\ owner[f] # c
                              /\ phase[owner[f]] # "gone"
                              /\ ConnID[owner[f]] = ConnID[c]

(* Mutant: a takeover finds nobody to disconnect.                          *)
NoTargetConns(c) == {}

(* Mutant: the listeners are collected, not the connections they belong to.*)
TargetListeners(c) == {f \in listeners : target[f] = target[cur[c]]}

(* Connections other than c with a listener for the target c wants:        *)
(* forceDisconnectTargetConnections; targetInUse is this set not empty.    *)
TargetConns(c) ==
  {d \in Conn \ {c} :
     \E f \in listeners : owner[f] = d /\ target[f] = target[cur[c]]}

-----------------------------------------------------------------------------
(* The request handler of a connection: handleRequests runs one request    *)
(* after the other.                                                        *)

(* handleRemoteForward is called for a new tcpip-forward request.          *)
Request(c, f, t) ==
  /\ Go(c, "idle", "await")
  /\ owner[f] = NoConn
  /\ cur' = [cur EXCEPT ![c] = f]
  /\ owner' = [owner EXCEPT ![f] = c]
  /\ target' = [target EXCEPT ![f] = t]
  /\ UNCHANGED <<connVars, victims, evicting, forceConnect, forced,
                 tableVars, taskVars, routeVars, lockVars>>

(* The wait for Exec, Close or the deadline is over and Close is closed.   *)
RefuseClosed(c) ==
  /\ Go(c, "await", "return")
  /\ Closed(c)
  /\ UNCHANGED <<connVars, cur, victims, evicting, requestVars, tableVars,
                 taskVars, routeVars, lockVars>>

(* The payload of the request cannot be unmarshaled.                       *)
RefuseMalformed(c) ==
  /\ Go(c, "await", "return")
  /\ ~Closed(c)
  /\ cur[c] \in Faulty
  /\ UNCHANGED <<connVars, cur, victims, evicting, requestVars, tableVars,
                 taskVars, routeVars, lockVars>>

(* Strict census, duplicate connection ID or a forbidden forward: after    *)
(* the reply the handler closes its own connection.                        *)
Deny(c) ==
  /\ Go(c, "await", "deny")
  /\ ~Closed(c)
  /\ c \in Deniable \/ DuplicateID(c)
  /\ UNCHANGED <<connVars, cur, victims, evicting, requestVars, tableVars,
                 taskVars, routeVars, lockVars>>

DenyCleanUp(c) ==
  /\ hpc[c] = "deny"
  /\ BeginCleanUp(c)
  /\ UNCHANGED <<handlerVars, requestVars, tableVars, taskVars, routeVars, lockVars>>

DenyDone(c) ==
  /\ Go(c, "deny", "return")
  /\ phase[c] = "gone"
  /\ UNCHANGED <<connVars, cur, victims, evicting, requestVars, tableVars,
                 taskVars, routeVars, lockVars>>

(* The checks pass; forceConnectRequested is read here, once.              *)
Admit(c) ==
  /\ Go(c, "await", IF forceConnect[c] THEN "lock" ELSE "listen")
  /\ ~Closed(c)
  /\ ~DuplicateID(c)
  /\ forced' = [forced EXCEPT ![cur[c]] = forceConnect[c]]
  /\ UNCHANGED <<connVars, cur, victims, evicting, forceConnect, owner, target,
                 tableVars, taskVars, routeVars, lockVars>>

(* acquireForceConnectTargetLock, then the connections to disconnect are   *)
(* collected from state.Listeners.                                         *)
AcquireTarget(c) ==
  LET t == target[cur[c]] IN
  /\ Go(c, "lock", "disconnect")
  /\ targetLock[t] = NoConn
  /\ targetLock' = [targetLock EXCEPT ![t] = c]
  /\ victims' = [victims EXCEPT ![c] = TargetConns(c)]
  /\ UNCHANGED <<connVars, cur, evicting, requestVars, tableVars, taskVars,
                 routeVars, bindLock>>

(* conn.CleanUp(state) on the next of them; whoever was first runs it.     *)
Evict(c, d) ==
  /\ hpc[c] = "disconnect"
  /\ evicting[c] = NoConn
  /\ d \in victims[c]
  /\ victims' = [victims EXCEPT ![c] = @ \ {d}]
  /\ evicting' = [evicting EXCEPT ![c] = d]
  /\ IF phase[d] = "open" THEN BeginCleanUp(d) ELSE UNCHANGED connVars
  /\ UNCHANGED <<hpc, cur, requestVars, tableVars, taskVars, routeVars, lockVars>>

Evicted(c) ==
  /\ hpc[c] = "disconnect"
  /\ evicting[c] # NoConn
  /\ phase[evicting[c]] = "gone"
  /\ evicting' = [evicting EXCEPT ![c] = NoConn]
  /\ UNCHANGED <<connVars, hpc, cur, victims, requestVars, tableVars, taskVars,
                 routeVars, lockVars>>

(* waitForTargetRelease returns: the target is free.                       *)
TargetReleased(c) ==
  /\ Go(c, "disconnect", "listen")
  /\ victims[c] = {} /\ evicting[c] = NoConn
  /\ TargetConns(c) = {}
  /\ UNCHANGED <<connVars, cur, victims, evicting, requestVars, tableVars,
                 taskVars, routeVars, lockVars>>

(* ... or its two seconds have passed and the handler goes on regardless.  *)
TargetReleaseTimeout(c) ==
  /\ Go(c, "disconnect", "listen")
  /\ victims[c] = {} /\ evicting[c] = NoConn
  /\ TargetConns(c) # {}
  /\ UNCHANGED <<connVars, cur, victims, evicting, requestVars, tableVars,
                 taskVars, routeVars, lockVars>>

(* Mutant: the watcher is started before the route is allocated.           *)
ListenWatched(c) ==
  LET f == cur[c] IN
  /\ Go(c, "listen", "bind")
  /\ listeners' = listeners \cup {f}
  /\ connListeners' = connListeners \cup {f}
  /\ watching' = watching \cup {f}
  /\ UNCHANGED <<connVars, cur, victims, evicting, requestVars, registered,
                 accepting, lisClosed, cleanup, routeVars, lockVars>>

(* The unix socket is up and entered in both listener tables.              *)
Listen(c) ==
  LET f == cur[c] IN
  /\ Go(c, "listen", "bind")
  /\ listeners' = listeners \cup {f}
  /\ connListeners' = connListeners \cup {f}
  /\ UNCHANGED <<connVars, cur, victims, evicting, requestVars, registered,
                 taskVars, routeVars, lockVars>>

ListenFails(c) ==
  /\ Go(c, "listen", "return")
  /\ cur[c] \in Faulty
  /\ UNCHANGED <<connVars, cur, victims, evicting, requestVars, tableVars,
                 taskVars, routeVars, lockVars>>

(* The backend f is added to the holder h.                                 *)
AddBackend(f, h) ==
  /\ holder' = [holder EXCEPT ![f] = h]
  /\ servers' = [servers EXCEPT ![h] = @ \cup {f}]

(* GetOpenHost / GetOpenAlias finds a name that is free or whose holder is *)
(* stale (and purged); a new holder is stored for it. This and the next    *)
(* two actions hold bindAllocationLock from beginning to end, except that  *)
(* the refusal still holds it when it replies to the client.               *)
BindNew(c, n) ==
  LET f == cur[c] IN
  /\ Go(c, "bind", "register")
  /\ bindLock = NoConn
  /\ \/ n \in FirstNames(c) /\ ~(Renamed(c) /\ Forcing(c))
     \/ /\ n \in RandomName /\ ~Forcing(c) /\ ~Balancing(c)
        /\ \E m \in FirstNames(c) : InUse(m)
  /\ ~InUse(n)
  /\ AddBackend(f, f)
  /\ hname' = [hname EXCEPT ![f] = n]
  /\ routes' = [routes EXCEPT ![n] = f]
  /\ UNCHANGED <<connVars, cur, victims, evicting, requestVars, tableVars,
                 taskVars, lockVars>>

(* The name is in use and shared with the load balancer.                   *)
BindJoin(c, n) ==
  /\ Go(c, "bind", "register")
  /\ bindLock = NoConn
  /\ n \in FirstNames(c) /\ ~(Renamed(c) /\ Forcing(c))
  /\ InUse(n) /\ Balancing(c)
  /\ AddBackend(cur[c], routes[n])
  /\ UNCHANGED <<connVars, cur, victims, evicting, requestVars, tableVars,
                 taskVars, hname, routes, lockVars>>

(* bindErr: only the requested name would do and it is not to be had.      *)
BindRefused(c) ==
  /\ Go(c, "bind", "refuse")
  /\ bindLock = NoConn
  /\ Forcing(c)
  /\ Renamed(c) \/ (InUse(NameOf[target[cur[c]]]) /\ ~Balancing(c))
  /\ bindLock' = c
  /\ UNCHANGED <<connVars, cur, victims, evicting, requestVars, tableVars,
                 taskVars, routeVars, targetLock>>

(* Mutant: the cleanup of a refused forward is awaited under the lock.     *)
ReplyFalseLocked(c) ==
  /\ Go(c, "refuse", "cleanup")
  /\ UNCHANGED <<connVars, cur, victims, evicting, requestVars, tableVars,
                 taskVars, routeVars, lockVars>>

(* Reply(false), releaseBind(), then cleanupOnce.Do(lifecycle.cleanup).    *)
ReplyFalse(c) ==
  /\ Go(c, "refuse", "cleanup")
  /\ bindLock' = NoConn
  /\ UNCHANGED <<connVars, cur, victims, evicting, requestVars, tableVars,
                 taskVars, routeVars, targetLock>>

(* Mutant: no watcher is started.                                          *)
RegisterUnwatched(c) ==
  /\ Go(c, "register", "reply")
  /\ registered' = registered \cup {cur[c]}
  /\ UNCHANGED <<connVars, cur, victims, evicting, requestVars, listeners,
                 connListeners, taskVars, routeVars, lockVars>>

(* lifecycle.register() and the start of the teardown watcher.             *)
Register(c) ==
  /\ Go(c, "register", "reply")
  /\ registered' = registered \cup {cur[c]}
  /\ watching' = watching \cup {cur[c]}
  /\ UNCHANGED <<connVars, cur, victims, evicting, requestVars, listeners,
                 connListeners, accepting, lisClosed, cleanup, routeVars, lockVars>>

(* Reply(true) succeeds and the accept loop is started.                    *)
ReplyTrue(c) ==
  /\ Go(c, "reply", "return")
  /\ accepting' = accepting \cup {cur[c]}
  /\ UNCHANGED <<connVars, cur, victims, evicting, requestVars, tableVars,
                 watching, lisClosed, cleanup, routeVars, lockVars>>

(* Reply(true) fails: the transport is gone.                               *)
ReplyFails(c) ==
  /\ Go(c, "reply", "cleanup")
  /\ cur[c] \in Faulty
  /\ UNCHANGED <<connVars, cur, victims, evicting, requestVars, tableVars,
                 taskVars, routeVars, lockVars>>

(* The handler calls the cleanup of its forward: cleanupOnce.Do after a    *)
(* refusal (requests.go:457, 501, 538) or a failed reply (618) ...         *)
HandlerCleanup(c) ==
  /\ hpc[c] = "cleanup"
  /\ cleanup[cur[c]] = "none"
  /\ OnceDo(cur[c])
  /\ UNCHANGED <<connVars, handlerVars, requestVars, tableVars, routeVars, lockVars>>

(* ... and comes back when it has been run, by whomever.                   *)
HandlerCleaned(c) ==
  /\ Go(c, "cleanup", "return")
  /\ cleanup[cur[c]] = "cleaned"
  /\ UNCHANGED <<connVars, cur, victims, evicting, requestVars, tableVars,
                 taskVars, routeVars, lockVars>>

(* Mutant: the target lock is not released.                                *)
ReturnLocked(c) ==
  /\ Go(c, "return", "idle")
  /\ cur' = [cur EXCEPT ![c] = NoFwd]
  /\ UNCHANGED <<connVars, victims, evicting, requestVars, tableVars, taskVars,
                 routeVars, lockVars>>

(* The function returns: deferred release of the target lock.              *)
Return(c) ==
  /\ Go(c, "return", "idle")
  /\ cur' = [cur EXCEPT ![c] = NoFwd]
  /\ targetLock' = [t \in Target |-> IF targetLock[t] = c THEN NoConn ELSE targetLock[t]]
  /\ UNCHANGED <<connVars, victims, evicting, requestVars, tableVars, taskVars,
                 routeVars, bindLock>>

(* handleCancelRemoteForward finds a listener of this connection ...       *)
Cancel(c, f) ==
  /\ Go(c, "idle", "cancel")
  /\ f \in connListeners \cap Manual /\ owner[f] = c
  /\ cur' = [cur EXCEPT ![c] = f]
  /\ UNCHANGED <<connVars, victims, evicting, requestVars, tableVars, taskVars,
                 routeVars, lockVars>>

(* ... and runs its registered cleanup, or closes the listener if that has *)
(* been unregistered in between.                                           *)
CancelRun(c) ==
  LET f == cur[c] IN
  /\ IF f \in registered
     THEN Go(c, "cancel", "cleanup") /\ OnceDo(f)
     ELSE /\ Go(c, "cancel", "return")
          /\ lisClosed' = lisClosed \cup {f}
          /\ UNCHANGED <<watching, accepting, cleanup>>
  /\ UNCHANGED <<connVars, cur, victims, evicting, requestVars, tableVars,
                 routeVars, lockVars>>

(* The session goroutine parses force-connect=true, at any time.           *)
SetForceConnect(c) ==
  /\ ForceConnectEnabled
  /\ forceConnect' = [forceConnect EXCEPT ![c] = TRUE]
  /\ UNCHANGED <<connVars, handlerVars, owner, target, forced, tableVars,
                 taskVars, routeVars, lockVars>>

-----------------------------------------------------------------------------
(* The cleanup of a forward, run by whoever called cleanupOnce.Do first.   *)

(* The forward leaves state.Listeners and the tables of its connection.    *)
Unlist(f) ==
  /\ cleanup[f] = "closing"
  /\ cleanup' = [cleanup EXCEPT ![f] = "unlisted"]
  /\ listeners' = listeners \ {f}
  /\ connListeners' = connListeners \ {f}
  /\ registered' = registered \ {f}
  /\ UNCHANGED <<connVars, handlerVars, requestVars, watching, accepting,
                 lisClosed, routeVars, lockVars>>

(* Mutant: the route of an emptied holder stays.                           *)
RemoveBackendOnly(f, h) ==
  /\ servers' = [servers EXCEPT ![h] = @ \ {f}]
  /\ UNCHANGED routes

(* Mutant: the route goes with the first backend that leaves.              *)
RemoveBackendAndRoute(f, h) ==
  /\ servers' = [servers EXCEPT ![h] = @ \ {f}]
  /\ routes' = [routes EXCEPT ![hname[h]] = NoFwd]

(* RemoveServer; if no server is left the route table entry WITH THAT KEY  *)
(* is deleted, whatever holder it belongs to by now.                       *)
RemoveBackend(f, h) ==
  /\ servers' = [servers EXCEPT ![h] = @ \ {f}]
  /\ routes' = [n \in Name |->
                  IF servers'[h] = {} /\ routes[n] # NoFwd /\ Key(routes[n]) = Key(h)
                  THEN NoFwd ELSE routes[n]]

(* onCleanup takes bindAllocationLock; it is a no-op for a forward that    *)
(* was refused.                                                            *)
OnCleanup(f) ==
  /\ cleanup[f] = "unlisted"
  /\ cleanup' = [cleanup EXCEPT ![f] = "cleaned"]
  /\ \/ holder[f] = NoFwd /\ UNCHANGED <<servers, routes>>
     \/ holder[f] # NoFwd /\ bindLock = NoConn /\ RemoveBackend(f, holder[f])
  /\ UNCHANGED <<connVars, handlerVars, requestVars, tableVars, watching,
                 accepting, lisClosed, holder, hname, lockVars>>

(* The watcher goroutine sees the connection closed.                       *)
WatcherFires(f) ==
  /\ f \in watching /\ Closed(owner[f])
  /\ OnceDo(f)
  /\ UNCHANGED <<connVars, handlerVars, requestVars, tableVars, routeVars, lockVars>>

(* Mutant: the accept loop ends without the deferred cleanup.              *)
AcceptLoopExitOnly(f) ==
  /\ f \in accepting /\ f \in lisClosed
  /\ accepting' = accepting \ {f}
  /\ UNCHANGED <<connVars, handlerVars, requestVars, tableVars, watching,
                 lisClosed, cleanup, routeVars, lockVars>>

(* The accept loop finds its listener closed; deferred cleanup.            *)
AcceptLoopExit(f) ==
  /\ f \in accepting /\ f \in lisClosed
  /\ OnceDo(f)
  /\ UNCHANGED <<connVars, handlerVars, requestVars, tableVars, routeVars, lockVars>>

(* An administrator disconnects the route: the listener is closed.         *)
HandleDisconnectRoute(f) ==
  /\ f \in (listeners \cap Manual) \ lisClosed
  /\ lisClosed' = lisClosed \cup {f}
  /\ UNCHANGED <<connVars, handlerVars, requestVars, tableVars, watching,
                 accepting, cleanup, routeVars, lockVars>>

-----------------------------------------------------------------------------
(* SSHConnection.CleanUp.                                                  *)

(* Called because the client went away, a deadline passed, an              *)
(* administrator or the census enforcer disconnected the client.           *)
CleanUp(c) ==
  /\ BeginCleanUp(c)
  /\ UNCHANGED <<handlerVars, requestVars, tableVars, taskVars, routeVars, lockVars>>

(* RunAllForwardCleanups calls the next callback ...                       *)
RunCleanup(c, f) ==
  /\ running[c] = NoFwd
  /\ f \in toRun[c]
  /\ running' = [running EXCEPT ![c] = f]
  /\ OnceDo(f)
  /\ UNCHANGED <<phase, toRun, handlerVars, requestVars, tableVars, routeVars, lockVars>>

(* ... which returns once that cleanup is complete.                        *)
RanCleanup(c) ==
  /\ running[c] # NoFwd
  /\ cleanup[running[c]] = "cleaned"
  /\ toRun' = [toRun EXCEPT ![c] = @ \ {running[c]}]
  /\ running' = [running EXCEPT ![c] = NoFwd]
  /\ registered' = registered \ {running[c]}
  /\ UNCHANGED <<phase, handlerVars, requestVars, listeners, connListeners,
                 taskVars, routeVars, lockVars>>

(* close(s.Close).                                                         *)
CloseChannel(c) ==
  /\ phase[c] = "running" /\ toRun[c] = {}
  /\ phase' = [phase EXCEPT ![c] = "closed"]
  /\ UNCHANGED <<toRun, running, handlerVars, requestVars, tableVars, taskVars,
                 routeVars, lockVars>>

(* SSHConn.Close and removal from state.SSHConnections.                    *)
CloseConn(c) ==
  /\ phase[c] = "closed"
  /\ phase' = [phase EXCEPT ![c] = "gone"]
  /\ UNCHANGED <<toRun, running, handlerVars, requestVars, tableVars, taskVars,
                 routeVars, lockVars>>

-----------------------------------------------------------------------------
(* Steps of the request handler once it has a request.                     *)
HandlerStep(c) ==
  \/ RefuseClosed(c) \/ RefuseMalformed(c)
  \/ Deny(c) \/ DenyCleanUp(c) \/ DenyDone(c) \/ Admit(c)
  \/ AcquireTarget(c) \/ (\E d \in Conn : Evict(c, d)) \/ Evicted(c)
  \/ TargetReleased(c) \/ TargetReleaseTimeout(c)
  \/ Listen(c) \/ ListenFails(c)
  \/ (\E n \in Name : BindNew(c, n) \/ BindJoin(c, n)) \/ BindRefused(c)
  \/ ReplyFalse(c) \/ Register(c) \/ ReplyTrue(c) \/ ReplyFails(c)
  \/ HandlerCleanup(c) \/ HandlerCleaned(c) \/ Return(c) \/ CancelRun(c)

(* Steps of a CleanUp under way.                                           *)
CleanUpStep(c) ==
  \/ (\E f \in Fwd : RunCleanup(c, f)) \/ RanCleanup(c)
  \/ CloseChannel(c) \/ CloseConn(c)

CleanupStep(f) == Unlist(f) \/ OnCleanup(f)

(* What clients, administrators and timers do.                             *)
Environment ==
  \/ \E c \in Conn, f \in Fwd : (\E t \in Target : Request(c, f, t)) \/ Cancel(c, f)
  \/ \E c \in Conn : CleanUp(c) \/ SetForceConnect(c)
  \/ \E f \in Fwd : HandleDisconnectRoute(f)

(* What the goroutines of the server do.                                   *)
ServerStep ==
  \/ \E c \in Conn : HandlerStep(c) \/ CleanUpStep(c)
  \/ \E f \in Fwd : CleanupStep(f) \/ WatcherFires(f) \/ AcceptLoopExit(f)

Next == ServerStep \/ Environment

(* As long as some goroutine can run, one is run: waits have timers, and a *)
(* write to a client that does not read fails at the ping deadline. The    *)
(* environment owes nothing.                                               *)
Fairness == WF_vars(ServerStep)

Spec == Init /\ [][Next]_vars

FairSpec == Spec /\ Fairness

-----------------------------------------------------------------------------
(* Properties.                                                             *)

(* A cleaned-up forward is nowhere any more: not in state.Listeners, not   *)
(* in its connection's tables, and no balancer still sends traffic to its  *)
(* socket. Whoever cleaned it up, and however far its set-up had come.     *)
CleanedLeavesNothing ==
  \A f \in Fwd : cleanup[f] = "cleaned" =>
    /\ f \notin listeners \cup connListeners \cup registered
    /\ \A h \in Fwd : f \notin servers[h]

(* The route table never points at a holder without backends, nor at one   *)
(* that was created for another name: teardown deletes the entry in the    *)
(* same critical section that removes the last backend.                    *)
RoutesHaveBackends ==
  \A n \in Name : routes[n] # NoFwd =>
    hname[routes[n]] = n /\ servers[routes[n]] # {}

(* A forward that serves: accepted by its client and not being torn down.  *)
Serving(f) == f \in accepting /\ f \notin lisClosed /\ cleanup[f] = "none"

(* The route of a forward leads to its holder.                             *)
Routed(f) == routes[hname[holder[f]]] = holder[f]

(* LockBindAllocation's comment: with the lock no listener stays in        *)
(* state.Listeners "with no route pointing at it".                         *)
ServingIsRouted == \A f \in Fwd : Serving(f) => Routed(f)

(* The one way a serving forward loses its route: an earlier forward, for  *)
(* the same key, whose holder was purged as stale, has run its onCleanup   *)
(* after this one was bound.                                               *)
UnroutedOnlyByLateTeardown ==
  \A f \in Fwd : Serving(f) /\ ~Routed(f) =>
    \E g \in Fwd : /\ cleanup[g] = "cleaned"
                   /\ holder[g] \notin {NoFwd, holder[f]}
                   /\ Key(holder[g]) = Key(holder[f])

(* Takeovers exclude each other: two connections none of which is being    *)
(* closed never both have a listener that was set up by force-connect for  *)
(* one target, although the second handler may stop waiting for the first  *)
(* to leave.                                                               *)
TakeoverExclusive ==
  \A f, g \in listeners :
    /\ forced[f] /\ forced[g] /\ target[f] = target[g]
    /\ phase[owner[f]] = "open" /\ phase[owner[g]] = "open"
    => owner[f] = owner[g]

(* --strict-unique-ip: an ID is not in use by two active connections.      *)
UniqueID ==
  \A f, g \in Fwd : Serving(f) /\ Serving(g) /\ ConnID[owner[f]] = ConnID[owner[g]]
    => owner[f] = owner[g]

(* Every request is answered and its handler returns, so that no request,  *)
(* no takeover and no cleanup waits for another one for ever.              *)
HandlerReturns == \A c \in Conn : hpc[c] # "idle" ~> hpc[c] = "idle"

(* What belongs to c: table entries, goroutines and backends.              *)
Residue(c) ==
  {f \in listeners \cup connListeners \cup registered \cup watching \cup accepting
         \cup UNION {servers[h] : h \in Fwd} : owner[f] = c}

(* A connection whose CleanUp has begun is gone in the end, and from then  *)
(* on nothing of it is left, requests it was still setting up included.    *)
ClosedLeavesNothing ==
  \A c \in Conn : phase[c] = "running" ~> [](phase[c] = "gone" /\ Residue(c) = {})

(* A route disconnected by an administrator is cleaned up.                 *)
DisconnectedIsCleaned == \A f \in Fwd : f \in lisClosed ~> cleanup[f] = "cleaned"
=============================================================================
