----------------------- MODULE ForwardLifecycleProofs -----------------------
(***************************************************************************)
(* For any number of connections, forwards, targets and names, and any     *)
(* setting of the flags: types, the safety of teardown and of the route    *)
(* table, the only way a serving forward can lose its route, and that      *)
(* force-connect takeovers of one target exclude each other.               *)
(***************************************************************************)
EXTENDS ForwardLifecycle, TLAPS

USE NilAssumption, NameAssumption DEF Phase, Stage, Control

(* A handler that is not idle works on a forward of its own connection.    *)
Working == \A c \in Conn : hpc[c] # "idle" => cur[c] \in Fwd /\ owner[cur[c]] = c

TInv == TypeOK /\ Working

-----------------------------------------------------------------------------
(* Types.                                                                  *)

(* The initial state is well typed and every handler idle.                 *)
LEMMA InitTInv == Init => TInv
<1> SUFFICES ASSUME Init PROVE TInv
  OBVIOUS
<1>1. (CHOOSE t \in Target : TRUE) \in Target /\ (CHOOSE n \in Name : TRUE) \in Name
  OBVIOUS
<1> QED
  BY <1>1 DEF Init, TInv, TypeOK, Working

(* The steps of a request handler keep the types.                          *)
LEMMA HandlerTInv ==
  ASSUME TInv, NEW c \in Conn, HandlerStep(c)
  PROVE  TInv'
<1> USE DEF TInv, TypeOK, Working, Go, connVars, handlerVars, requestVars,
            tableVars, taskVars, routeVars, lockVars
<1>1. CASE RefuseClosed(c) \/ RefuseMalformed(c)
  BY <1>1 DEF RefuseClosed, RefuseMalformed
<1>2. CASE Deny(c)
  BY <1>2 DEF Deny
<1>3. CASE DenyCleanUp(c)
  BY <1>3 DEF DenyCleanUp, BeginCleanUp
<1>4. CASE DenyDone(c)
  BY <1>4 DEF DenyDone
<1>5. CASE Admit(c)
  BY <1>5 DEF Admit
<1>6. CASE AcquireTarget(c)
  BY <1>6 DEF AcquireTarget, TargetConns
<1>7. ASSUME NEW d \in Conn, Evict(c, d) PROVE TInv'
  BY <1>7 DEF Evict, BeginCleanUp
<1>8. CASE Evicted(c)
  BY <1>8 DEF Evicted
<1>9. CASE TargetReleased(c)
  BY <1>9 DEF TargetReleased
<1>10. CASE TargetReleaseTimeout(c)
  BY <1>10 DEF TargetReleaseTimeout
<1>11. CASE Listen(c)
  BY <1>11 DEF Listen
<1>12. CASE ListenFails(c)
  BY <1>12 DEF ListenFails
<1>13. ASSUME NEW n \in Name, BindNew(c, n) PROVE TInv'
  BY <1>13 DEF BindNew, AddBackend
<1>14. ASSUME NEW n \in Name, BindJoin(c, n) PROVE TInv'
  BY <1>14 DEF BindJoin, AddBackend, InUse
<1>15. CASE BindRefused(c)
  BY <1>15 DEF BindRefused
<1>16. CASE ReplyFalse(c)
  BY <1>16 DEF ReplyFalse
<1>17. CASE Register(c)
  BY <1>17 DEF Register
<1>18. CASE ReplyTrue(c)
  BY <1>18 DEF ReplyTrue
<1>19. CASE ReplyFails(c)
  BY <1>19 DEF ReplyFails
<1>20. CASE HandlerCleanup(c)
  BY <1>20 DEF HandlerCleanup, OnceDo
<1>21. CASE HandlerCleaned(c)
  BY <1>21 DEF HandlerCleaned
<1>22. CASE Return(c)
  BY <1>22 DEF Return
<1>23. CASE CancelRun(c)
  <2>1. CASE cur[c] \in registered
    BY <1>23, <2>1 DEF CancelRun, OnceDo
  <2>2. CASE cur[c] \notin registered
    BY <1>23, <2>2 DEF CancelRun
  <2> QED
    BY <2>1, <2>2
<1> HIDE DEF TInv
<1> QED
  BY <1>1, <1>2, <1>3, <1>4, <1>5, <1>6, <1>7, <1>8, <1>9, <1>10, <1>11, <1>12,
     <1>13, <1>14, <1>15, <1>16, <1>17, <1>18, <1>19, <1>20, <1>21, <1>22, <1>23
  DEF HandlerStep

(* The steps of SSHConnection.CleanUp keep the types.                      *)
LEMMA CleanUpTInv ==
  ASSUME TInv, NEW c \in Conn, CleanUpStep(c)
  PROVE  TInv'
<1> USE DEF TInv, TypeOK, Working, connVars, handlerVars, requestVars,
            tableVars, taskVars, routeVars, lockVars
<1>1. ASSUME NEW f \in Fwd, RunCleanup(c, f) PROVE TInv'
  BY <1>1 DEF RunCleanup, OnceDo
<1>2. CASE RanCleanup(c)
  BY <1>2 DEF RanCleanup
<1>3. CASE CloseChannel(c)
  BY <1>3 DEF CloseChannel
<1>4. CASE CloseConn(c)
  BY <1>4 DEF CloseConn
<1> QED
  BY <1>1, <1>2, <1>3, <1>4 DEF CleanUpStep

(* The steps of a forward's cleanup, watcher and accept loop keep the      *)
(* types.                                                                  *)
LEMMA ForwardTInv ==
  ASSUME TInv, NEW f \in Fwd, CleanupStep(f) \/ WatcherFires(f) \/ AcceptLoopExit(f)
  PROVE  TInv'
<1> USE DEF TInv, TypeOK, Working, connVars, handlerVars, requestVars,
            tableVars, taskVars, routeVars, lockVars
<1>1. CASE Unlist(f)
  BY <1>1 DEF Unlist
<1>2. CASE OnCleanup(f)
  <2>1. servers' \in [Fwd -> SUBSET Fwd] /\ routes' \in [Name -> Fwd \cup {NoFwd}]
    <3>1. CASE holder[f] = NoFwd
      BY <1>2, <3>1 DEF OnCleanup
    <3>2. CASE holder[f] # NoFwd
      <4>1. servers' = [servers EXCEPT ![holder[f]] = @ \ {f}]
        BY <1>2, <3>2 DEF OnCleanup, RemoveBackend
      <4>2. routes' \in [Name -> Fwd \cup {NoFwd}]
        BY <1>2, <3>2 DEF OnCleanup, RemoveBackend
      <4> QED
        BY <4>1, <4>2
    <3> QED
      BY <3>1, <3>2
  <2> QED
    BY <1>2, <2>1 DEF OnCleanup
<1>3. CASE WatcherFires(f)
  BY <1>3 DEF WatcherFires, OnceDo
<1>4. CASE AcceptLoopExit(f)
  BY <1>4 DEF AcceptLoopExit, OnceDo
<1> QED
  BY <1>1, <1>2, <1>3, <1>4 DEF CleanupStep

(* What clients and administrators do keeps the types.                     *)
LEMMA EnvironmentTInv ==
  ASSUME TInv, Environment
  PROVE  TInv'
<1> USE DEF TInv, TypeOK, Working, Go, connVars, handlerVars, requestVars,
            tableVars, taskVars, routeVars, lockVars
<1>1. ASSUME NEW c \in Conn, NEW f \in Fwd, NEW t \in Target, Request(c, f, t)
      PROVE  TInv'
  BY <1>1 DEF Request
<1>2. ASSUME NEW c \in Conn, NEW f \in Fwd, Cancel(c, f) PROVE TInv'
  BY <1>2 DEF Cancel
<1>3. ASSUME NEW c \in Conn, CleanUp(c) PROVE TInv'
  BY <1>3 DEF CleanUp, BeginCleanUp
<1>4. ASSUME NEW c \in Conn, SetForceConnect(c) PROVE TInv'
  BY <1>4 DEF SetForceConnect
<1>5. ASSUME NEW f \in Fwd, HandleDisconnectRoute(f) PROVE TInv'
  BY <1>5 DEF HandleDisconnectRoute
<1> QED
  BY <1>1, <1>2, <1>3, <1>4, <1>5 DEF Environment

(* Every step keeps the types.                                             *)
LEMMA NextTInv == TInv /\ [Next]_vars => TInv'
<1>1. ASSUME TInv, UNCHANGED vars PROVE TInv'
  BY <1>1 DEF vars, TInv, TypeOK, Working, connVars, handlerVars, requestVars,
              tableVars, taskVars, routeVars, lockVars
<1> QED
  BY <1>1, HandlerTInv, CleanUpTInv, ForwardTInv, EnvironmentTInv DEF Next, ServerStep

(* Types: every variable keeps its range, and a handler that is not idle   *)
(* works on a forward its own connection asked for.                        *)
THEOREM TypeCorrect == Spec => []TypeOK
<1>1. TInv => TypeOK
  BY DEF TInv
<1> QED
  BY <1>1, InitTInv, NextTInv, PTL DEF Spec

-----------------------------------------------------------------------------
(* Teardown and routes.                                                    *)

(* The handler of f has not come further than the points of P.             *)
Pending(f, P) == owner[f] = NoConn \/ \E c \in Conn : cur[c] = f /\ hpc[c] \in P

BeforeBind == {"await", "deny", "lock", "disconnect", "listen", "bind", "refuse"}
BeforeRegister == BeforeBind \cup {"register"}

(* Nobody but its handler knows of a forward that is not registered yet.   *)
Quiet ==
  \A f \in Fwd : Pending(f, BeforeRegister) =>
    /\ cleanup[f] = "none"
    /\ f \notin registered \cup watching \cup accepting
    /\ \A d \in Conn : f \notin toRun[d]

(* A forward gets its holder at bind, and keeps it; who created a holder   *)
(* is in it.                                                               *)
HolderAtBind ==
  /\ \A f \in Fwd : Pending(f, BeforeBind) => holder[f] = NoFwd
  /\ \A c \in Conn : hpc[c] \in {"register", "reply"} => holder[cur[c]] # NoFwd
  /\ \A f \in accepting : holder[f] # NoFwd

HolderRoot == \A f \in Fwd : holder[f] # NoFwd => holder[holder[f]] = holder[f]

(* A backend is in the holder its onCleanup has captured, and in no other. *)
Backends == \A f, h \in Fwd : f \in servers[h] => holder[f] = h

(* A handler that binds is listed; a forward that was unlisted stays so.   *)
Listed == \A c \in Conn : hpc[c] = "bind" => cur[c] \in listeners

Unlisted ==
  \A f \in Fwd : cleanup[f] \in {"unlisted", "cleaned"} =>
    f \notin listeners \cup connListeners \cup registered

NoBackend ==
  \A f \in Fwd : cleanup[f] = "cleaned" => \A h \in Fwd : f \notin servers[h]

(* Another holder with the same key has been torn down.                    *)
Displaced(f) ==
  \E g \in Fwd : /\ cleanup[g] = "cleaned"
                 /\ holder[g] \notin {NoFwd, holder[f]}
                 /\ Key(holder[g]) = Key(holder[f])

(* A bound forward is listed and a backend of its holder until it is torn  *)
(* down, and its name leads to that holder unless it was displaced.        *)
Standing ==
  \A f \in Fwd : holder[f] # NoFwd /\ cleanup[f] = "none" =>
    /\ f \in listeners
    /\ f \in servers[holder[f]]
    /\ Routed(f) \/ Displaced(f)

SInv ==
  /\ Quiet /\ HolderAtBind /\ HolderRoot /\ Backends /\ Listed /\ Unlisted
  /\ NoBackend /\ RoutesHaveBackends /\ Standing

(* What the invariant speaks about, the handlers' positions aside.         *)
forwardVars ==
  <<cur, owner, target, toRun, registered, watching, accepting, cleanup,
    listeners, connListeners, holder, servers, hname, routes>>

(* Before any request there is no holder, no route and no listener.        *)
LEMMA InitSInv == Init => SInv
BY DEF Init, SInv, Quiet, HolderAtBind, HolderRoot, Backends, Listed, Unlisted,
       NoBackend, RoutesHaveBackends, Standing, BeforeBind, BeforeRegister, Pending

(* A handler that moves on without entering bind, register or reply.       *)
LEMMA MoveSInv ==
  ASSUME TInv, SInv, NEW c \in Conn, NEW to \in Control,
         hpc' = [hpc EXCEPT ![c] = to],
         to \notin {"bind", "register", "reply"},
         to \in BeforeBind => hpc[c] \in BeforeBind,
         UNCHANGED forwardVars
  PROVE  SInv'
<1> USE DEF TInv, TypeOK, forwardVars, BeforeBind, BeforeRegister
<1>1. \A f \in Fwd : /\ Pending(f, BeforeBind)' => Pending(f, BeforeBind)
                     /\ Pending(f, BeforeRegister)' => Pending(f, BeforeRegister)
  BY DEF Pending
<1>2. Quiet' /\ HolderAtBind' /\ Listed'
  BY <1>1 DEF SInv, Quiet, HolderAtBind, Listed
<1>3. HolderRoot' /\ Backends' /\ Unlisted' /\ NoBackend' /\ RoutesHaveBackends'
  BY DEF SInv, HolderRoot, Backends, Unlisted, NoBackend, RoutesHaveBackends
<1>4. Standing'
  BY DEF SInv, Standing, Displaced, Routed, Key
<1> QED
  BY <1>2, <1>3, <1>4 DEF SInv

(* Steps that touch neither the handlers nor the forwards.                 *)
LEMMA FrameSInv ==
  ASSUME SInv, UNCHANGED <<hpc, forwardVars>>
  PROVE  SInv'
<1> USE DEF forwardVars
<1>1. Quiet' /\ HolderAtBind' /\ Listed'
  BY DEF SInv, Quiet, HolderAtBind, Listed, Pending
<1>2. HolderRoot' /\ Backends' /\ Unlisted' /\ NoBackend' /\ RoutesHaveBackends'
  BY DEF SInv, HolderRoot, Backends, Unlisted, NoBackend, RoutesHaveBackends
<1>3. Standing'
  BY DEF SInv, Standing, Displaced, Routed, Key
<1> QED
  BY <1>1, <1>2, <1>3 DEF SInv

(* CleanUp takes over callbacks that are registered, or drops some; it     *)
(* may unregister them.                                                    *)
LEMMA CallbacksSInv ==
  ASSUME TInv, SInv,
         \A d \in Conn : toRun'[d] \subseteq toRun[d] \cup registered,
         registered' \subseteq registered,
         UNCHANGED <<hpc, cur, owner, target, watching, accepting, cleanup,
                     listeners, connListeners, holder, servers, hname, routes>>
  PROVE  SInv'
<1>1. Quiet' /\ HolderAtBind' /\ Listed'
  BY DEF SInv, Quiet, HolderAtBind, Listed, Pending
<1>2. HolderRoot' /\ Backends' /\ Unlisted' /\ NoBackend' /\ RoutesHaveBackends'
  BY DEF SInv, HolderRoot, Backends, Unlisted, NoBackend, RoutesHaveBackends
<1>3. Standing'
  BY DEF SInv, Standing, Displaced, Routed, Key
<1> QED
  BY <1>1, <1>2, <1>3 DEF SInv

(* cleanupOnce.Do on a forward whose handler has registered or given up.   *)
LEMMA OnceDoSInv ==
  ASSUME TInv, SInv, NEW f \in Fwd, OnceDo(f), ~Pending(f, BeforeRegister),
         \/ UNCHANGED hpc
         \/ \E c \in Conn : hpc[c] = "cancel" /\ hpc' = [hpc EXCEPT ![c] = "cleanup"],
         UNCHANGED <<cur, owner, target, toRun, registered, listeners, connListeners,
                      holder, servers, hname, routes>>
  PROVE  SInv'
<1> USE DEF TInv, TypeOK, OnceDo, BeforeBind, BeforeRegister
<1>1. \A g \in Fwd : cleanup'[g] = cleanup[g] \/ (g = f /\ cleanup'[g] = "closing")
  OBVIOUS
<1>2. cleanup[f] = "none" \/ cleanup'[f] = cleanup[f]
  OBVIOUS
<1>3. \A c \in Conn : hpc'[c] = hpc[c] \/ hpc'[c] = "cleanup"
  OBVIOUS
<1>4. Quiet'
  <2> SUFFICES ASSUME NEW g \in Fwd, Pending(g, BeforeRegister)'
               PROVE  /\ cleanup'[g] = "none"
                      /\ g \notin registered' \cup watching' \cup accepting'
                      /\ \A d \in Conn : g \notin toRun'[d]
    BY DEF Quiet
  <2>1. Pending(g, BeforeRegister) /\ g # f
    BY <1>3 DEF Pending
  <2> QED
    BY <1>1, <2>1 DEF SInv, Quiet
<1>5. HolderAtBind' /\ HolderRoot' /\ Backends' /\ Listed' /\ RoutesHaveBackends'
  BY <1>3 DEF SInv, HolderAtBind, HolderRoot, Backends, Listed, RoutesHaveBackends, Pending
<1>6. Unlisted' /\ NoBackend'
  BY <1>1 DEF SInv, Unlisted, NoBackend
<1>7. \A g \in Fwd : Displaced(g) => Displaced(g)'
  BY <1>1, <1>2 DEF Displaced, Key
<1>8. Standing'
  BY <1>1, <1>7 DEF SInv, Standing, Routed
<1> QED
  BY <1>4, <1>5, <1>6, <1>8 DEF SInv

(* A request makes a forward that nobody has heard of pending.             *)
LEMMA RequestSInv ==
  ASSUME TInv, SInv, NEW c \in Conn, NEW f \in Fwd, NEW t \in Target, Request(c, f, t)
  PROVE  SInv'
<1> USE DEF TInv, TypeOK, Request, Go, connVars, tableVars, taskVars, routeVars,
            BeforeBind, BeforeRegister
<1>1. \A g \in Fwd : /\ Pending(g, BeforeBind)' => Pending(g, BeforeBind)
                     /\ Pending(g, BeforeRegister)' => Pending(g, BeforeRegister)
  BY DEF Pending
<1>2. Quiet' /\ HolderAtBind' /\ Listed'
  BY <1>1 DEF SInv, Quiet, HolderAtBind, Listed
<1>3. HolderRoot' /\ Backends' /\ Unlisted' /\ NoBackend' /\ RoutesHaveBackends'
  BY DEF SInv, HolderRoot, Backends, Unlisted, NoBackend, RoutesHaveBackends
<1>4. holder[f] = NoFwd /\ \A g \in Fwd : holder[g] # f
  BY DEF SInv, HolderAtBind, HolderRoot, Pending
<1>5. \A g \in Fwd : holder[g] # NoFwd => Key(holder[g])' = Key(holder[g])
  BY <1>4 DEF Key
<1>6. \A g \in Fwd : holder[g] # NoFwd /\ Displaced(g) => Displaced(g)'
  BY <1>5 DEF Displaced
<1>7. Standing'
  BY <1>6 DEF SInv, Standing, Routed
<1> QED
  BY <1>2, <1>3, <1>7 DEF SInv

(* A handler returns, or starts to cancel a forward.                       *)
LEMMA IdleSInv ==
  ASSUME TInv, SInv, NEW c \in Conn, NEW f \in Fwd, Return(c) \/ Cancel(c, f)
  PROVE  SInv'
<1> USE DEF TInv, TypeOK, Return, Cancel, Go, connVars, requestVars, tableVars,
            taskVars, routeVars, BeforeBind, BeforeRegister
<1>1. \A g \in Fwd : /\ Pending(g, BeforeBind)' => Pending(g, BeforeBind)
                     /\ Pending(g, BeforeRegister)' => Pending(g, BeforeRegister)
  BY DEF Pending
<1>2. Quiet' /\ HolderAtBind' /\ Listed'
  BY <1>1 DEF SInv, Quiet, HolderAtBind, Listed
<1>3. HolderRoot' /\ Backends' /\ Unlisted' /\ NoBackend' /\ RoutesHaveBackends'
  BY DEF SInv, HolderRoot, Backends, Unlisted, NoBackend, RoutesHaveBackends
<1>4. Standing'
  BY DEF SInv, Standing, Displaced, Routed, Key
<1> QED
  BY <1>2, <1>3, <1>4 DEF SInv

(* A pending forward is listed: it has not been cleaned up.                *)
LEMMA ListenSInv ==
  ASSUME TInv, SInv, NEW c \in Conn, Listen(c)
  PROVE  SInv'
<1> USE DEF TInv, TypeOK, Working, Listen, Go, connVars, requestVars, taskVars,
            routeVars, BeforeBind, BeforeRegister
<1>1. \A g \in Fwd : /\ Pending(g, BeforeBind)' => Pending(g, BeforeBind)
                     /\ Pending(g, BeforeRegister)' => Pending(g, BeforeRegister)
  BY DEF Pending
<1>2. cur[c] \in Fwd /\ cleanup[cur[c]] = "none"
  BY DEF SInv, Quiet, Pending
<1>3. Quiet' /\ HolderAtBind' /\ Listed'
  BY <1>1 DEF SInv, Quiet, HolderAtBind, Listed
<1>4. HolderRoot' /\ Backends' /\ NoBackend' /\ RoutesHaveBackends'
  BY DEF SInv, HolderRoot, Backends, NoBackend, RoutesHaveBackends
<1>5. Unlisted'
  BY <1>2 DEF SInv, Unlisted
<1>6. Standing'
  BY DEF SInv, Standing, Displaced, Routed, Key
<1> QED
  BY <1>3, <1>4, <1>5, <1>6 DEF SInv

(* Registering a forward and accepting connections for it.                 *)
LEMMA RegisterSInv ==
  ASSUME TInv, SInv, NEW c \in Conn, Register(c) \/ ReplyTrue(c)
  PROVE  SInv'
<1> USE DEF TInv, TypeOK, Working, Register, ReplyTrue, Go, connVars, requestVars,
            tableVars, routeVars, BeforeBind, BeforeRegister
<1>1. \A g \in Fwd : /\ Pending(g, BeforeBind)' => Pending(g, BeforeBind)
                     /\ Pending(g, BeforeRegister)' =>
                          Pending(g, BeforeRegister) /\ g # cur[c]
  <2>1. \A d \in Conn \ {c} : hpc[d] # "idle" => cur[d] # cur[c]
    OBVIOUS
  <2>2. /\ owner[cur[c]] # NoConn
        /\ hpc'[c] \notin BeforeRegister
        /\ \A d \in Conn \ {c} : hpc'[d] = hpc[d]
    OBVIOUS
  <2> QED
    BY <2>1, <2>2 DEF Pending
<1>2. cur[c] \in Fwd /\ holder[cur[c]] # NoFwd
  BY DEF SInv, HolderAtBind
<1>3. Register(c) => cleanup[cur[c]] = "none"
  BY <1>2 DEF SInv, Quiet, Pending
<1>4. Quiet' /\ Listed'
  BY <1>1 DEF SInv, Quiet, Listed
<1>5. HolderAtBind'
  BY <1>1, <1>2 DEF SInv, HolderAtBind
<1>6. HolderRoot' /\ Backends' /\ NoBackend' /\ RoutesHaveBackends'
  BY DEF SInv, HolderRoot, Backends, NoBackend, RoutesHaveBackends
<1>7. Unlisted'
  BY <1>2, <1>3 DEF SInv, Unlisted
<1>8. UNCHANGED <<target, cleanup, listeners, holder, servers, hname, routes>>
  BY DEF taskVars
<1>9. Standing'
  BY <1>8 DEF SInv, Standing, Displaced, Routed, Key
<1> QED
  BY <1>4, <1>5, <1>6, <1>7, <1>9 DEF SInv

(* Unlisting concerns a forward that is being torn down.                   *)
LEMMA UnlistSInv ==
  ASSUME TInv, SInv, NEW f \in Fwd, Unlist(f)
  PROVE  SInv'
<1> USE DEF TInv, TypeOK, Unlist, connVars, handlerVars, requestVars, routeVars,
            BeforeBind, BeforeRegister
<1>1. ~Pending(f, BeforeRegister)
  BY DEF SInv, Quiet
<1>2. Quiet'
  BY <1>1 DEF SInv, Quiet, Pending
<1>3. HolderAtBind' /\ HolderRoot' /\ Backends' /\ RoutesHaveBackends'
  BY DEF SInv, HolderAtBind, HolderRoot, Backends, RoutesHaveBackends, Pending
<1>4. Listed'
  BY <1>1 DEF SInv, Listed, Pending
<1>5. Unlisted' /\ NoBackend'
  BY DEF SInv, Unlisted, NoBackend
<1>6. \A g \in Fwd : Displaced(g) => Displaced(g)'
  BY DEF Displaced, Key
<1>7. Standing'
  BY <1>6 DEF SInv, Standing, Routed
<1> QED
  BY <1>2, <1>3, <1>4, <1>5, <1>7 DEF SInv

(* What holds of a forward that is about to be bound.                      *)
LEMMA BindFacts ==
  ASSUME TInv, SInv, NEW c \in Conn, hpc[c] = "bind"
  PROVE  /\ cur[c] \in Fwd /\ cur[c] \in listeners
         /\ cleanup[cur[c]] = "none" /\ holder[cur[c]] = NoFwd
         /\ servers[cur[c]] = {}
         /\ \A g \in Fwd : holder[g] # cur[c]
         /\ \A h \in Fwd : cur[c] \notin servers[h]
         /\ \A n \in Name : routes[n] # cur[c]
<1> USE DEF TInv, TypeOK, BeforeBind, BeforeRegister
<1>1. cur[c] \in Fwd /\ cur[c] \in listeners
  BY DEF Working, SInv, Listed
<1>2. cleanup[cur[c]] = "none" /\ holder[cur[c]] = NoFwd
  BY <1>1 DEF SInv, Quiet, HolderAtBind, Pending
<1>3. \A g \in Fwd : holder[g] # cur[c]
  BY <1>1, <1>2 DEF SInv, HolderRoot
<1>4. servers[cur[c]] = {} /\ \A h \in Fwd : cur[c] \notin servers[h]
  BY <1>1, <1>2, <1>3 DEF SInv, Backends
<1>5. \A n \in Name : routes[n] # cur[c]
  BY <1>1, <1>4 DEF SInv, RoutesHaveBackends
<1> QED
  BY <1>1, <1>2, <1>3, <1>4, <1>5

(* A forward is bound to a holder h that is its own or has its root, and   *)
(* the name of h leads to h from then on.                                  *)
LEMMA BindSInv ==
  ASSUME TInv, SInv, NEW c \in Conn, NEW h \in Fwd, NEW n \in Name,
         Go(c, "bind", "register"), AddBackend(cur[c], h),
         h = cur[c] \/ holder[h] = h,
         hname' = [hname EXCEPT ![h] = n],
         h # cur[c] => hname[h] = n,
         routes' = [routes EXCEPT ![n] = h],
         h # cur[c] => routes[n] = h,
         h = cur[c] => ~InUse(n),
         UNCHANGED <<cur, owner, target, toRun, registered, watching, accepting,
                     cleanup, listeners, connListeners>>
  PROVE  SInv'
<1> DEFINE f == cur[c]
<1> USE DEF TInv, TypeOK, BeforeBind, BeforeRegister, Go, AddBackend
<1>1. /\ f \in Fwd /\ f \in listeners /\ cleanup[f] = "none" /\ holder[f] = NoFwd
      /\ \A g \in Fwd : holder[g] # f
      /\ \A x \in Fwd : f \notin servers[x]
      /\ \A m \in Name : routes[m] # f
      /\ servers[f] = {}
  BY BindFacts
<1>2. \A g \in Fwd : /\ Pending(g, BeforeBind)' => Pending(g, BeforeBind) /\ g # f
                     /\ Pending(g, BeforeRegister)' => Pending(g, BeforeRegister)
  BY DEF Pending, Working
<1>3. Quiet' /\ Listed' /\ Unlisted'
  BY <1>2 DEF SInv, Quiet, Listed, Unlisted
<1>4. holder'[f] = h /\ \A g \in Fwd \ {f} : holder'[g] = holder[g]
  BY <1>1
<1>5. HolderAtBind'
  <2>1. \A g \in Fwd : Pending(g, BeforeBind)' => holder'[g] = NoFwd
    BY <1>2, <1>4 DEF SInv, HolderAtBind
  <2>2. \A d \in Conn : hpc'[d] \in {"register", "reply"} => holder'[cur'[d]] # NoFwd
    BY <1>1, <1>4 DEF SInv, HolderAtBind, Working
  <2>3. \A g \in accepting' : holder'[g] # NoFwd
    BY <1>1, <1>4 DEF SInv, HolderAtBind
  <2> QED
    BY <2>1, <2>2, <2>3 DEF HolderAtBind
<1>6. HolderRoot'
  BY <1>1, <1>4 DEF SInv, HolderRoot
<1>7. \A g, x \in Fwd : g \in servers'[x] <=> g \in servers[x] \/ (g = f /\ x = h)
  BY <1>1
<1>8. Backends'
  BY <1>1, <1>4, <1>7 DEF SInv, Backends
<1>9. NoBackend'
  BY <1>1, <1>7 DEF SInv, NoBackend
<1>10. RoutesHaveBackends'
  <2> SUFFICES ASSUME NEW m \in Name, routes'[m] # NoFwd
               PROVE  hname'[routes'[m]] = m /\ servers'[routes'[m]] # {}
    BY DEF RoutesHaveBackends
  <2>1. CASE m = n
    <3>1. routes'[m] = h /\ hname'[h] = n
      BY <2>1
    <3>2. f \in servers'[h]
      BY <1>1
    <3> QED
      BY <2>1, <3>1, <3>2
  <2>2. CASE m # n
    <3>1. routes'[m] = routes[m] /\ routes[m] \in Fwd
      BY <2>2
    <3>2. routes[m] # h
      BY <1>1, <2>2, <3>1 DEF SInv, RoutesHaveBackends
    <3> QED
      BY <3>1, <3>2, <2>2 DEF SInv, RoutesHaveBackends
  <2> QED
    BY <2>1, <2>2
<1>11. Standing'
  <2> SUFFICES ASSUME NEW g \in Fwd, holder'[g] # NoFwd, cleanup'[g] = "none"
               PROVE  g \in listeners' /\ g \in servers'[holder'[g]]
                      /\ (Routed(g)' \/ Displaced(g)')
    BY DEF Standing
  <2>1. CASE g = f
    BY <1>1, <1>4, <2>1 DEF Routed
  <2>2. CASE g # f
    <3>1. /\ holder'[g] = holder[g] /\ holder[g] \in Fwd /\ holder[g] # f
          /\ hname'[holder[g]] = hname[holder[g]]
      BY <1>1, <1>4, <2>2
    <3>2. g \in listeners /\ g \in servers[holder[g]] /\ (Routed(g) \/ Displaced(g))
      BY <3>1 DEF SInv, Standing
    <3>3. Routed(g) => Routed(g)'
      BY <1>1, <3>1, <3>2 DEF Routed, InUse, Stale, SInv, RoutesHaveBackends
    <3>4. Displaced(g) => Displaced(g)'
      <4>1. \A x \in Fwd : x # f => Key(x)' = Key(x)
        BY <1>1 DEF Key
      <4>2. ASSUME NEW x \in Fwd, holder[x] # NoFwd
            PROVE  holder'[x] = holder[x] /\ Key(holder[x])' = Key(holder[x])
        BY <1>1, <1>4, <4>1, <4>2
      <4> QED
        BY <3>1, <4>2 DEF Displaced
    <3> QED
      BY <1>7, <3>1, <3>2, <3>3, <3>4
  <2> QED
    BY <2>1, <2>2
<1> QED
  BY <1>3, <1>5, <1>6, <1>8, <1>9, <1>10, <1>11 DEF SInv

(* onCleanup takes a backend away, and the route of its name if no other   *)
(* backend is left. A forward of another holder of that name is displaced. *)
LEMMA OnCleanupSInv ==
  ASSUME TInv, SInv, NEW f \in Fwd, OnCleanup(f)
  PROVE  SInv'
<1> USE DEF TInv, TypeOK, connVars, handlerVars, requestVars, tableVars
<1>1. /\ cleanup[f] = "unlisted" /\ cleanup' = [cleanup EXCEPT ![f] = "cleaned"]
      /\ UNCHANGED <<hpc, cur, owner, target, toRun, registered, watching,
                     accepting, listeners, connListeners, holder, hname>>
  BY DEF OnCleanup
<1>2. ~Pending(f, BeforeRegister)
  BY <1>1 DEF SInv, Quiet
<1>3. Quiet'
  BY <1>1, <1>2 DEF SInv, Quiet, Pending
<1>4. HolderAtBind' /\ HolderRoot' /\ Listed'
  BY <1>1 DEF SInv, HolderAtBind, HolderRoot, Listed, Pending
<1>5. Unlisted'
  BY <1>1 DEF SInv, Unlisted
<1>6. \A g \in Fwd : Displaced(g) => Displaced(g)'
  BY <1>1 DEF Displaced, Key
<1>7. CASE holder[f] = NoFwd
  <2>1. UNCHANGED <<servers, routes>>
    BY <1>7 DEF OnCleanup
  <2>2. \A h \in Fwd : f \notin servers[h]
    BY <1>7 DEF SInv, Backends
  <2>3. Backends' /\ NoBackend' /\ RoutesHaveBackends'
    BY <1>1, <2>1, <2>2 DEF SInv, Backends, NoBackend, RoutesHaveBackends
  <2>4. Standing'
    BY <1>1, <1>6, <2>1 DEF SInv, Standing, Routed
  <2> QED
    BY <1>3, <1>4, <1>5, <2>3, <2>4 DEF SInv
<1>8. CASE holder[f] # NoFwd
  <2>1. PICK h \in Fwd : h = holder[f]
    BY <1>8
  <2>2. /\ servers' = [servers EXCEPT ![h] = @ \ {f}]
        /\ routes' = [m \in Name |->
             IF servers'[h] = {} /\ routes[m] # NoFwd /\ Key(routes[m]) = Key(h)
             THEN NoFwd ELSE routes[m]]
    BY <1>8, <2>1 DEF OnCleanup, RemoveBackend
  <2>3. \A g, x \in Fwd : g \in servers'[x] <=> g \in servers[x] /\ ~(g = f /\ x = h)
    BY <2>2
  <2>4. Backends' /\ NoBackend'
    BY <1>1, <2>1, <2>3 DEF SInv, Backends, NoBackend
  <2>5. \A m \in Name : IF servers'[h] = {} /\ routes[m] # NoFwd /\ Key(routes[m]) = Key(h)
                       THEN routes'[m] = NoFwd ELSE routes'[m] = routes[m]
    BY <2>2
  <2>6. RoutesHaveBackends'
    <3> SUFFICES ASSUME NEW m \in Name, routes'[m] # NoFwd
                 PROVE  hname'[routes'[m]] = m /\ servers'[routes'[m]] # {}
      BY DEF RoutesHaveBackends
    <3>1. /\ routes'[m] = routes[m] /\ routes[m] \in Fwd
          /\ hname[routes[m]] = m /\ servers[routes[m]] # {}
      BY <2>5 DEF SInv, RoutesHaveBackends
    <3>2. CASE routes[m] = h
      BY <1>1, <2>5, <3>1, <3>2
    <3>3. CASE routes[m] # h
      BY <1>1, <2>2, <3>1, <3>3
    <3> QED
      BY <3>2, <3>3
  <2>7. Standing'
    <3> SUFFICES ASSUME NEW g \in Fwd, holder'[g] # NoFwd, cleanup'[g] = "none"
                 PROVE  g \in listeners' /\ g \in servers'[holder'[g]]
                        /\ (Routed(g)' \/ Displaced(g)')
      BY DEF Standing
    <3>1. g # f /\ holder'[g] = holder[g] /\ holder[g] \in Fwd /\ cleanup[g] = "none"
      BY <1>1
    <3>2. g \in listeners /\ g \in servers[holder[g]] /\ (Routed(g) \/ Displaced(g))
      BY <3>1 DEF SInv, Standing
    <3>3. g \in servers'[holder[g]]
      BY <2>3, <3>1, <3>2
    <3>4. CASE Routed(g) /\ ~Routed(g)'
      <4>1. servers'[h] = {} /\ Key(holder[g]) = Key(h)
        BY <1>1, <2>5, <3>1, <3>4 DEF Routed
      <4>2. holder[g] # h
        BY <3>3, <4>1
      <4> QED
        BY <1>1, <2>1, <3>1, <3>2, <3>3, <4>1, <4>2 DEF Displaced, Key
    <3> QED
      BY <1>1, <1>6, <3>1, <3>2, <3>3, <3>4
  <2> QED
    BY <1>3, <1>4, <1>5, <2>4, <2>6, <2>7 DEF SInv
<1> QED
  BY <1>7, <1>8

(* A cancel request runs the cleanup, or closes the listener.              *)
LEMMA CancelRunSInv ==
  ASSUME TInv, SInv, NEW c \in Conn, CancelRun(c)
  PROVE  SInv'
<1> USE DEF TInv, TypeOK, Working, Go, connVars, requestVars, tableVars, routeVars,
            forwardVars, BeforeBind, BeforeRegister
<1>1. cur[c] \in Fwd /\ hpc[c] = "cancel"
  BY DEF CancelRun
<1>2. CASE cur[c] \notin registered
  BY <1>2, MoveSInv DEF CancelRun
<1>3. CASE cur[c] \in registered
  <2> DEFINE f == cur[c]
  <2>1. /\ hpc' = [hpc EXCEPT ![c] = "cleanup"] /\ OnceDo(f)
        /\ UNCHANGED <<cur, owner, target, toRun, registered, listeners, connListeners,
                       holder, servers, hname, routes>>
    BY <1>3 DEF CancelRun
  <2>2. f \in Fwd /\ ~Pending(f, BeforeRegister)
    BY <1>1, <1>3 DEF SInv, Quiet
  <2> QED
    BY <1>1, <2>1, <2>2, OnceDoSInv
<1> QED
  BY <1>2, <1>3

(* The steps of a request handler.                                         *)
LEMMA HandlerSInv ==
  ASSUME TInv, SInv, NEW c \in Conn, HandlerStep(c)
  PROVE  SInv'
<1> USE DEF Go, connVars, handlerVars, requestVars, tableVars, taskVars, routeVars,
            forwardVars, BeforeBind
<1>1. CASE \/ RefuseClosed(c) \/ RefuseMalformed(c) \/ DenyDone(c)
           \/ ListenFails(c) \/ HandlerCleaned(c)
  BY <1>1, MoveSInv
  DEF RefuseClosed, RefuseMalformed, DenyDone, ListenFails, HandlerCleaned
<1>2. CASE Deny(c)
  BY <1>2, MoveSInv DEF Deny
<1>3. CASE DenyCleanUp(c)
  BY <1>3, CallbacksSInv DEF DenyCleanUp, BeginCleanUp, TInv, TypeOK
<1>4. CASE Admit(c)
  BY <1>4, MoveSInv DEF Admit
<1>5. CASE AcquireTarget(c)
  BY <1>5, MoveSInv DEF AcquireTarget
<1>6. ASSUME NEW d \in Conn, Evict(c, d) PROVE SInv'
  <2>1. CASE phase[d] = "open"
    BY <1>6, <2>1, CallbacksSInv DEF Evict, BeginCleanUp, TInv, TypeOK
  <2>2. CASE phase[d] # "open"
    BY <1>6, <2>2, FrameSInv DEF Evict
  <2> QED
    BY <2>1, <2>2
<1>7. CASE Evicted(c)
  BY <1>7, FrameSInv DEF Evicted
<1>8. CASE TargetReleased(c) \/ TargetReleaseTimeout(c)
  BY <1>8, MoveSInv DEF TargetReleased, TargetReleaseTimeout
<1>9. CASE Listen(c)
  BY <1>9, ListenSInv
<1>10. ASSUME NEW n \in Name, BindNew(c, n) PROVE SInv'
  <2>1. cur[c] \in Fwd
    BY <1>10, BindFacts DEF BindNew
  <2> QED
    BY <1>10, <2>1, BindSInv DEF BindNew
<1>11. ASSUME NEW n \in Name, BindJoin(c, n) PROVE SInv'
  <2>1. PICK h \in Fwd : h = routes[n]
    BY <1>11 DEF BindJoin, InUse, TInv, TypeOK
  <2>2. hname[h] = n /\ servers[h] # {}
    BY <2>1 DEF SInv, RoutesHaveBackends
  <2>3. holder[h] = h
    BY <2>2 DEF SInv, Backends, HolderRoot, TInv, TypeOK
  <2>4. h # cur[c]
    BY <1>11, <2>2, BindFacts DEF BindJoin
  <2>5. hname' = [hname EXCEPT ![h] = n] /\ routes' = [routes EXCEPT ![n] = h]
    BY <1>11, <2>1, <2>2 DEF BindJoin, TInv, TypeOK
  <2> QED
    BY <1>11, <2>1, <2>2, <2>3, <2>4, <2>5, BindSInv DEF BindJoin
<1>12. CASE BindRefused(c)
  BY <1>12, MoveSInv DEF BindRefused
<1>13. CASE ReplyFalse(c) \/ ReplyFails(c)
  BY <1>13, MoveSInv DEF ReplyFalse, ReplyFails
<1>14. CASE Register(c) \/ ReplyTrue(c)
  BY <1>14, RegisterSInv
<1>15. CASE HandlerCleanup(c)
  <2>1. cur[c] \in Fwd /\ ~Pending(cur[c], BeforeRegister)
    BY <1>15 DEF HandlerCleanup, TInv, Working, Pending, BeforeRegister
  <2> QED
    BY <1>15, <2>1, OnceDoSInv DEF HandlerCleanup
<1>16. CASE Return(c)
  <2>1. cur[c] \in Fwd
    BY <1>16 DEF Return, TInv, Working
  <2> QED
    BY <1>16, <2>1, IdleSInv
<1>17. CASE CancelRun(c)
  BY <1>17, CancelRunSInv
<1> HIDE DEF Go, connVars, handlerVars, requestVars, tableVars, taskVars, routeVars
<1> QED
  BY <1>1, <1>2, <1>3, <1>4, <1>5, <1>6, <1>7, <1>8, <1>9, <1>10, <1>11, <1>12,
     <1>13, <1>14, <1>15, <1>16, <1>17 DEF HandlerStep

(* Every other step.                                                       *)
LEMMA NextSInv == TInv /\ SInv /\ [Next]_vars => SInv'
<1> SUFFICES ASSUME TInv, SInv, [Next]_vars PROVE SInv'
  OBVIOUS
<1> USE DEF connVars, handlerVars, requestVars, tableVars, taskVars, routeVars,
            forwardVars
<1>1. CASE UNCHANGED vars
  BY <1>1, FrameSInv DEF vars
<1>2. ASSUME NEW c \in Conn, HandlerStep(c) PROVE SInv'
  BY <1>2, HandlerSInv
<1>3. ASSUME NEW c \in Conn, CleanUpStep(c) PROVE SInv'
  <2>1. ASSUME NEW f \in Fwd, RunCleanup(c, f) PROVE SInv'
    <3>1. ~Pending(f, BeforeRegister)
      BY <2>1 DEF RunCleanup, SInv, Quiet
    <3> QED
      BY <2>1, <3>1, OnceDoSInv DEF RunCleanup
  <2>2. CASE RanCleanup(c)
    BY <2>2, CallbacksSInv DEF RanCleanup, TInv, TypeOK
  <2>3. CASE CloseChannel(c) \/ CloseConn(c)
    BY <2>3, FrameSInv DEF CloseChannel, CloseConn
  <2> QED
    BY <1>3, <2>1, <2>2, <2>3 DEF CleanUpStep
<1>4. ASSUME NEW f \in Fwd, CleanupStep(f) \/ WatcherFires(f) \/ AcceptLoopExit(f)
      PROVE  SInv'
  <2>1. CASE CleanupStep(f)
    BY <2>1, UnlistSInv, OnCleanupSInv DEF CleanupStep
  <2>2. CASE WatcherFires(f) \/ AcceptLoopExit(f)
    <3>1. ~Pending(f, BeforeRegister)
      BY <2>2 DEF WatcherFires, AcceptLoopExit, SInv, Quiet
    <3> QED
      BY <2>2, <3>1, OnceDoSInv DEF WatcherFires, AcceptLoopExit
  <2> QED
    BY <1>4, <2>1, <2>2
<1>5. CASE Environment
  <2>1. ASSUME NEW c \in Conn, NEW f \in Fwd, NEW t \in Target, Request(c, f, t)
        PROVE  SInv'
    BY <2>1, RequestSInv
  <2>2. ASSUME NEW c \in Conn, NEW f \in Fwd, Cancel(c, f) PROVE SInv'
    BY <2>2, IdleSInv
  <2>3. ASSUME NEW c \in Conn, CleanUp(c) PROVE SInv'
    BY <2>3, CallbacksSInv DEF CleanUp, BeginCleanUp, TInv, TypeOK
  <2>4. ASSUME NEW c \in Conn, SetForceConnect(c) PROVE SInv'
    BY <2>4, FrameSInv DEF SetForceConnect
  <2>5. ASSUME NEW f \in Fwd, HandleDisconnectRoute(f) PROVE SInv'
    BY <2>5, FrameSInv DEF HandleDisconnectRoute
  <2> QED
    BY <1>5, <2>1, <2>2, <2>3, <2>4, <2>5 DEF Environment
<1> QED
  BY <1>1, <1>2, <1>3, <1>4, <1>5 DEF Next, ServerStep

(* The inductive invariant of the forward life cycle.                      *)
THEOREM Inductive == Spec => [](TInv /\ SInv)
BY InitTInv, NextTInv, InitSInv, NextSInv, PTL DEF Spec

(* lifecycle.cleanup leaves nothing of a forward behind, whoever ran it.   *)
THEOREM CleanedSafe == Spec => []CleanedLeavesNothing
<1>1. SInv => CleanedLeavesNothing
  BY DEF SInv, Unlisted, NoBackend, CleanedLeavesNothing
<1> QED
  BY <1>1, Inductive, PTL

(* No route leads to an empty holder, or to one of another name.           *)
THEOREM RoutesSafe == Spec => []RoutesHaveBackends
<1>1. SInv => RoutesHaveBackends
  BY DEF SInv
<1> QED
  BY <1>1, Inductive, PTL

(* A serving forward loses its route only to the late onCleanup of an      *)
(* earlier forward of the same name.                                       *)
THEOREM RoutedUnlessDisplaced == Spec => []UnroutedOnlyByLateTeardown
<1>1. TInv /\ SInv => UnroutedOnlyByLateTeardown
  BY DEF SInv, TInv, TypeOK, HolderAtBind, Standing, Displaced, Serving,
         UnroutedOnlyByLateTeardown
<1> QED
  BY <1>1, Inductive, PTL

-----------------------------------------------------------------------------
(* Takeover.  Force-connect takeovers of one target exclude each other.    *)
(* The argument: who lists a forced forward holds the lock of its target,  *)
(* and whoever had listed one before is on the list of connections that    *)
(* the holder closes first.                                                *)

BeforeListen == {"await", "deny", "lock", "disconnect", "listen"}
Inside == {"disconnect", "listen", "bind", "refuse", "register", "reply",
           "cleanup", "return"}

(* A forward is listed by Listen and not before.                           *)
NotYetListed == \A f \in Fwd : Pending(f, BeforeListen) => f \notin listeners

(* A handler that takes a target over holds its lock until it returns.     *)
Locking ==
  \A c \in Conn :
    /\ hpc[c] \in {"lock", "disconnect"} => forced[cur[c]]
    /\ hpc[c] \in {"disconnect", "listen"} /\ forced[cur[c]]
         => targetLock[target[cur[c]]] = c

Holding ==
  \A t \in Target, c \in Conn : targetLock[t] = c => hpc[c] \in Inside /\ target[cur[c]] = t

(* While c holds the lock, another connection that took the target over    *)
(* earlier is being closed or is one that c will still close.              *)
Doomed ==
  \A c \in Conn, g \in listeners :
    /\ targetLock[target[g]] = c /\ forced[g]
    /\ owner[g] # c /\ phase[owner[g]] = "open"
    => hpc[c] = "disconnect" /\ owner[g] \in victims[c]

KInv == NotYetListed /\ Locking /\ Holding /\ Doomed /\ TakeoverExclusive

HIDE NameAssumption DEF Stage
USE DEF BeforeListen, Inside

-----------------------------------------------------------------------------
(* At first no target is locked and nothing is listed.                     *)
LEMMA InitKInv == Init => KInv
BY DEF Init, KInv, NotYetListed, Locking, Holding, Doomed, TakeoverExclusive

(* Steps outside the takeover: they list nothing, reopen nothing and keep  *)
(* every handler that has the lock inside.                                 *)
LEMMA OutsideKInv ==
  ASSUME TInv, KInv,
         \A d \in Conn :
           \/ hpc'[d] = hpc[d]
           \/ /\ hpc'[d] \notin {"await", "lock", "disconnect", "listen"}
              /\ hpc[d] # "disconnect"
              /\ hpc[d] \in Inside => hpc'[d] \in Inside
              /\ hpc'[d] = "deny" => hpc[d] = "await",
         listeners' \subseteq listeners,
         \A d \in Conn : phase'[d] = "open" => phase[d] = "open",
         UNCHANGED <<cur, owner, target, forced, victims, targetLock>>
  PROVE  KInv'
<1> USE DEF TInv, TypeOK
<1>1. NotYetListed'
  BY DEF KInv, NotYetListed, Pending
<1>2. Locking' /\ Holding'
  BY DEF KInv, Locking, Holding
<1>3. \A g \in listeners' : g \in listeners /\ owner[g] \in Conn
  BY DEF KInv, NotYetListed, Pending
<1>4. Doomed'
  BY <1>3 DEF KInv, Doomed
<1>5. TakeoverExclusive'
  BY <1>3 DEF KInv, TakeoverExclusive
<1> QED
  BY <1>1, <1>2, <1>4, <1>5 DEF KInv

(* A new request: its forward is not listed, and the connection holds no   *)
(* target lock.                                                            *)
LEMMA RequestKInv ==
  ASSUME TInv, KInv, NEW c \in Conn, NEW f \in Fwd, NEW t \in Target, Request(c, f, t)
  PROVE  KInv'
<1> USE DEF TInv, TypeOK, Request, Go, connVars, tableVars, lockVars
<1>1. f \notin listeners /\ \A d \in Conn : hpc[d] # "idle" => cur[d] # f
  BY DEF KInv, NotYetListed, Pending, Working
<1>2. NotYetListed'
  BY <1>1 DEF KInv, NotYetListed, Pending
<1>3. Locking' /\ Holding'
  BY <1>1 DEF KInv, Locking, Holding
<1>4. \A g \in listeners : /\ g \in Fwd /\ target'[g] = target[g]
                          /\ owner'[g] = owner[g]
  BY <1>1
<1>5. \A u \in Target : targetLock[u] # c
  BY DEF KInv, Holding
<1>6. Doomed'
  BY <1>4, <1>5 DEF KInv, Doomed
<1>7. TakeoverExclusive'
  BY <1>4 DEF KInv, TakeoverExclusive
<1> QED
  BY <1>2, <1>3, <1>6, <1>7 DEF KInv

(* A handler without a lock returns to idle or starts a cancel; one with   *)
(* the lock releases it.                                                   *)
LEMMA IdleKInv ==
  ASSUME TInv, KInv, NEW c \in Conn, NEW f \in Fwd, Return(c) \/ Cancel(c, f)
  PROVE  KInv'
<1> USE DEF TInv, TypeOK, Return, Cancel, Go, connVars, requestVars, tableVars, lockVars
<1>1. NotYetListed'
  BY DEF KInv, NotYetListed, Pending
<1>2. Locking' /\ Holding'
  <2>1. CASE Return(c)
    <3>1. Locking'
      BY <2>1 DEF KInv, Locking, Working
    <3>2. Holding'
      BY <2>1 DEF KInv, Holding
    <3> QED
      BY <3>1, <3>2
  <2>2. CASE Cancel(c, f)
    BY <2>2 DEF KInv, Locking, Holding
  <2> QED
    BY <2>1, <2>2
<1>3. Doomed' /\ TakeoverExclusive'
  <2>1. Doomed'
    BY DEF KInv, Doomed, Holding
  <2>2. TakeoverExclusive'
    BY DEF KInv, TakeoverExclusive, Holding
  <2> QED
    BY <2>1, <2>2
<1> QED
  BY <1>1, <1>2, <1>3 DEF KInv

(* Admission fixes whether the request is a takeover.                      *)
LEMMA AdmitKInv ==
  ASSUME TInv, KInv, NEW c \in Conn, Admit(c)
  PROVE  KInv'
<1> USE DEF TInv, TypeOK, Admit, Go, connVars, tableVars, lockVars
<1>1. /\ cur[c] \in Fwd /\ cur[c] \notin listeners /\ hpc[c] = "await"
      /\ \A d \in Conn \ {c} : hpc[d] # "idle" => cur[d] # cur[c]
  BY DEF Working, KInv, NotYetListed, Pending
<1>2. /\ forced'[cur[c]] = forceConnect[c]
      /\ \A g \in Fwd \ {cur[c]} : forced'[g] = forced[g]
  BY <1>1
<1>3. /\ hpc'[c] = IF forceConnect[c] THEN "lock" ELSE "listen"
      /\ \A d \in Conn \ {c} : hpc'[d] = hpc[d]
  OBVIOUS
<1>4. NotYetListed'
  BY <1>1, <1>3 DEF KInv, NotYetListed, Pending
<1>5. Locking' /\ Holding'
  BY <1>1, <1>2, <1>3 DEF KInv, Locking, Holding, Working
<1>6. Doomed' /\ TakeoverExclusive'
  BY <1>1, <1>2, <1>3 DEF KInv, Doomed, TakeoverExclusive
<1> QED
  BY <1>4, <1>5, <1>6 DEF KInv

(* The lock is taken and everybody who has a listener for the target is on *)
(* the list.                                                               *)
LEMMA AcquireTargetKInv ==
  ASSUME TInv, KInv, NEW c \in Conn, AcquireTarget(c)
  PROVE  KInv'
<1> USE DEF TInv, TypeOK, AcquireTarget, Go, connVars, requestVars, tableVars
<1>1. cur[c] \in Fwd /\ forced[cur[c]] /\ target[cur[c]] \in Target
  BY DEF Working, KInv, Locking
<1>2. \A t \in Target : targetLock[t] # c
  BY DEF KInv, Holding
<1>3. NotYetListed'
  BY DEF KInv, NotYetListed, Pending
<1>4. Locking' /\ Holding'
  BY <1>1, <1>2 DEF KInv, Locking, Holding
<1>5. Doomed'
  <2> SUFFICES ASSUME NEW d \in Conn, NEW g \in listeners,
                      targetLock'[target[g]] = d, forced[g],
                      owner[g] # d, phase[owner[g]] = "open"
               PROVE  hpc'[d] = "disconnect" /\ owner[g] \in victims'[d]
    BY DEF Doomed
  <2>1. owner[g] \in Conn
    BY DEF KInv, NotYetListed, Pending
  <2>2. CASE d = c
    <3>1. target[g] = target[cur[c]]
      BY <1>1, <1>2, <2>2
    <3> QED
      BY <2>1, <2>2, <3>1 DEF TargetConns
  <2>3. CASE d # c
    BY <2>3, <1>1, <1>2 DEF KInv, Doomed
  <2> QED
    BY <2>2, <2>3
<1>6. TakeoverExclusive'
  BY DEF KInv, TakeoverExclusive
<1> QED
  BY <1>3, <1>4, <1>5, <1>6 DEF KInv

(* A connection leaves the list when its CleanUp has begun.                *)
LEMMA EvictKInv ==
  ASSUME TInv, KInv, NEW c \in Conn, NEW d \in Conn, Evict(c, d)
  PROVE  KInv'
<1> USE DEF TInv, TypeOK, Evict, connVars, requestVars, tableVars, lockVars
<1>1. phase'[d] # "open" /\ \A e \in Conn : phase'[e] = "open" => phase[e] = "open"
  BY DEF BeginCleanUp
<1>2. NotYetListed' /\ Locking' /\ Holding'
  BY DEF KInv, NotYetListed, Locking, Holding, Pending
<1>3. \A g \in listeners : owner[g] \in Conn
  BY DEF KInv, NotYetListed, Pending
<1>4. Doomed'
  BY <1>1, <1>3 DEF KInv, Doomed
<1>5. TakeoverExclusive'
  BY <1>1, <1>3 DEF KInv, TakeoverExclusive
<1> QED
  BY <1>2, <1>4, <1>5 DEF KInv

(* The list is empty when the wait for the target ends, in time or not.    *)
LEMMA ReleasedKInv ==
  ASSUME TInv, KInv, NEW c \in Conn, TargetReleased(c) \/ TargetReleaseTimeout(c)
  PROVE  KInv'
<1> USE DEF TInv, TypeOK, TargetReleased, TargetReleaseTimeout, Go, connVars,
            requestVars, tableVars, lockVars
<1>1. NotYetListed'
  BY DEF KInv, NotYetListed, Pending
<1>2. Locking' /\ Holding'
  <2>1. Locking'
    BY DEF KInv, Locking
  <2>2. Holding'
    BY DEF KInv, Holding
  <2> QED
    BY <2>1, <2>2
<1>3. victims[c] = {} /\ \A d \in Conn \ {c} : hpc'[d] = hpc[d]
  OBVIOUS
<1>4. Doomed'
  BY <1>3 DEF KInv, Doomed
<1>5. TakeoverExclusive'
  BY DEF KInv, TakeoverExclusive
<1> QED
  BY <1>1, <1>2, <1>4, <1>5 DEF KInv

(* A forced forward is listed under the lock of its target, when the list  *)
(* is empty.                                                               *)
LEMMA ListenKInv ==
  ASSUME TInv, KInv, NEW c \in Conn, Listen(c)
  PROVE  KInv'
<1> DEFINE f == cur[c]
<1> USE DEF TInv, TypeOK, Listen, Go, connVars, requestVars, lockVars
<1>1. f \in Fwd /\ owner[f] = c /\ hpc[c] = "listen"
  BY DEF Working
<1>2. forced[f] => targetLock[target[f]] = c
  BY <1>1 DEF KInv, Locking
<1>3. \A g \in listeners : owner[g] \in Conn
  BY DEF KInv, NotYetListed, Pending
<1>4. NotYetListed'
  BY <1>1 DEF KInv, NotYetListed, Pending, Working
<1>5. Locking' /\ Holding'
  BY DEF KInv, Locking, Holding
<1>6. Doomed'
  BY <1>1, <1>2 DEF KInv, Doomed
<1>7. \A g \in listeners : forced[f] /\ forced[g] /\ target[g] = target[f]
                             /\ phase[owner[g]] = "open" => owner[g] = c
  BY <1>1, <1>2 DEF KInv, Doomed
<1>8. TakeoverExclusive'
  BY <1>1, <1>7 DEF KInv, TakeoverExclusive
<1> QED
  BY <1>4, <1>5, <1>6, <1>8 DEF KInv

(* The steps of a request handler.                                         *)
LEMMA HandlerKInv ==
  ASSUME TInv, KInv, NEW c \in Conn, HandlerStep(c)
  PROVE  KInv'
<1> USE DEF Go, connVars, handlerVars, requestVars, tableVars, taskVars, lockVars
<1>1. TypeOK
  BY DEF TInv
<1>2. CASE \/ RefuseClosed(c) \/ RefuseMalformed(c) \/ Deny(c) \/ DenyDone(c)
           \/ Evicted(c) \/ ListenFails(c)
  BY <1>1, <1>2, OutsideKInv
  DEF RefuseClosed, RefuseMalformed, Deny, DenyDone, Evicted, ListenFails, TypeOK
<1>3. CASE DenyCleanUp(c)
  BY <1>1, <1>3, OutsideKInv DEF DenyCleanUp, BeginCleanUp, TypeOK
<1>4. CASE Admit(c)
  BY <1>4, AdmitKInv
<1>5. CASE AcquireTarget(c)
  BY <1>5, AcquireTargetKInv
<1>6. ASSUME NEW d \in Conn, Evict(c, d) PROVE KInv'
  BY <1>6, EvictKInv
<1>7. CASE TargetReleased(c) \/ TargetReleaseTimeout(c)
  BY <1>7, ReleasedKInv
<1>8. CASE Listen(c)
  BY <1>8, ListenKInv
<1>9. ASSUME NEW n \in Name, BindNew(c, n) \/ BindJoin(c, n) PROVE KInv'
  BY <1>1, <1>9, OutsideKInv DEF BindNew, BindJoin, TypeOK
<1>10. CASE BindRefused(c) \/ ReplyFalse(c)
  BY <1>1, <1>10, OutsideKInv DEF BindRefused, ReplyFalse, TypeOK
<1>11. CASE Register(c) \/ ReplyTrue(c) \/ ReplyFails(c)
  BY <1>1, <1>11, OutsideKInv DEF Register, ReplyTrue, ReplyFails, TypeOK
<1>12. CASE HandlerCleanup(c) \/ HandlerCleaned(c)
  BY <1>1, <1>12, OutsideKInv DEF HandlerCleanup, HandlerCleaned, TypeOK
<1>13. CASE Return(c)
  <2>1. cur[c] \in Fwd
    BY <1>13 DEF Return, TInv, Working
  <2> QED
    BY <1>13, <2>1, IdleKInv
<1>14. CASE CancelRun(c)
  <2>1. CASE cur[c] \in registered
    BY <1>1, <1>14, <2>1, OutsideKInv DEF CancelRun, TypeOK
  <2>2. CASE cur[c] \notin registered
    BY <1>1, <1>14, <2>2, OutsideKInv DEF CancelRun, TypeOK
  <2> QED
    BY <2>1, <2>2
<1> HIDE DEF Go, connVars, handlerVars, requestVars, tableVars, taskVars, lockVars
<1> QED
  BY <1>2, <1>3, <1>4, <1>5, <1>6, <1>7, <1>8, <1>9, <1>10, <1>11, <1>12, <1>13,
     <1>14 DEF HandlerStep

(* Every step preserves the invariant.                                     *)
LEMMA NextKInv == TInv /\ KInv /\ [Next]_vars => KInv'
<1> SUFFICES ASSUME TInv, KInv, [Next]_vars PROVE KInv'
  OBVIOUS
<1> USE DEF connVars, handlerVars, requestVars, tableVars, taskVars, lockVars
<1>1. TypeOK
  BY DEF TInv
<1>2. CASE UNCHANGED vars
  BY <1>2, OutsideKInv DEF vars
<1>3. ASSUME NEW c \in Conn, HandlerStep(c) PROVE KInv'
  BY <1>3, HandlerKInv
<1>4. ASSUME NEW c \in Conn, CleanUpStep(c) PROVE KInv'
  <2>1. ASSUME NEW f \in Fwd, RunCleanup(c, f) PROVE KInv'
    BY <2>1, OutsideKInv DEF RunCleanup
  <2>2. CASE RanCleanup(c)
    BY <2>2, OutsideKInv DEF RanCleanup
  <2>3. CASE CloseChannel(c) \/ CloseConn(c)
    BY <1>1, <2>3, OutsideKInv DEF CloseChannel, CloseConn, TypeOK
  <2> QED
    BY <1>4, <2>1, <2>2, <2>3 DEF CleanUpStep
<1>5. ASSUME NEW f \in Fwd, CleanupStep(f) \/ WatcherFires(f) \/ AcceptLoopExit(f)
      PROVE  KInv'
  BY <1>5, OutsideKInv DEF CleanupStep, Unlist, OnCleanup, WatcherFires, AcceptLoopExit
<1>6. CASE Environment
  <2>1. ASSUME NEW c \in Conn, NEW f \in Fwd, NEW t \in Target, Request(c, f, t)
        PROVE  KInv'
    BY <2>1, RequestKInv
  <2>2. ASSUME NEW c \in Conn, NEW f \in Fwd, Cancel(c, f) PROVE KInv'
    BY <2>2, IdleKInv
  <2>3. ASSUME NEW c \in Conn, CleanUp(c) PROVE KInv'
    BY <1>1, <2>3, OutsideKInv DEF CleanUp, BeginCleanUp, TypeOK
  <2>4. ASSUME NEW c \in Conn, SetForceConnect(c) PROVE KInv'
    BY <2>4, OutsideKInv DEF SetForceConnect
  <2>5. ASSUME NEW f \in Fwd, HandleDisconnectRoute(f) PROVE KInv'
    BY <2>5, OutsideKInv DEF HandleDisconnectRoute
  <2> QED
    BY <1>6, <2>1, <2>2, <2>3, <2>4, <2>5 DEF Environment
<1> QED
  BY <1>2, <1>3, <1>4, <1>5, <1>6 DEF Next, ServerStep

(* A takeover by force-connect closes every connection that took the same  *)
(* target over before it lists its own forward.                            *)
THEOREM TakeoverSafe == Spec => []TakeoverExclusive
<1>1. KInv => TakeoverExclusive
  BY DEF KInv
<1> QED
  BY <1>1, InitTInv, NextTInv, InitKInv, NextKInv, PTL DEF Spec
=============================================================================
