---------------------------- MODULE TCPForwards ----------------------------
(***************************************************************************)
(* TCP forwards and their SNI-proxied variant: the choice of a port, the   *)
(* listeners and balancers that forwards share, and their teardown.        *)
(*                                                                         *)
(* sshmuxer/tcphandler.go, the TCP cases of sshmuxer/requests.go,          *)
(* GetOpenPort, GetOpenSNIHost, CheckPort, GetRandomPortInRange and        *)
(* isTCPHolderStale of utils/utils.go, TCPHolder of utils/state.go.        *)
(*                                                                         *)
(* A set-up is one step: it runs under bindAllocationLock from GetOpenPort *)
(* to the registration of the holder (module ForwardLifecycle has the      *)
(* request handler around it). A holder and a balancer are identified with *)
(* the forward whose set-up created them. All forwards use one bind        *)
(* address, and a port-bind-range is configured.                           *)
(***************************************************************************)
EXTENDS Naturals

CONSTANTS
  Fwd,             \* TCP forwards
  Root,            \* the holder of the HTTPS listener (--sni-proxy-https)
  NoHolder,        \* nil
  Port,            \* TCP ports
  Range,           \* the ports of --port-bind-range; 0 may be one of them
  Asked,           \* Asked[f]: the ports f may ask for
  Foreign,         \* ports other programs listen on
  HttpsPort,       \* the port of the HTTPS holder, 0: there is none
  Name,            \* names of balancers
  Plain,           \* "": the balancer of a holder that is no SNI proxy
  RootName,        \* what GetOpenSNIHost makes of "": "." and the domain
  NameOf,          \* the name of a forward on an SNI holder
  RandomName,      \* names getRandomHost can produce
  Banned,          \* bannedSubdomainList and, if refused, wildcards
  Sni,             \* forwards with sni-proxy=true
  ForceConnect,    \* forwards with force-connect=true
  Configs          \* settings the configuration file may have

Port0   == Port \cup {0}
Holder  == Fwd \cup {Root}
Holder0 == Holder \cup {NoHolder}

(* The flags bind-random-ports, force-requested-ports, bind-random-        *)
(* subdomains, force-requested-subdomains, tcp-load-balancer and           *)
(* sni-load-balancer: viper.WatchConfig rereads them at run time.          *)
Settings == [bindRandomPorts : BOOLEAN, forceRequestedPorts : BOOLEAN,
             bindRandomHosts : BOOLEAN, forceRequestedHosts : BOOLEAN,
             tcpLoadBalancer : BOOLEAN, sniLoadBalancer : BOOLEAN]

ASSUME HolderAssumption == Root \notin Fwd /\ NoHolder \notin Holder
ASSUME PortAssumption ==
  /\ Port \subseteq Nat \ {0}
  /\ Range \subseteq Port0 /\ Foreign \subseteq Port
  /\ HttpsPort \in Port0 \ Foreign
  /\ Asked \in [Fwd -> SUBSET Port0]
ASSUME TCPNameAssumption ==
  /\ {Plain, RootName} \subseteq Name /\ RandomName \subseteq Name
  /\ Banned \subseteq Name
  /\ NameOf \in [Fwd -> Name \ {Plain}] /\ RootName # Plain /\ Plain \notin RandomName
ASSUME TCPFlagAssumption ==
  /\ Sni \subseteq Fwd /\ ForceConnect \subseteq Fwd
  /\ Configs # {} /\ Configs \subseteq Settings

VARIABLES
  conf,        \* the settings in force
  stage,       \* stage[f]: how far the life of forward f has come
  want,        \* want[f]: the requested port
  tH,          \* tH[f]: the holder captured by its onCleanup, if any
  bal,         \* bal[f]: the balancer captured by it
  balName,     \* balName[f]: the name captured by it
  table,       \* state.TCPListeners (and the same keys of state.Listeners)
  key,         \* key[h]: the port in TCPHost of h
  sniProxy,    \* sniProxy[h]: h.SNIProxy
  open,        \* open[h]: h.Listener is open
  balancers    \* balancers[h]: h.Balancers

vars == <<conf, stage, want, tH, bal, balName, table, key, sniProxy, open, balancers>>

(* A forward is in state.Listeners from listed to refused or bound.        *)
Stages == {"none", "listed", "bound", "refused", "unlisted", "cleaned"}

TypeOK ==
  /\ conf \in Settings
  /\ stage \in [Fwd -> Stages]
  /\ want \in [Fwd -> Port0]
  /\ tH \in [Fwd -> Holder0]
  /\ bal \in [Fwd -> Holder0]
  /\ balName \in [Fwd -> Name]
  /\ table \in [Port0 -> Holder0]
  /\ key \in [Holder -> Port0]
  /\ sniProxy \in [Holder -> BOOLEAN]
  /\ open \in [Holder -> BOOLEAN]
  /\ balancers \in [Holder -> [Name -> Holder0]]

(* The HTTPS holder, if there is one, is made at start-up. Its one         *)
(* balancer has a sentinel for a server.                                   *)
Init ==
  /\ conf \in Configs
  /\ stage = [f \in Fwd |-> "none"]
  /\ want = [f \in Fwd |-> 0]
  /\ tH = [f \in Fwd |-> NoHolder]
  /\ bal = [f \in Fwd |-> NoHolder]
  /\ balName = [f \in Fwd |-> Plain]
  /\ table = [p \in Port0 |-> IF p # 0 /\ p = HttpsPort THEN Root ELSE NoHolder]
  /\ key = [h \in Holder |-> IF h = Root THEN HttpsPort ELSE 0]
  /\ sniProxy = [h \in Holder |-> h = Root]
  /\ open = [h \in Holder |-> h = Root /\ HttpsPort # 0]
  /\ balancers = [h \in Holder |-> [n \in Name |->
                    IF h = Root /\ n = Plain THEN Root ELSE NoHolder]]

-----------------------------------------------------------------------------
(* Helpers.                                                                *)

(* Forwards of h that still have a listener.                               *)
Active(h) == {f \in Fwd : stage[f] = "bound" /\ tH[f] = h}

(* isTCPHolderStale. The sentinel of the HTTPS holder is no listener.      *)
Stale(h) == Active(h) = {}

(* b.Servers(), apart from that sentinel.                                  *)
Servers(b) == {f \in Fwd : stage[f] \in {"bound", "unlisted"} /\ bal[f] = b}

(* isRoundRobinHolderActive.                                               *)
ActiveBalancer(b) == \E f \in Servers(b) : stage[f] = "bound"

Occupied(p) == p \in Foreign \/ \E h \in Holder : open[h] /\ key[h] = p

(* The holder in the table once a stale one has been purged.               *)
Entry(p) == IF table[p] = NoHolder \/ Stale(table[p]) THEN NoHolder ELSE table[p]

(* The purge of a stale holder closes its listener.                        *)
Purged(p) == table[p] # NoHolder /\ Stale(table[p])
OpenPurged(p) == [h \in Holder |-> open[h] /\ ~(Purged(p) /\ h = table[p])]
TablePurged(p) == [table EXCEPT ![p] = Entry(p)]

ForcingPort(f) == conf.forceRequestedPorts \/ f \in ForceConnect
ForcingHost(f) == conf.forceRequestedHosts \/ f \in ForceConnect
Sharing(f) ==
  f \notin ForceConnect /\ IF f \in Sni THEN conf.sniLoadBalancer ELSE conf.tcpLoadBalancer

(* Mutant: GetRandomPortInRange gives up at once.                          *)
RandomPortsGiveUp == {p \in Range : p = 0 \/ ~Occupied(p)} \cup {0}

(* GetRandomPortInRange: a port of the range that can be listened on; 0    *)
(* for no port, when a hundred attempts have failed or if 0 is in the      *)
(* range, since listening on port 0 always succeeds.                       *)
RandomPorts ==
  {p \in Range : p = 0 \/ ~Occupied(p)} \cup
  {p \in {0} : Range = {} \/ \E q \in Range \ {0} : Occupied(q)}

(* CheckPort fails, or the probe that is made for a balanced port.         *)
PortError(f) ==
  \/ want[f] \notin Range
  \/ /\ (conf.tcpLoadBalancer \/ conf.sniLoadBalancer) /\ f \notin ForceConnect
     /\ want[f] # 0 /\ table[want[f]] = NoHolder /\ Occupied(want[f])

FirstPorts(f) ==
  IF (conf.bindRandomPorts /\ f \notin ForceConnect) \/ PortError(f)
  THEN RandomPorts ELSE {want[f]}

(* What GetOpenPort can return: a port, and the holder to share it with.   *)
(* A port in use is given up for a random one, unless the requested one is *)
(* forced: then it is returned as it is.                                   *)
GetOpenPort(f) ==
  LET settled == {p \in FirstPorts(f) : Entry(p) = NoHolder \/ Sharing(f) \/ ForcingPort(f)}
  IN {[port |-> p, holder |-> IF Sharing(f) THEN Entry(p) ELSE NoHolder] : p \in settled}
       \cup {[port |-> p, holder |-> NoHolder] :
               p \in {q \in RandomPorts : settled # FirstPorts(f)}}

(* Listen succeeds once a stale holder has been purged.                    *)
CanListen(p) == p \notin Foreign /\ \A h \in Holder : key[h] = p => ~OpenPurged(p)[h]

(* Mutant: the answer "no port" is not refused (before B58).               *)
PortRefusedZero(f, r) ==
  \/ r.port # want[f] /\ ForcingPort(f)
  \/ r.holder = NoHolder /\ r.port # 0 /\ ~CanListen(r.port)

(* handleTCPListener refuses: no port, not the port that was asked for, or *)
(* nothing to share and Listen fails.                                      *)
PortRefused(f, r) ==
  \/ r.port = 0
  \/ r.port # want[f] /\ ForcingPort(f)
  \/ r.holder = NoHolder /\ ~CanListen(r.port)

(* The name of the balancer before GetOpenSNIHost has seen it.             *)
FirstName(f, proxied) ==
  IF proxied THEN NameOf[f] ELSE IF f \in Sni THEN RootName ELSE Plain

RenamedHost(f, proxied) ==
  f \in Sni /\ ((conf.bindRandomHosts /\ f \notin ForceConnect) \/ FirstName(f, proxied) \in Banned)

Names(f, proxied) ==
  IF RenamedHost(f, proxied) THEN RandomName ELSE {FirstName(f, proxied)}

(* The client insists on its name and would not get it.                    *)
NameRefused(f, proxied) ==
  /\ f \in Sni /\ ForcingHost(f)
  /\ RenamedHost(f, proxied) \/ FirstName(f, proxied) # NameOf[f]

-----------------------------------------------------------------------------
(* Set-up.                                                                 *)

(* The unix socket of a new forward is entered in state.Listeners.         *)
Request(f, p) ==
  /\ stage[f] = "none"
  /\ stage' = [stage EXCEPT ![f] = "listed"]
  /\ want' = [want EXCEPT ![f] = p]
  /\ UNCHANGED <<conf, tH, bal, balName, table, key, sniProxy, open, balancers>>

(* No port: a stale holder has been purged all the same.                   *)
RefusePort(f, r) ==
  /\ stage[f] = "listed"
  /\ PortRefused(f, r)
  /\ stage' = [stage EXCEPT ![f] = "refused"]
  /\ table' = TablePurged(r.port)
  /\ open' = OpenPurged(r.port)
  /\ UNCHANGED <<conf, want, tH, bal, balName, key, sniProxy, balancers>>

(* A new holder: Listen succeeds and it is entered in state.TCPListeners.  *)
NewHolder(f, p) ==
  /\ key' = [key EXCEPT ![f] = p]
  /\ sniProxy' = [sniProxy EXCEPT ![f] = f \in Sni]
  /\ table' = [TablePurged(p) EXCEPT ![p] = f]
  /\ open' = [OpenPurged(p) EXCEPT ![f] = TRUE]

(* The forward becomes a server of balancer b, which h has as n.           *)
AddServer(f, h, n, b) ==
  /\ stage' = [stage EXCEPT ![f] = "bound"]
  /\ tH' = [tH EXCEPT ![f] = h]
  /\ bal' = [bal EXCEPT ![f] = b]
  /\ balName' = [balName EXCEPT ![f] = n]
  /\ balancers' = [balancers EXCEPT ![h][n] = b]

BindNew(f, r, n) ==
  /\ stage[f] = "listed"
  /\ ~PortRefused(f, r) /\ r.holder = NoHolder
  /\ ~NameRefused(f, f \in Sni) /\ n \in Names(f, f \in Sni)
  /\ NewHolder(f, r.port)
  /\ AddServer(f, f, n, f)
  /\ UNCHANGED <<conf, want>>

(* The name is refused after the holder has been made: nobody undoes that. *)
RefuseNameNew(f, r) ==
  /\ stage[f] = "listed"
  /\ ~PortRefused(f, r) /\ r.holder = NoHolder
  /\ NameRefused(f, f \in Sni)
  /\ NewHolder(f, r.port)
  /\ stage' = [stage EXCEPT ![f] = "refused"]
  /\ UNCHANGED <<conf, want, tH, bal, balName, balancers>>

(* GetOpenSNIHost deletes a balancer without active servers; one that is   *)
(* active is shared, since the holder is shared only by load balancing.    *)
BalancerFor(f, h, n) ==
  IF balancers[h][n] # NoHolder /\ (f \notin Sni \/ ActiveBalancer(balancers[h][n]))
  THEN balancers[h][n] ELSE f

BindShared(f, r, n) ==
  LET h == r.holder IN
  /\ stage[f] = "listed"
  /\ ~PortRefused(f, r) /\ h # NoHolder
  /\ ~NameRefused(f, sniProxy[h]) /\ n \in Names(f, sniProxy[h])
  /\ AddServer(f, h, n, BalancerFor(f, h, n))
  /\ UNCHANGED <<conf, want, table, key, sniProxy, open>>

(* Nothing is left behind but the stale balancer of the name may be gone.  *)
RefuseNameShared(f, r, n) ==
  LET h == r.holder IN
  /\ stage[f] = "listed"
  /\ ~PortRefused(f, r) /\ h # NoHolder
  /\ NameRefused(f, sniProxy[h]) /\ n \in Names(f, sniProxy[h])
  /\ stage' = [stage EXCEPT ![f] = "refused"]
  /\ balancers' = [balancers EXCEPT ![h][n] = IF ActiveBalancer(@) THEN @ ELSE NoHolder]
  /\ UNCHANGED <<conf, want, tH, bal, balName, table, key, sniProxy, open>>

-----------------------------------------------------------------------------
(* Teardown.                                                               *)

(* lifecycle.cleanup takes the forward out of state.Listeners ...          *)
Unlist(f) ==
  /\ stage[f] \in {"bound", "refused"}
  /\ stage' = [stage EXCEPT ![f] = "unlisted"]
  /\ UNCHANGED <<conf, want, tH, bal, balName, table, key, sniProxy, open, balancers>>

(* Mutant: the holder goes with the first balancer that has no server.     *)
LeaveHolderFirst(f, h) ==
  LET last == Servers(bal[f]) = {f} IN
  /\ balancers' = IF last THEN [balancers EXCEPT ![h][balName[f]] = NoHolder] ELSE balancers
  /\ open' = [open EXCEPT ![h] = @ /\ ~last]
  /\ table' = [table EXCEPT ![key[h]] = IF last THEN NoHolder ELSE @]

(* Mutant: the entry of an empty holder stays in the table.                *)
LeaveHolderListed(f, h) ==
  LET last == Servers(bal[f]) = {f}
      rest == {n \in Name \ {balName[f]} : balancers[h][n] # NoHolder}
  IN /\ balancers' = IF last THEN [balancers EXCEPT ![h][balName[f]] = NoHolder] ELSE balancers
     /\ open' = [open EXCEPT ![h] = @ /\ ~(last /\ rest = {})]
     /\ UNCHANGED table

(* Mutant: the listener of an empty holder is not closed.                  *)
LeaveHolderOpen(f, h) ==
  LET last == Servers(bal[f]) = {f}
      rest == {n \in Name \ {balName[f]} : balancers[h][n] # NoHolder}
      close == last /\ rest = {}
  IN /\ balancers' = IF last THEN [balancers EXCEPT ![h][balName[f]] = NoHolder] ELSE balancers
     /\ table' = [table EXCEPT ![key[h]] = IF close THEN NoHolder ELSE @]
     /\ UNCHANGED open

(* The last server takes the balancer WITH ITS NAME along, the last        *)
(* balancer the listener and the table entry WITH ITS KEY.                 *)
LeaveHolder(f, h) ==
  LET last == Servers(bal[f]) = {f}
      rest == {n \in Name \ {balName[f]} : balancers[h][n] # NoHolder}
      close == last /\ rest = {}
  IN /\ balancers' = IF last THEN [balancers EXCEPT ![h][balName[f]] = NoHolder] ELSE balancers
     /\ open' = [open EXCEPT ![h] = @ /\ ~close]
     /\ table' = [table EXCEPT ![key[h]] = IF close THEN NoHolder ELSE @]

(* ... and runs its onCleanup later, under bindAllocationLock.             *)
OnCleanup(f) ==
  /\ stage[f] = "unlisted"
  /\ stage' = [stage EXCEPT ![f] = "cleaned"]
  /\ IF tH[f] = NoHolder THEN UNCHANGED <<table, open, balancers>> ELSE LeaveHolder(f, tH[f])
  /\ UNCHANGED <<conf, want, tH, bal, balName, key, sniProxy>>

(* The configuration file is changed and reread.                           *)
Reload(c) ==
  /\ conf' = c
  /\ UNCHANGED <<stage, want, tH, bal, balName, table, key, sniProxy, open, balancers>>

-----------------------------------------------------------------------------
(* The set-up of a forward, with what GetOpenPort and GetOpenSNIHost give. *)
SetUp(f, r) ==
  \/ RefusePort(f, r) \/ RefuseNameNew(f, r)
  \/ \E n \in Name : BindNew(f, r, n) \/ BindShared(f, r, n) \/ RefuseNameShared(f, r, n)

Next ==
  \/ \E f \in Fwd :
       \/ \E p \in Asked[f] : Request(f, p)
       \/ stage[f] = "listed" /\ \E r \in GetOpenPort(f) : SetUp(f, r)
       \/ Unlist(f) \/ OnCleanup(f)
  \/ \E c \in Configs : Reload(c)

Spec == Init /\ [][Next]_vars

-----------------------------------------------------------------------------
(* Properties.                                                             *)

(* state.TCPListeners never lists a listener that has been closed, so that *)
(* a forward that shares a port finds somebody accepting on it.            *)
ListedPortsAreOpen ==
  \A p \in Port0 : table[p] # NoHolder => open[table[p]] /\ key[table[p]] = p

(* The ports in use are allowed by --port-bind-range, however they were    *)
(* chosen; the HTTPS port is not chosen by a client.                       *)
PortPolicy == \A f \in Fwd : open[f] => key[f] \in Range \ {0}

(* A port is given back with the last forward that uses it. The exception  *)
(* is the holder of a forward whose name was refused.                      *)
PortsAreReturned ==
  \A h \in Fwd : open[h] =>
    \/ \E f \in Fwd : stage[f] \in {"bound", "unlisted"} /\ tH[f] = h
    \/ tH[h] = NoHolder

(* A connection to the port, with the name of f if the holder looks at     *)
(* names, gets to the balancer of f.                                       *)
Reachable(f) ==
  LET h == tH[f] IN
  open[h] /\ balancers[h][IF sniProxy[h] THEN balName[f] ELSE Plain] = bal[f]

(* A forward that is up can be reached, with two exceptions: SNI forwards  *)
(* that share the port of a plain one, whose holder does not look at       *)
(* names; and forwards displaced by an earlier one of the same name on the *)
(* same holder, whose balancer was purged as stale before its onCleanup.   *)
UnreachableOnlyIfDisplaced ==
  \A f \in Fwd : stage[f] = "bound" /\ ~Reachable(f) =>
    \/ f \in Sni /\ ~sniProxy[tH[f]]
    \/ \E g \in Fwd : /\ stage[g] = "cleaned"
                      /\ tH[g] = tH[f] /\ balName[g] = balName[f] /\ bal[g] # bal[f]

(* handleTCPListener's comment B58: GetOpenPort yields no port "only when  *)
(* the range is exhausted or malformed". At least, a forward without       *)
(* special wishes is not refused while the whole range is free.            *)
RefusedOnlyIfBusy ==
  [][\A f \in Fwd \ (Sni \cup ForceConnect) :
       stage[f] = "listed" /\ stage'[f] = "refused" /\ ~conf.forceRequestedPorts
       => \E p \in Range : Occupied(p)]_vars

(* --sni-proxy-https: the HTTPS port can be shared by SNI forwards; the    *)
(* HTTPS server keeps its listener.                                        *)
HttpsKeepsListening == HttpsPort # 0 => open[Root]
=============================================================================
