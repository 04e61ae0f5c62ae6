------------------------- MODULE TCPForwardsProofs -------------------------
(***************************************************************************)
(* The safety of TCPForwards for every set of forwards, ports, names and   *)
(* settings. The properties are inductive only together with what relates  *)
(* forwards, holders and balancers: a forward not yet set up is unknown to *)
(* all tables (Fresh), a balancer has one home (OneHome) and servers       *)
(* (Backed), and a forward that is up stands where its onCleanup will look *)
(* for it (Standing).                                                      *)
(***************************************************************************)
EXTENDS TCPForwards, TLAPS

(* The forward has not been set up yet; it is set up and has a holder.     *)
Pending(f) == stage[f] \in {"none", "listed"}
Up(f) == stage[f] \in {"bound", "unlisted"} /\ tH[f] # NoHolder

(* Nobody has heard of a forward that has not been set up.                 *)
Unknown(f) ==
  /\ ~open[f]
  /\ \A n \in Name : balancers[f][n] = NoHolder
  /\ \A g \in Fwd : tH[g] # f /\ bal[g] # f
  /\ \A p \in Port0 : table[p] # f
  /\ \A h \in Holder, n \in Name : balancers[h][n] # f

Fresh == \A f \in Fwd : Pending(f) => Unknown(f)

(* Only a forward that was set up has a holder, and it has a balancer too. *)
(* No forward has the HTTPS holder: it is purged whenever it is looked at. *)
Captured ==
  \A f \in Fwd :
    /\ stage[f] \in {"none", "listed", "refused"} => tH[f] = NoHolder
    /\ stage[f] = "bound" => tH[f] # NoHolder
    /\ tH[f] \in Fwd \cup {NoHolder} /\ bal[f] \in Fwd \cup {NoHolder}
    /\ tH[f] # NoHolder <=> bal[f] # NoHolder

(* A balancer belongs to one holder and has one name.                      *)
OneHome ==
  \A f, g \in Fwd : bal[f] = bal[g] /\ bal[f] # NoHolder
    => tH[f] = tH[g] /\ balName[f] = balName[g]

(* The balancers of a holder have servers.                                 *)
Backed ==
  \A h \in Fwd, n \in Name : balancers[h][n] # NoHolder =>
    \E f \in Fwd : Up(f) /\ tH[f] = h /\ balName[f] = n /\ bal[f] = balancers[h][n]

Displaced(f) ==
  \E g \in Fwd : /\ stage[g] = "cleaned"
                 /\ tH[g] = tH[f] /\ balName[g] = balName[f] /\ bal[g] # bal[f]

(* A forward that is up is where its onCleanup will look for it, unless    *)
(* another one has been there before.                                      *)
Standing ==
  \A f \in Fwd : stage[f] = "bound" =>
    \/ open[tH[f]] /\ balancers[tH[f]][balName[f]] = bal[f]
    \/ Displaced(f)

(* A plain forward on a plain holder uses the nameless balancer.           *)
PlainName ==
  \A f \in Fwd : tH[f] # NoHolder /\ f \notin Sni /\ ~sniProxy[tH[f]] => balName[f] = Plain

IInv ==
  /\ TypeOK /\ ListedPortsAreOpen /\ PortPolicy /\ PortsAreReturned
  /\ Fresh /\ Captured /\ OneHome /\ Backed /\ Standing /\ PlainName

-----------------------------------------------------------------------------
(* What GetOpenPort returns.                                               *)

(* A port comes from the range or is 0; a holder is one of the table that  *)
(* is not stale.                                                           *)
LEMMA OpenPort ==
  ASSUME TypeOK, NEW f \in Fwd, NEW r \in GetOpenPort(f)
  PROVE  /\ r.port \in Port0 /\ r.port \in Range \cup {0}
         /\ r.holder # NoHolder => r.holder = table[r.port] /\ r.holder \in Holder
                                   /\ \E g \in Fwd : stage[g] = "bound" /\ tH[g] = r.holder
<1>1. RandomPorts \subseteq Range \cup {0}
  BY DEF RandomPorts
<1>2. FirstPorts(f) \subseteq Range \cup {0}
  BY <1>1 DEF FirstPorts, PortError
<1>3. \A p \in Port0 : Entry(p) # NoHolder =>
        /\ Entry(p) = table[p] /\ table[p] \in Holder
        /\ \E g \in Fwd : stage[g] = "bound" /\ tH[g] = table[p]
  BY DEF Entry, Stale, Active, TypeOK, Holder0
<1>4. Range \cup {0} \subseteq Port0
  BY PortAssumption DEF Port0
<1>5. CASE \E p \in FirstPorts(f) :
             r = [port |-> p, holder |-> IF Sharing(f) THEN Entry(p) ELSE NoHolder]
  <2>1. PICK p \in FirstPorts(f) :
          r = [port |-> p, holder |-> IF Sharing(f) THEN Entry(p) ELSE NoHolder]
    BY <1>5
  <2>2. r.port = p /\ r.holder \in {Entry(p), NoHolder}
    BY <2>1
  <2> QED
    BY <1>2, <1>3, <1>4, <2>2
<1>6. CASE \E p \in RandomPorts : r = [port |-> p, holder |-> NoHolder]
  BY <1>1, <1>4, <1>6
<1> QED
  BY <1>5, <1>6 DEF GetOpenPort

(* Purging a port closes and unlists a stale holder only.                  *)
LEMMA Purging ==
  ASSUME TypeOK, ListedPortsAreOpen, NEW p \in Port0
  PROVE  /\ TablePurged(p) \in [Port0 -> Holder0] /\ OpenPurged(p) \in [Holder -> BOOLEAN]
         /\ \A q \in Port0 : TablePurged(p)[q] \in {table[q], NoHolder}
         /\ \A h \in Holder : OpenPurged(p)[h] => open[h]
         /\ \A h \in Holder : open[h] /\ ~OpenPurged(p)[h] =>
              h = table[p] /\ \A f \in Fwd : stage[f] = "bound" => tH[f] # h
         /\ \A q \in Port0 : TablePurged(p)[q] # NoHolder =>
              OpenPurged(p)[TablePurged(p)[q]] /\ key[TablePurged(p)[q]] = q
<1>1. Entry(p) \in {table[p], NoHolder} /\ (Purged(p) => Entry(p) = NoHolder)
  BY DEF Entry, Purged
<1>2. TablePurged(p) = [q \in Port0 |-> IF q = p THEN Entry(p) ELSE table[q]]
  BY DEF TablePurged, TypeOK
<1>3. \A h \in Holder : OpenPurged(p)[h] = (open[h] /\ ~(Purged(p) /\ h = table[p]))
  BY DEF OpenPurged
<1>4. OpenPurged(p) \in [Holder -> BOOLEAN]
  BY DEF OpenPurged, TypeOK
<1>5. \A h \in Holder : open[h] /\ ~OpenPurged(p)[h] =>
        h = table[p] /\ \A f \in Fwd : stage[f] = "bound" => tH[f] # h
  BY <1>3 DEF Purged, Stale, Active
<1>6. \A q \in Port0 : TablePurged(p)[q] # NoHolder =>
        OpenPurged(p)[TablePurged(p)[q]] /\ key[TablePurged(p)[q]] = q
  <2> SUFFICES ASSUME NEW q \in Port0, TablePurged(p)[q] # NoHolder
               PROVE  OpenPurged(p)[TablePurged(p)[q]] /\ key[TablePurged(p)[q]] = q
    OBVIOUS
  <2>1. TablePurged(p)[q] = table[q] /\ table[q] \in Holder
    BY <1>1, <1>2 DEF TypeOK, Holder0
  <2>2. open[table[q]] /\ key[table[q]] = q
    BY <2>1 DEF ListedPortsAreOpen
  <2>3. Purged(p) => table[q] # table[p]
    <3>1. q = p => ~Purged(p)
      BY <1>1, <1>2
    <3>2. q # p /\ Purged(p) => key[table[p]] = p
      BY DEF Purged, ListedPortsAreOpen
    <3> QED
      BY <2>2, <3>1, <3>2
  <2> QED
    BY <1>3, <2>1, <2>2, <2>3
<1>7. TablePurged(p) \in [Port0 -> Holder0]
  BY <1>1, <1>2 DEF TypeOK, Holder0
<1> QED
  BY <1>1, <1>2, <1>3, <1>4, <1>5, <1>6, <1>7

(* The purge keeps the types.                                              *)
LEMMA PurgingTypes ==
  ASSUME TypeOK, NEW p \in Port0
  PROVE  TablePurged(p) \in [Port0 -> Holder0] /\ OpenPurged(p) \in [Holder -> BOOLEAN]
<1>1. Entry(p) \in Holder0
  BY DEF Entry, TypeOK, Holder0
<1>2. OpenPurged(p) \in [Holder -> BOOLEAN]
  BY DEF OpenPurged, TypeOK
<1> QED
  BY <1>1, <1>2 DEF TablePurged, TypeOK

-----------------------------------------------------------------------------
(* Type correctness.                                                       *)

(* The initial state is well typed, the HTTPS holder included.             *)
LEMMA InitType == Init => TypeOK
<1> SUFFICES ASSUME Init PROVE TypeOK
  OBVIOUS
<1>1. conf \in Settings
  BY TCPFlagAssumption DEF Init
<1>2. stage \in [Fwd -> Stages]
  BY DEF Init, Stages
<1>3. want \in [Fwd -> Port0] /\ key \in [Holder -> Port0]
  BY PortAssumption DEF Init, Port0
<1>4. tH \in [Fwd -> Holder0] /\ bal \in [Fwd -> Holder0] /\ table \in [Port0 -> Holder0]
  BY DEF Init, Holder0, Holder
<1>5. balName \in [Fwd -> Name]
  BY TCPNameAssumption DEF Init
<1>6. sniProxy \in [Holder -> BOOLEAN] /\ open \in [Holder -> BOOLEAN]
  BY DEF Init
<1>7. balancers \in [Holder -> [Name -> Holder0]]
  BY DEF Init, Holder0, Holder
<1> QED
  BY <1>1, <1>2, <1>3, <1>4, <1>5, <1>6, <1>7 DEF TypeOK

(* The set-up of a forward keeps the types.                                *)
LEMMA SetUpType ==
  ASSUME TypeOK, NEW f \in Fwd, NEW r \in GetOpenPort(f), SetUp(f, r)
  PROVE  TypeOK'
<1>1. r.port \in Port0 /\ (r.holder # NoHolder => r.holder \in Holder)
  BY OpenPort
<1>2. TablePurged(r.port) \in [Port0 -> Holder0] /\ OpenPurged(r.port) \in [Holder -> BOOLEAN]
  BY <1>1, PurgingTypes
<1>3. f \in Holder /\ f \in Holder0 /\ NoHolder \in Holder0
  BY DEF Holder, Holder0
<1>4. NewHolder(f, r.port) => /\ table' \in [Port0 -> Holder0] /\ key' \in [Holder -> Port0]
                              /\ sniProxy' \in [Holder -> BOOLEAN] /\ open' \in [Holder -> BOOLEAN]
  BY <1>1, <1>2, <1>3 DEF NewHolder, TypeOK
<1>5. ASSUME NEW h \in Holder, NEW n \in Name, NEW b \in Holder0, AddServer(f, h, n, b)
      PROVE  /\ stage' \in [Fwd -> Stages] /\ tH' \in [Fwd -> Holder0]
             /\ bal' \in [Fwd -> Holder0] /\ balName' \in [Fwd -> Name]
             /\ balancers' \in [Holder -> [Name -> Holder0]]
  BY <1>5 DEF AddServer, TypeOK, Stages, Holder0
<1>6. CASE RefusePort(f, r)
  BY <1>2, <1>6 DEF RefusePort, TypeOK, Stages
<1>7. CASE RefuseNameNew(f, r)
  BY <1>4, <1>7 DEF RefuseNameNew, TypeOK, Stages
<1>8. CASE \E n \in Name : BindNew(f, r, n)
  BY <1>3, <1>4, <1>5, <1>8 DEF BindNew, TypeOK
<1>9. CASE \E n \in Name : BindShared(f, r, n)
  <2>1. PICK n \in Name : BindShared(f, r, n)
    BY <1>9
  <2>2. r.holder \in Holder
    BY <1>1, <2>1 DEF BindShared
  <2>3. BalancerFor(f, r.holder, n) \in Holder0
    BY <1>3, <2>2 DEF BalancerFor, TypeOK
  <2> QED
    BY <1>5, <2>1, <2>2, <2>3 DEF BindShared, TypeOK
<1>10. CASE \E n \in Name : RefuseNameShared(f, r, n)
  <2>1. PICK n \in Name : RefuseNameShared(f, r, n)
    BY <1>10
  <2>2. r.holder \in Holder
    BY <1>1, <2>1 DEF RefuseNameShared
  <2>3. balancers' \in [Holder -> [Name -> Holder0]]
    BY <1>3, <2>1, <2>2 DEF RefuseNameShared, TypeOK
  <2> QED
    BY <2>1, <2>3 DEF RefuseNameShared, TypeOK, Stages
<1> QED
  BY <1>6, <1>7, <1>8, <1>9, <1>10 DEF SetUp

(* So does its teardown.                                                   *)
LEMMA OnCleanupType ==
  ASSUME TypeOK, NEW x \in Fwd, OnCleanup(x)
  PROVE  TypeOK'
<1>1. stage' \in [Fwd -> Stages]
  BY DEF OnCleanup, TypeOK, Stages
<1>2. NoHolder \in Holder0
  BY DEF Holder0
<1>3. CASE tH[x] = NoHolder
  BY <1>1, <1>3 DEF OnCleanup, TypeOK
<1>4. CASE tH[x] # NoHolder
  <2>1. tH[x] \in Holder /\ LeaveHolder(x, tH[x])
    BY <1>4 DEF OnCleanup, TypeOK, Holder0
  <2>2. /\ table' \in [Port0 -> Holder0] /\ open' \in [Holder -> BOOLEAN]
        /\ balancers' \in [Holder -> [Name -> Holder0]]
    BY <1>2, <2>1 DEF LeaveHolder, TypeOK
  <2> QED
    BY <1>1, <2>2 DEF OnCleanup, TypeOK
<1> QED
  BY <1>3, <1>4

(* Every step of requests.go, the allocator and a reload keeps the types.  *)
LEMMA NextType == TypeOK /\ [Next]_vars => TypeOK'
<1> SUFFICES ASSUME TypeOK, [Next]_vars PROVE TypeOK'
  OBVIOUS
<1>1. ASSUME NEW f \in Fwd, NEW p \in Asked[f], Request(f, p) PROVE TypeOK'
  <2>1. p \in Port0
    BY PortAssumption
  <2> QED
    BY <1>1, <2>1 DEF Request, TypeOK, Stages
<1>2. ASSUME NEW f \in Fwd, Unlist(f) PROVE TypeOK'
  BY <1>2 DEF Unlist, TypeOK, Stages
<1>3. ASSUME NEW c \in Configs, Reload(c) PROVE TypeOK'
  BY <1>3, TCPFlagAssumption DEF Reload, TypeOK
<1>4. CASE UNCHANGED vars
  BY <1>4 DEF vars, TypeOK
<1> QED
  BY <1>1, <1>2, <1>3, <1>4, SetUpType, OnCleanupType DEF Next

(* Every variable of a TCPForwards behaviour keeps its type: for one thing *)
(* the tables never refer to a port or holder that does not exist.         *)
THEOREM TCPTypeCorrect == Spec => []TypeOK
  BY InitType, NextType, PTL DEF Spec

-----------------------------------------------------------------------------
(* The inductive invariant.                                                *)

(* At start-up nothing is set up but the HTTPS holder.                     *)
LEMMA InitIInv == Init => IInv
<1> SUFFICES ASSUME Init PROVE IInv
  OBVIOUS
<1>1. TypeOK
  BY InitType
<1>2. Root \notin Fwd /\ NoHolder \notin Fwd /\ Root # NoHolder /\ Root \in Holder /\ Fwd \subseteq Holder
  BY HolderAssumption DEF Holder
<1>3. ListedPortsAreOpen
  BY <1>2 DEF ListedPortsAreOpen, Init
<1>4. PortPolicy /\ PortsAreReturned /\ Captured /\ OneHome /\ Standing /\ PlainName
  BY <1>2 DEF PortPolicy, PortsAreReturned, Captured, OneHome, Standing, PlainName, Init
<1>5. Fresh
  BY <1>2 DEF Fresh, Pending, Unknown, Init
<1>6. Backed
  BY <1>2 DEF Backed, Init
<1> QED
  BY <1>1, <1>3, <1>4, <1>5, <1>6 DEF IInv

(* Steps that only move a forward on which nothing depends.                *)
LEMMA RequestIInv ==
  ASSUME IInv, TypeOK', NEW f \in Fwd, NEW p, Request(f, p)
  PROVE  IInv'
<1> USE DEF Request
<1>1. stage \in [Fwd -> Stages]
  BY DEF IInv, TypeOK
<1>2. ListedPortsAreOpen' /\ PortPolicy' /\ OneHome' /\ PlainName'
  BY DEF IInv, ListedPortsAreOpen, PortPolicy, OneHome, PlainName
<1>3. PortsAreReturned'
  BY <1>1 DEF IInv, PortsAreReturned
<1>4. Fresh'
  BY <1>1 DEF IInv, Fresh, Pending, Unknown
<1>5. Captured'
  BY <1>1 DEF IInv, Captured
<1>6. Backed'
  BY <1>1 DEF IInv, Backed, Up
<1>7. Standing'
  BY <1>1 DEF IInv, Standing, Displaced
<1> QED
  BY <1>2, <1>3, <1>4, <1>5, <1>6, <1>7 DEF IInv

(* A forward that leaves state.Listeners still backs its balancer until    *)
(* its onCleanup has run.                                                  *)
LEMMA UnlistIInv ==
  ASSUME IInv, TypeOK', NEW f \in Fwd, Unlist(f)
  PROVE  IInv'
<1> USE DEF Unlist
<1>1. stage \in [Fwd -> Stages] /\ NoHolder \notin Fwd
  BY HolderAssumption DEF IInv, TypeOK, Holder
<1>2. ListedPortsAreOpen' /\ PortPolicy' /\ OneHome' /\ PlainName'
  BY DEF IInv, ListedPortsAreOpen, PortPolicy, OneHome, PlainName
<1>3. PortsAreReturned'
  BY <1>1 DEF IInv, PortsAreReturned
<1>4. Fresh'
  BY <1>1 DEF IInv, Fresh, Pending, Unknown
<1>5. Captured'
  BY <1>1 DEF IInv, Captured
<1>6. Backed'
  BY <1>1 DEF IInv, Backed, Up
<1>7. Standing'
  BY <1>1 DEF IInv, Standing, Displaced
<1> QED
  BY <1>2, <1>3, <1>4, <1>5, <1>6, <1>7 DEF IInv

(* A refused forward purges at most a stale holder.                        *)
LEMMA RefusePortIInv ==
  ASSUME IInv, TypeOK', NEW f \in Fwd, NEW r \in GetOpenPort(f), RefusePort(f, r)
  PROVE  IInv'
<1> USE DEF RefusePort
<1>1. stage \in [Fwd -> Stages] /\ NoHolder \notin Fwd /\ Fwd \subseteq Holder
  BY HolderAssumption DEF IInv, TypeOK, Holder
<1>2. /\ r.port \in Port0 /\ TypeOK /\ ListedPortsAreOpen
  BY OpenPort DEF IInv
<1>3. /\ \A q \in Port0 : table'[q] \in {table[q], NoHolder}
      /\ \A h \in Holder : open'[h] => open[h]
      /\ \A h \in Holder : open[h] /\ ~open'[h] =>
           \A g \in Fwd : stage[g] = "bound" => tH[g] # h
      /\ \A q \in Port0 : table'[q] # NoHolder => open'[table'[q]] /\ key[table'[q]] = q
  BY <1>2, Purging
<1>4. ListedPortsAreOpen'
  BY <1>3 DEF ListedPortsAreOpen
<1>5. PortPolicy' /\ OneHome' /\ PlainName'
  BY <1>1, <1>3 DEF IInv, PortPolicy, OneHome, PlainName
<1>6. PortsAreReturned'
  BY <1>1, <1>3 DEF IInv, PortsAreReturned
<1>7. Fresh'
  BY <1>1, <1>3 DEF IInv, Fresh, Pending, Unknown
<1>8. Captured'
  BY <1>1 DEF IInv, Captured
<1>9. Backed'
  BY <1>1 DEF IInv, Backed, Up
<1>10. Standing'
  BY <1>1, <1>3 DEF IInv, Standing, Displaced, Captured
<1> QED
  BY <1>4, <1>5, <1>6, <1>7, <1>8, <1>9, <1>10 DEF IInv

(* What a new holder does to the tables: the port was free, so nobody else *)
(* is touched but a stale holder.                                          *)
LEMMA NewHolderFacts ==
  ASSUME IInv, NEW f \in Fwd, NEW r \in GetOpenPort(f), stage[f] = "listed",
         ~PortRefused(f, r), NewHolder(f, r.port)
  PROVE  /\ ListedPortsAreOpen' /\ PortPolicy'
         /\ open'[f] /\ \A h \in Holder \ {f} : open'[h] => open[h]
         /\ \A h \in Holder \ {f} : open[h] /\ ~open'[h] =>
              \A g \in Fwd : stage[g] = "bound" => tH[g] # h
         /\ \A p \in Port0 : table'[p] \in {table[p], NoHolder, f}
         /\ \A h \in Holder \ {f} : sniProxy'[h] = sniProxy[h]
         /\ sniProxy'[f] = (f \in Sni)
<1>1. /\ r.port \in Port0 /\ r.port \in Range \cup {0} /\ r.port # 0
      /\ TypeOK /\ ListedPortsAreOpen /\ Fresh
  BY OpenPort DEF IInv, PortRefused
<1>2. f \in Holder /\ Fwd \subseteq Holder /\ NoHolder \notin Holder
  BY HolderAssumption DEF Holder
<1>3. Unknown(f)
  BY <1>1 DEF Fresh, Pending
<1> DEFINE T == TablePurged(r.port)
           O == OpenPurged(r.port)
<1>4. /\ T \in [Port0 -> Holder0] /\ O \in [Holder -> BOOLEAN]
      /\ \A q \in Port0 : T[q] \in {table[q], NoHolder}
      /\ \A h \in Holder : O[h] => open[h]
      /\ \A h \in Holder : open[h] /\ ~O[h] => \A g \in Fwd : stage[g] = "bound" => tH[g] # h
      /\ \A q \in Port0 : T[q] # NoHolder => O[T[q]] /\ key[T[q]] = q
  BY <1>1, Purging
<1>5. /\ table' = [T EXCEPT ![r.port] = f] /\ open' = [O EXCEPT ![f] = TRUE]
      /\ key' = [key EXCEPT ![f] = r.port] /\ sniProxy' = [sniProxy EXCEPT ![f] = f \in Sni]
      /\ key \in [Holder -> Port0] /\ sniProxy \in [Holder -> BOOLEAN]
  BY <1>1 DEF NewHolder, TypeOK
<1> HIDE DEF T, O
<1>6. ListedPortsAreOpen'
  <2> SUFFICES ASSUME NEW q \in Port0, table'[q] # NoHolder
               PROVE  open'[table'[q]] /\ key'[table'[q]] = q
    BY DEF ListedPortsAreOpen
  <2>1. CASE q = r.port
    BY <1>1, <1>2, <1>4, <1>5, <2>1
  <2>2. CASE q # r.port
    <3>1. table'[q] = T[q] /\ T[q] = table[q] /\ T[q] \in Holder
      BY <1>4, <1>5, <2>2 DEF Holder0
    <3>2. T[q] # f
      BY <1>3, <3>1 DEF Unknown
    <3> QED
      BY <1>4, <1>5, <3>1, <3>2
  <2> QED
    BY <2>1, <2>2
<1>7. PortPolicy'
  BY <1>1, <1>2, <1>4, <1>5 DEF PortPolicy, IInv
<1> QED
  BY <1>1, <1>2, <1>4, <1>5, <1>6, <1>7

(* A forward with a new holder is the only one on it.                      *)
LEMMA BindNewIInv ==
  ASSUME IInv, TypeOK', NEW f \in Fwd, NEW r \in GetOpenPort(f), NEW n \in Name,
         BindNew(f, r, n)
  PROVE  IInv'
<1>1. /\ stage \in [Fwd -> Stages] /\ tH \in [Fwd -> Holder0] /\ bal \in [Fwd -> Holder0]
      /\ balName \in [Fwd -> Name] /\ balancers \in [Holder -> [Name -> Holder0]]
      /\ NoHolder \notin Fwd /\ Fwd \subseteq Holder
  BY HolderAssumption DEF IInv, TypeOK, Holder
<1>2. /\ stage[f] = "listed" /\ NewHolder(f, r.port) /\ ~PortRefused(f, r)
      /\ stage' = [stage EXCEPT ![f] = "bound"] /\ tH' = [tH EXCEPT ![f] = f]
      /\ bal' = [bal EXCEPT ![f] = f] /\ balName' = [balName EXCEPT ![f] = n]
      /\ balancers' = [balancers EXCEPT ![f][n] = f]
  BY DEF BindNew, AddServer
<1>3. /\ ListedPortsAreOpen' /\ PortPolicy'
      /\ open'[f] /\ \A h \in Holder \ {f} : open'[h] => open[h]
      /\ \A h \in Holder \ {f} : open[h] /\ ~open'[h] =>
           \A g \in Fwd : stage[g] = "bound" => tH[g] # h
      /\ \A p \in Port0 : table'[p] \in {table[p], NoHolder, f}
      /\ \A h \in Holder \ {f} : sniProxy'[h] = sniProxy[h]
      /\ sniProxy'[f] = (f \in Sni)
  BY <1>2, NewHolderFacts
<1>4. Unknown(f)
  BY <1>2 DEF IInv, Fresh, Pending
<1>5. PortsAreReturned'
  BY <1>1, <1>2, <1>3 DEF IInv, PortsAreReturned
<1>6. Fresh'
  <2> SUFFICES ASSUME NEW g \in Fwd, Pending(g)' PROVE Unknown(g)'
    BY DEF Fresh
  <2>1. g # f /\ Unknown(g)
    BY <1>1, <1>2 DEF Pending, IInv, Fresh
  <2>2. ~open'[g] /\ \A p \in Port0 : table'[p] # g
    BY <1>1, <1>3, <2>1 DEF Unknown
  <2>3. \A x \in Fwd : tH'[x] # g /\ bal'[x] # g
    BY <1>1, <1>2, <2>1 DEF Unknown
  <2>4. (\A m \in Name : balancers'[g][m] = NoHolder)
        /\ \A h \in Holder, m \in Name : balancers'[h][m] # g
    BY <1>1, <1>2, <2>1 DEF Unknown
  <2> QED
    BY <2>2, <2>3, <2>4 DEF Unknown
<1>7. Captured'
  BY <1>1, <1>2 DEF IInv, Captured
<1>8. OneHome'
  BY <1>1, <1>2, <1>4 DEF IInv, OneHome, Unknown
<1>9. Backed'
  <2> SUFFICES ASSUME NEW h \in Fwd, NEW m \in Name, balancers'[h][m] # NoHolder
               PROVE  \E g \in Fwd : /\ Up(g)' /\ tH'[g] = h /\ balName'[g] = m
                                     /\ bal'[g] = balancers'[h][m]
    BY DEF Backed
  <2>1. CASE h = f
    <3>1. m = n /\ balancers'[h][m] = f
      BY <1>1, <1>2, <1>4, <2>1 DEF Unknown
    <3> QED
      BY <1>1, <1>2, <2>1, <3>1 DEF Up
  <2>2. CASE h # f
    <3>1. balancers'[h][m] = balancers[h][m]
      BY <1>1, <1>2, <2>2
    <3>2. PICK g \in Fwd : Up(g) /\ tH[g] = h /\ balName[g] = m /\ bal[g] = balancers[h][m]
      BY <3>1 DEF IInv, Backed
    <3> QED
      BY <1>1, <1>2, <3>1, <3>2 DEF Up
  <2> QED
    BY <2>1, <2>2
<1>10. Standing'
  <2> SUFFICES ASSUME NEW g \in Fwd, stage'[g] = "bound"
               PROVE  \/ open'[tH'[g]] /\ balancers'[tH'[g]][balName'[g]] = bal'[g]
                      \/ Displaced(g)'
    BY DEF Standing
  <2>1. CASE g = f
    BY <1>1, <1>2, <1>3, <2>1
  <2>2. CASE g # f
    <3>1. /\ stage[g] = "bound" /\ tH[g] \in Fwd \ {f}
          /\ tH'[g] = tH[g] /\ bal'[g] = bal[g] /\ balName'[g] = balName[g]
      BY <1>1, <1>2, <1>4, <2>2 DEF IInv, Captured, Unknown
    <3>2. CASE open[tH[g]] /\ balancers[tH[g]][balName[g]] = bal[g]
      BY <1>1, <1>2, <1>3, <3>1, <3>2
    <3>3. CASE Displaced(g)
      BY <1>1, <1>2, <3>1, <3>3 DEF Displaced
    <3> QED
      BY <3>1, <3>2, <3>3 DEF IInv, Standing
  <2> QED
    BY <2>1, <2>2
<1>11. PlainName'
  <2>1. f \notin Sni => n = Plain
    BY DEF BindNew, Names, RenamedHost, FirstName
  <2> QED
    BY <1>1, <1>2, <1>3, <1>4, <2>1 DEF IInv, PlainName, Captured, Unknown
<1> QED
  BY <1>3, <1>5, <1>6, <1>7, <1>8, <1>9, <1>10, <1>11 DEF IInv

(* The holder that a refused name leaves behind has no forward.            *)
LEMMA RefuseNameNewIInv ==
  ASSUME IInv, TypeOK', NEW f \in Fwd, NEW r \in GetOpenPort(f), RefuseNameNew(f, r)
  PROVE  IInv'
<1>1. stage \in [Fwd -> Stages] /\ NoHolder \notin Fwd /\ Fwd \subseteq Holder
  BY HolderAssumption DEF IInv, TypeOK, Holder
<1>2. /\ stage[f] = "listed" /\ NewHolder(f, r.port) /\ ~PortRefused(f, r)
      /\ stage' = [stage EXCEPT ![f] = "refused"]
      /\ UNCHANGED <<tH, bal, balName, balancers>>
  BY DEF RefuseNameNew
<1>3. /\ ListedPortsAreOpen' /\ PortPolicy'
      /\ open'[f] /\ \A h \in Holder \ {f} : open'[h] => open[h]
      /\ \A h \in Holder \ {f} : open[h] /\ ~open'[h] =>
           \A g \in Fwd : stage[g] = "bound" => tH[g] # h
      /\ \A p \in Port0 : table'[p] \in {table[p], NoHolder, f}
      /\ \A h \in Holder \ {f} : sniProxy'[h] = sniProxy[h]
  BY <1>2, NewHolderFacts
<1>4. Unknown(f) /\ tH[f] = NoHolder
  BY <1>2 DEF IInv, Fresh, Pending, Captured
<1>5. PortsAreReturned'
  BY <1>1, <1>2, <1>3, <1>4 DEF IInv, PortsAreReturned
<1>6. Fresh'
  BY <1>1, <1>2, <1>3 DEF IInv, Fresh, Pending, Unknown
<1>7. Captured' /\ OneHome'
  BY <1>1, <1>2, <1>4 DEF IInv, Captured, OneHome
<1>8. Backed'
  BY <1>1, <1>2 DEF IInv, Backed, Up
<1>9. Standing'
  BY <1>1, <1>2, <1>3, <1>4 DEF IInv, Standing, Displaced, Captured, Unknown
<1>10. PlainName'
  BY <1>1, <1>2, <1>3, <1>4 DEF IInv, PlainName, Captured, Unknown
<1> QED
  BY <1>3, <1>5, <1>6, <1>7, <1>8, <1>9, <1>10 DEF IInv

(* A holder that is shared is in the table, and a forward of it is up.     *)
LEMMA SharedFacts ==
  ASSUME IInv, NEW f \in Fwd, NEW r \in GetOpenPort(f), r.holder # NoHolder
  PROVE  /\ r.holder \in Fwd /\ r.holder \in Holder /\ open[r.holder]
         /\ \A g \in Fwd : Pending(g) => r.holder # g
<1>1. /\ r.port \in Port0 /\ r.holder = table[r.port] /\ r.holder \in Holder
      /\ \E g \in Fwd : stage[g] = "bound" /\ tH[g] = r.holder
  BY OpenPort DEF IInv
<1>2. open[r.holder]
  BY <1>1 DEF IInv, ListedPortsAreOpen
<1>3. r.holder \in Fwd
  BY <1>1 DEF IInv, Captured
<1>4. \A g \in Fwd : Pending(g) => r.holder # g
  BY <1>1 DEF IInv, Fresh, Unknown
<1> QED
  BY <1>1, <1>2, <1>3, <1>4

(* A forward that is up and stands keeps its balancer from being replaced. *)
LEMMA BoundIsActive ==
  ASSUME NEW g \in Fwd, stage[g] = "bound"
  PROVE  ActiveBalancer(bal[g])
  BY DEF ActiveBalancer, Servers

(* A forward that joins a holder does not push out one that is up there.   *)
LEMMA BindSharedIInv ==
  ASSUME IInv, TypeOK', NEW f \in Fwd, NEW r \in GetOpenPort(f), NEW n \in Name,
         BindShared(f, r, n)
  PROVE  IInv'
<1> DEFINE h == r.holder
           b == BalancerFor(f, h, n)
<1>1. /\ stage \in [Fwd -> Stages] /\ tH \in [Fwd -> Holder0] /\ bal \in [Fwd -> Holder0]
      /\ balName \in [Fwd -> Name] /\ balancers \in [Holder -> [Name -> Holder0]]
      /\ NoHolder \notin Fwd /\ Fwd \subseteq Holder
  BY HolderAssumption DEF IInv, TypeOK, Holder
<1>2. /\ stage[f] = "listed" /\ h # NoHolder
      /\ stage' = [stage EXCEPT ![f] = "bound"] /\ tH' = [tH EXCEPT ![f] = h]
      /\ bal' = [bal EXCEPT ![f] = b] /\ balName' = [balName EXCEPT ![f] = n]
      /\ balancers' = [balancers EXCEPT ![h][n] = b]
      /\ UNCHANGED <<table, key, sniProxy, open>>
  BY DEF BindShared, AddServer
<1>3. h \in Fwd /\ h \in Holder /\ open[h] /\ \A g \in Fwd : Pending(g) => h # g
  BY <1>2, SharedFacts
<1>4. Unknown(f)
  BY <1>2 DEF IInv, Fresh, Pending
<1>5. /\ b = f \/ (b = balancers[h][n] /\ b # NoHolder)
      /\ balancers[h][n] # NoHolder /\ (f \notin Sni \/ ActiveBalancer(balancers[h][n]))
           => b = balancers[h][n]
  BY DEF BalancerFor
<1>6. n = Plain \/ f \in Sni \/ sniProxy[h]
  BY DEF BindShared, Names, RenamedHost, FirstName
<1> HIDE DEF h, b
<1>7. b # f => \E x \in Fwd : Up(x) /\ tH[x] = h /\ balName[x] = n /\ bal[x] = b
  BY <1>3, <1>5 DEF IInv, Backed
<1>8. b \in Fwd
  BY <1>5, <1>7 DEF IInv, Captured, Up
<1>9. ListedPortsAreOpen' /\ PortPolicy'
  BY <1>2 DEF IInv, ListedPortsAreOpen, PortPolicy
<1>10. PortsAreReturned'
  BY <1>1, <1>2, <1>4 DEF IInv, PortsAreReturned, Unknown
<1>11. Fresh'
  <2> SUFFICES ASSUME NEW g \in Fwd, Pending(g)' PROVE Unknown(g)'
    BY DEF Fresh
  <2>1. g # f /\ Pending(g) /\ Unknown(g) /\ g # h
    BY <1>1, <1>2, <1>3 DEF Pending, IInv, Fresh
  <2>2. ~open'[g] /\ \A p \in Port0 : table'[p] # g
    BY <1>2, <2>1 DEF Unknown
  <2>3. b # g
    BY <1>3, <1>5, <2>1 DEF Unknown
  <2>4. \A x \in Fwd : tH'[x] # g /\ bal'[x] # g
    BY <1>1, <1>2, <2>1, <2>3 DEF Unknown
  <2>5. (\A m \in Name : balancers'[g][m] = NoHolder)
        /\ \A k \in Holder, m \in Name : balancers'[k][m] # g
    BY <1>1, <1>2, <1>3, <2>1, <2>3 DEF Unknown
  <2> QED
    BY <2>2, <2>4, <2>5 DEF Unknown
<1>12. Captured'
  BY <1>1, <1>2, <1>3, <1>8 DEF IInv, Captured
<1>13. OneHome'
  <2>1. \A g \in Fwd \ {f} : bal[g] = b => tH[g] = h /\ balName[g] = n
    BY <1>1, <1>4, <1>7, <1>8 DEF IInv, OneHome, Unknown
  <2> QED
    BY <1>1, <1>2, <2>1 DEF IInv, OneHome
<1>14. Backed'
  <2> SUFFICES ASSUME NEW k \in Fwd, NEW m \in Name, balancers'[k][m] # NoHolder
               PROVE  \E g \in Fwd : /\ Up(g)' /\ tH'[g] = k /\ balName'[g] = m
                                     /\ bal'[g] = balancers'[k][m]
    BY DEF Backed
  <2>1. CASE k = h /\ m = n
    BY <1>1, <1>2, <1>3, <2>1 DEF Up
  <2>2. CASE ~(k = h /\ m = n)
    <3>1. balancers'[k][m] = balancers[k][m]
      BY <1>1, <1>2, <1>3, <2>2
    <3>2. PICK g \in Fwd : Up(g) /\ tH[g] = k /\ balName[g] = m /\ bal[g] = balancers[k][m]
      BY <3>1 DEF IInv, Backed
    <3> QED
      BY <1>1, <1>2, <3>1, <3>2 DEF Up
  <2> QED
    BY <2>1, <2>2
<1>15. Standing'
  <2> SUFFICES ASSUME NEW g \in Fwd, stage'[g] = "bound"
               PROVE  \/ open'[tH'[g]] /\ balancers'[tH'[g]][balName'[g]] = bal'[g]
                      \/ Displaced(g)'
    BY DEF Standing
  <2>1. CASE g = f
    BY <1>1, <1>2, <1>3, <2>1
  <2>2. CASE g # f
    <3>1. /\ stage[g] = "bound" /\ tH[g] \in Fwd /\ bal[g] # NoHolder
          /\ tH'[g] = tH[g] /\ bal'[g] = bal[g] /\ balName'[g] = balName[g]
      BY <1>1, <1>2, <2>2 DEF IInv, Captured
    <3>2. CASE open[tH[g]] /\ balancers[tH[g]][balName[g]] = bal[g]
      <4>1. ActiveBalancer(bal[g])
        BY <3>1, BoundIsActive
      <4>2. tH[g] = h /\ balName[g] = n => b = bal[g]
        BY <1>5, <3>1, <3>2, <4>1
      <4> QED
        BY <1>1, <1>2, <1>3, <3>1, <3>2, <4>2
    <3>3. CASE Displaced(g)
      BY <1>1, <1>2, <3>1, <3>3 DEF Displaced
    <3> QED
      BY <3>1, <3>2, <3>3 DEF IInv, Standing
  <2> QED
    BY <2>1, <2>2
<1>16. PlainName'
  BY <1>1, <1>2, <1>6 DEF IInv, PlainName
<1> QED
  BY <1>9, <1>10, <1>11, <1>12, <1>13, <1>14, <1>15, <1>16 DEF IInv

(* GetOpenSNIHost deletes at most a balancer without active servers.       *)
LEMMA RefuseNameSharedIInv ==
  ASSUME IInv, TypeOK', NEW f \in Fwd, NEW r \in GetOpenPort(f), NEW n \in Name,
         RefuseNameShared(f, r, n)
  PROVE  IInv'
<1> DEFINE h == r.holder
<1>1. /\ stage \in [Fwd -> Stages] /\ balancers \in [Holder -> [Name -> Holder0]]
      /\ NoHolder \notin Fwd /\ Fwd \subseteq Holder /\ balName \in [Fwd -> Name]
  BY HolderAssumption DEF IInv, TypeOK, Holder
<1>2. /\ stage[f] = "listed" /\ h # NoHolder
      /\ stage' = [stage EXCEPT ![f] = "refused"]
      /\ balancers' = [balancers EXCEPT ![h][n] =
                         IF ActiveBalancer(balancers[h][n]) THEN balancers[h][n] ELSE NoHolder]
      /\ UNCHANGED <<tH, bal, balName, table, key, sniProxy, open>>
  BY DEF RefuseNameShared
<1>3. h \in Fwd /\ h \in Holder
  BY <1>2, SharedFacts
<1> HIDE DEF h
<1>4. \A k \in Holder, m \in Name :
        /\ balancers'[k][m] \in {balancers[k][m], NoHolder}
        /\ ActiveBalancer(balancers[k][m]) => balancers'[k][m] = balancers[k][m]
  BY <1>1, <1>2, <1>3
<1>5. ListedPortsAreOpen' /\ PortPolicy' /\ OneHome' /\ PlainName'
  BY <1>2 DEF IInv, ListedPortsAreOpen, PortPolicy, OneHome, PlainName
<1>6. PortsAreReturned' /\ Captured'
  BY <1>1, <1>2 DEF IInv, PortsAreReturned, Captured
<1>7. Fresh'
  <2> SUFFICES ASSUME NEW g \in Fwd, Pending(g)' PROVE Unknown(g)'
    BY DEF Fresh
  <2>1. Unknown(g)
    BY <1>1, <1>2 DEF Pending, IInv, Fresh
  <2> QED
    BY <1>1, <1>2, <1>4, <2>1 DEF Unknown
<1>8. Backed'
  BY <1>1, <1>2, <1>4 DEF IInv, Backed, Up
<1>9. Standing'
  <2> SUFFICES ASSUME NEW g \in Fwd, stage'[g] = "bound"
               PROVE  \/ open[tH[g]] /\ balancers'[tH[g]][balName[g]] = bal[g]
                      \/ Displaced(g)'
    BY <1>2 DEF Standing
  <2>1. stage[g] = "bound" /\ tH[g] \in Holder /\ ActiveBalancer(bal[g])
    BY <1>1, <1>2, BoundIsActive DEF IInv, Captured
  <2>2. Displaced(g) => Displaced(g)'
    BY <1>1, <1>2 DEF Displaced
  <2> QED
    BY <1>1, <1>4, <2>1, <2>2 DEF IInv, Standing
<1> QED
  BY <1>5, <1>6, <1>7, <1>8, <1>9 DEF IInv

(* The teardown of a forward that has a holder. If it is the last one      *)
(* there, its balancer is the last one too.                                *)
LEMMA LeaveHolderIInv ==
  ASSUME IInv, TypeOK', NEW x \in Fwd, OnCleanup(x), tH[x] # NoHolder
  PROVE  IInv'
<1> DEFINE h == tH[x]
           last == Servers(bal[x]) = {x}
           rest == {n \in Name \ {balName[x]} : balancers[h][n] # NoHolder}
           close == last /\ rest = {}
<1>1. /\ stage \in [Fwd -> Stages] /\ balName \in [Fwd -> Name]
      /\ table \in [Port0 -> Holder0] /\ key \in [Holder -> Port0]
      /\ open \in [Holder -> BOOLEAN] /\ balancers \in [Holder -> [Name -> Holder0]]
      /\ NoHolder \notin Fwd /\ Fwd \subseteq Holder
  BY HolderAssumption DEF IInv, TypeOK, Holder
<1>2. /\ stage[x] = "unlisted" /\ stage' = [stage EXCEPT ![x] = "cleaned"]
      /\ balancers' = IF last THEN [balancers EXCEPT ![h][balName[x]] = NoHolder] ELSE balancers
      /\ open' = [open EXCEPT ![h] = open[h] /\ ~close]
      /\ table' = [table EXCEPT ![key[h]] = IF close THEN NoHolder ELSE table[key[h]]]
      /\ UNCHANGED <<tH, bal, balName, key, sniProxy>>
  BY DEF OnCleanup, LeaveHolder
<1>3. h \in Fwd /\ h \in Holder /\ bal[x] # NoHolder
  BY <1>1 DEF IInv, Captured
<1>4. /\ x \in Servers(bal[x])
      /\ \A y \in Fwd : y \in Servers(bal[x]) <=>
           stage[y] \in {"bound", "unlisted"} /\ bal[y] = bal[x]
  BY <1>2 DEF Servers
<1>5. \A y \in Fwd : bal[y] = bal[x] => tH[y] = h /\ balName[y] = balName[x]
  BY <1>3 DEF IInv, OneHome
<1>6. \A n \in Name \ {balName[x]} : balancers[h][n] # NoHolder => n \in rest
  OBVIOUS
<1>7. ~last => \E z \in Fwd \ {x} : stage[z] \in {"bound", "unlisted"} /\ bal[z] = bal[x]
  BY <1>4 DEF Servers
<1>8. \A n \in rest : n \in Name \ {balName[x]} /\ balancers[h][n] # NoHolder
  OBVIOUS
<1> HIDE DEF h, last, rest
<1>9. /\ \A k \in Holder : open'[k] => open[k]
      /\ \A k \in Holder : open'[k] = (open[k] /\ ~(close /\ k = h))
      /\ \A p \in Port0 : table'[p] = IF close /\ p = key[h] THEN NoHolder ELSE table[p]
      /\ \A k \in Holder, n \in Name :
           balancers'[k][n] = IF last /\ k = h /\ n = balName[x] THEN NoHolder ELSE balancers[k][n]
  BY <1>1, <1>2, <1>3
<1>10. ListedPortsAreOpen'
  <2> SUFFICES ASSUME NEW p \in Port0, table'[p] # NoHolder
               PROVE  open'[table'[p]] /\ key[table'[p]] = p
    BY <1>2 DEF ListedPortsAreOpen
  <2>1. table'[p] = table[p] /\ ~(close /\ p = key[h]) /\ table[p] \in Holder
    BY <1>1, <1>9 DEF Holder0
  <2>2. open[table[p]] /\ key[table[p]] = p
    BY <2>1 DEF IInv, ListedPortsAreOpen
  <2> QED
    BY <1>9, <2>1, <2>2
<1>11. PortPolicy' /\ OneHome' /\ PlainName' /\ Captured'
  BY <1>1, <1>2, <1>9 DEF IInv, PortPolicy, OneHome, PlainName, Captured
<1>12. PortsAreReturned'
  <2> SUFFICES ASSUME NEW k \in Fwd, open'[k], tH[k] # NoHolder
               PROVE  \E g \in Fwd : stage'[g] \in {"bound", "unlisted"} /\ tH[g] = k
    BY <1>2 DEF PortsAreReturned
  <2>1. PICK g \in Fwd : stage[g] \in {"bound", "unlisted"} /\ tH[g] = k
    BY <1>1, <1>9 DEF IInv, PortsAreReturned
  <2>2. CASE g # x
    BY <1>1, <1>2, <2>1, <2>2
  <2>3. CASE g = x
    <3>1. k = h /\ ~close
      BY <1>1, <1>9, <2>1, <2>3 DEF h
    <3>2. CASE ~last
      BY <1>1, <1>2, <1>5, <1>7, <3>1, <3>2
    <3>3. CASE rest # {}
      <4>1. PICK n \in Name \ {balName[x]} : balancers[h][n] # NoHolder
        BY <1>8, <3>3
      <4>2. PICK y \in Fwd : Up(y) /\ tH[y] = h /\ balName[y] = n
        BY <1>3, <4>1 DEF IInv, Backed
      <4> QED
        BY <1>1, <1>2, <3>1, <4>1, <4>2 DEF Up
    <3> QED
      BY <3>1, <3>2, <3>3
  <2> QED
    BY <2>2, <2>3
<1>13. Fresh'
  <2> SUFFICES ASSUME NEW g \in Fwd, Pending(g)' PROVE Unknown(g)'
    BY DEF Fresh
  <2>1. Unknown(g)
    BY <1>1, <1>2 DEF Pending, IInv, Fresh
  <2> QED
    BY <1>1, <1>2, <1>9, <2>1 DEF Unknown
<1>14. Backed'
  <2> SUFFICES ASSUME NEW k \in Fwd, NEW n \in Name, balancers'[k][n] # NoHolder
               PROVE  \E g \in Fwd : /\ Up(g)' /\ tH[g] = k /\ balName[g] = n
                                     /\ bal[g] = balancers'[k][n]
    BY <1>2 DEF Backed
  <2>1. balancers'[k][n] = balancers[k][n] /\ ~(last /\ k = h /\ n = balName[x])
    BY <1>1, <1>9
  <2>2. PICK y \in Fwd : Up(y) /\ tH[y] = k /\ balName[y] = n /\ bal[y] = balancers[k][n]
    BY <2>1 DEF IInv, Backed
  <2>3. CASE y # x
    BY <1>1, <1>2, <2>1, <2>2, <2>3 DEF Up
  <2>4. CASE y = x
    <3>1. ~last
      BY <2>1, <2>2, <2>4 DEF h
    <3>2. PICK z \in Fwd \ {x} : stage[z] \in {"bound", "unlisted"} /\ bal[z] = bal[x]
      BY <1>7, <3>1
    <3> QED
      BY <1>1, <1>2, <1>5, <2>1, <2>2, <2>4, <3>2 DEF Up, h
  <2> QED
    BY <2>3, <2>4
<1>15. Standing'
  <2> SUFFICES ASSUME NEW g \in Fwd, stage'[g] = "bound"
               PROVE  \/ open'[tH[g]] /\ balancers'[tH[g]][balName[g]] = bal[g]
                      \/ Displaced(g)'
    BY <1>2 DEF Standing
  <2>1. g # x /\ stage[g] = "bound" /\ tH[g] \in Holder /\ bal[g] # NoHolder /\ balName[g] \in Name
    BY <1>1, <1>2 DEF IInv, Captured
  <2>2. CASE Displaced(g)
    BY <1>1, <1>2, <2>2 DEF Displaced
  <2>3. CASE open[tH[g]] /\ balancers[tH[g]][balName[g]] = bal[g]
    <3>1. CASE tH[g] # h \/ ~last
      BY <1>9, <2>1, <2>3, <3>1
    <3>2. CASE tH[g] = h /\ last
      <4>1. bal[g] # bal[x]
        BY <1>4, <2>1, <3>2 DEF last
      <4>2. CASE balName[g] = balName[x]
        BY <1>1, <1>2, <3>2, <4>1, <4>2 DEF Displaced, h
      <4>3. CASE balName[g] # balName[x]
        BY <1>6, <1>9, <2>1, <2>3, <3>2, <4>3
      <4> QED
        BY <4>2, <4>3
    <3> QED
      BY <3>1, <3>2
  <2> QED
    BY <2>1, <2>2, <2>3 DEF IInv, Standing
<1> QED
  BY <1>10, <1>11, <1>12, <1>13, <1>14, <1>15 DEF IInv

(* The teardown of a forward that was refused.                             *)
LEMMA RefusedCleanupIInv ==
  ASSUME IInv, TypeOK', NEW x \in Fwd, OnCleanup(x), tH[x] = NoHolder
  PROVE  IInv'
<1>1. /\ stage \in [Fwd -> Stages] /\ NoHolder \notin Fwd /\ Fwd \subseteq Holder
      /\ stage[x] = "unlisted" /\ stage' = [stage EXCEPT ![x] = "cleaned"]
      /\ UNCHANGED <<tH, bal, balName, table, key, sniProxy, open, balancers>>
  BY HolderAssumption DEF IInv, TypeOK, Holder, OnCleanup
<1>2. ListedPortsAreOpen' /\ PortPolicy' /\ OneHome' /\ PlainName'
  BY <1>1 DEF IInv, ListedPortsAreOpen, PortPolicy, OneHome, PlainName
<1>3. PortsAreReturned'
  BY <1>1 DEF IInv, PortsAreReturned
<1>4. Fresh' /\ Captured'
  BY <1>1 DEF IInv, Fresh, Pending, Unknown, Captured
<1>5. Backed'
  BY <1>1 DEF IInv, Backed, Up
<1>6. Standing'
  BY <1>1 DEF IInv, Standing, Displaced
<1> QED
  BY <1>2, <1>3, <1>4, <1>5, <1>6 DEF IInv

(* Every step keeps the invariant.                                         *)
LEMMA NextIInv == IInv /\ [Next]_vars => IInv'
<1> SUFFICES ASSUME IInv, [Next]_vars PROVE IInv'
  OBVIOUS
<1>1. TypeOK'
  BY NextType DEF IInv
<1>2. ASSUME NEW f \in Fwd, NEW r \in GetOpenPort(f), SetUp(f, r) PROVE IInv'
  BY <1>1, <1>2, RefusePortIInv, RefuseNameNewIInv, BindNewIInv, BindSharedIInv,
     RefuseNameSharedIInv DEF SetUp
<1>3. ASSUME UNCHANGED <<stage, want, tH, bal, balName, table, key, sniProxy, open, balancers>>
      PROVE  IInv'
  <2>1. ListedPortsAreOpen' /\ PortPolicy' /\ PortsAreReturned' /\ OneHome' /\ PlainName'
    BY <1>3 DEF IInv, ListedPortsAreOpen, PortPolicy, PortsAreReturned, OneHome, PlainName
  <2>2. Fresh' /\ Captured'
    BY <1>3 DEF IInv, Fresh, Pending, Unknown, Captured
  <2>3. Backed' /\ Standing'
    BY <1>3 DEF IInv, Backed, Up, Standing, Displaced
  <2> QED
    BY <1>1, <2>1, <2>2, <2>3 DEF IInv
<1>4. ASSUME NEW c \in Configs, Reload(c) PROVE IInv'
  BY <1>3, <1>4 DEF Reload
<1>5. CASE UNCHANGED vars
  BY <1>3, <1>5 DEF vars
<1>6. ASSUME NEW x \in Fwd, OnCleanup(x) PROVE IInv'
  BY <1>1, <1>6, LeaveHolderIInv, RefusedCleanupIInv
<1> QED
  BY <1>1, <1>2, <1>4, <1>5, <1>6, RequestIInv, UnlistIInv DEF Next

-----------------------------------------------------------------------------
(* The theorems.                                                           *)

(* The inductive invariant holds throughout every behaviour.               *)
THEOREM TCPInductive == Spec => []IInv
  BY InitIInv, NextIInv, PTL DEF Spec

(* state.TCPListeners never lists a closed listener (the purge of          *)
(* GetOpenPort and the teardown of requests.go close and unlist together). *)
THEOREM ListedPortsSafe == Spec => []ListedPortsAreOpen
<1>1. IInv => ListedPortsAreOpen
  BY DEF IInv
<1> QED
  BY <1>1, TCPInductive, PTL

(* No forward listens on a port outside --port-bind-range, whichever way   *)
(* GetOpenPort chose it and however the flags are reloaded.                *)
THEOREM PortPolicySafe == Spec => []PortPolicy
<1>1. IInv => PortPolicy
  BY DEF IInv
<1> QED
  BY <1>1, TCPInductive, PTL

(* The last onCleanup of a port closes its listener; only handleTCPListener*)
(* refusing a name leaves an open listener behind.                         *)
THEOREM PortsReturnedSafe == Spec => []PortsAreReturned
<1>1. IInv => PortsAreReturned
  BY DEF IInv
<1> QED
  BY <1>1, TCPInductive, PTL

(* A forward that is up is reachable on its port under its name unless it  *)
(* is an SNI forward on a plain holder or was displaced by a late teardown.*)
THEOREM ReachableUnlessDisplaced == Spec => []UnreachableOnlyIfDisplaced
<1>1. IInv => UnreachableOnlyIfDisplaced
  <2> SUFFICES ASSUME IInv, NEW f \in Fwd, stage[f] = "bound", ~Reachable(f), ~Displaced(f)
               PROVE  f \in Sni /\ ~sniProxy[tH[f]]
    BY DEF UnreachableOnlyIfDisplaced, Displaced
  <2>1. open[tH[f]] /\ balancers[tH[f]][balName[f]] = bal[f] /\ tH[f] # NoHolder
    BY DEF IInv, Standing, Captured
  <2>2. ~sniProxy[tH[f]] /\ balName[f] # Plain
    BY <2>1 DEF Reachable
  <2> QED
    BY <2>1, <2>2 DEF IInv, PlainName
<1> QED
  BY <1>1, TCPInductive, PTL

(* While the whole range is free GetOpenPort answers with a port of it.    *)
LEMMA FreeRange ==
  ASSUME TypeOK, Range # {}, 0 \notin Range, NEW f \in Fwd, NEW r \in GetOpenPort(f),
         \A p \in Range : ~Occupied(p)
  PROVE  r.port \in Range /\ CanListen(r.port)
<1>1. RandomPorts \subseteq Range
  BY DEF RandomPorts
<1>2. FirstPorts(f) \subseteq Range
  BY <1>1 DEF FirstPorts, PortError
<1>3. r.port \in Range
  BY <1>1, <1>2 DEF GetOpenPort
<1>4. CanListen(r.port)
  BY <1>3 DEF CanListen, Occupied, OpenPurged
<1> QED
  BY <1>3, <1>4

(* What the comment B58 of handleTCPListener claims is true of a range     *)
(* that is not empty and does not contain 0: a forward without special     *)
(* wishes is refused only if some port of the range is busy.               *)
THEOREM RefusedOnlyIfBusySafe ==
  ASSUME Range # {}, 0 \notin Range
  PROVE  Spec => RefusedOnlyIfBusy
<1> DEFINE Busy ==
      \A f \in Fwd \ (Sni \cup ForceConnect) :
        stage[f] = "listed" /\ stage'[f] = "refused" /\ ~conf.forceRequestedPorts
        => \E p \in Range : Occupied(p)
<1>1. TypeOK /\ [Next]_vars => [Busy]_vars
  <2> SUFFICES ASSUME TypeOK, Next, NEW f \in Fwd \ (Sni \cup ForceConnect),
                      stage[f] = "listed", stage'[f] = "refused", ~conf.forceRequestedPorts
               PROVE  \E p \in Range : Occupied(p)
    OBVIOUS
  <2>1. stage \in [Fwd -> Stages]
    BY DEF TypeOK
  <2>2. ASSUME NEW g \in Fwd, NEW r \in GetOpenPort(g), SetUp(g, r)
        PROVE  \E p \in Range : Occupied(p)
    <3>1. g = f
      BY <2>1, <2>2 DEF SetUp, RefusePort, RefuseNameNew, BindNew, BindShared,
                        RefuseNameShared, AddServer
    <3>2. RefusePort(f, r)
      BY <2>1, <2>2, <3>1 DEF SetUp, RefuseNameNew, BindNew, BindShared,
                              RefuseNameShared, AddServer, NameRefused
    <3>3. ~ForcingPort(f)
      BY DEF ForcingPort
    <3>4. r.port = 0 \/ ~CanListen(r.port)
      BY <3>2, <3>3 DEF RefusePort, PortRefused
    <3> QED
      BY <3>1, <3>4, FreeRange
  <2>3. ASSUME NEW g \in Fwd, (\E p \in Asked[g] : Request(g, p)) \/ Unlist(g) \/ OnCleanup(g)
        PROVE  FALSE
    BY <2>1, <2>3 DEF Request, Unlist, OnCleanup
  <2>4. ASSUME NEW c \in Configs, Reload(c) PROVE FALSE
    BY <2>4 DEF Reload
  <2> QED
    BY <2>2, <2>3, <2>4 DEF Next
<1>2. [][Busy]_vars => RefusedOnlyIfBusy
  BY DEF RefusedOnlyIfBusy
<1> QED
  BY <1>1, <1>2, TCPTypeCorrect, PTL DEF Spec
=============================================================================
