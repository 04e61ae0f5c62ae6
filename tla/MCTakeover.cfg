SPECIFICATION FairSpec
CONSTANTS
  c1 = c1 c2 = c2 f1 = f1 f2 = f2 f3 = f3 t1 = t1 t2 = t2 t3 = t3 n1 = n1 n2 = n2 n3 = n3
  NoConn = NoConn
  NoFwd = NoFwd
  Conn = {c1, c2}
  Fwd = {f1, f2}
  Target = {t1}
  Name = {n1}
  NameOf <- OneName
  SchemeOf <- PortScheme
  RandomName = {}
  Banned = {}
  ConnID <- OwnID
  LoadBalancer = TRUE
  ForceRequested = TRUE
  BindRandom = FALSE
  ForceConnectEnabled = TRUE
  StrictUnique = FALSE
  Deniable = {}
  Faulty = {}
  Manual = {}
INVARIANTS RoutesHaveBackends TakeoverExclusive
PROPERTIES HandlerReturns
CHECK_DEADLOCK FALSE
