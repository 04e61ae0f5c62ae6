SPECIFICATION Spec
CONSTANTS
  c1 = c1 c2 = c2 f1 = f1 f2 = f2 f3 = f3 t1 = t1 t2 = t2 t3 = t3 n1 = n1 n2 = n2 n3 = n3
  NoConn = NoConn
  NoFwd = NoFwd
  Conn = {c1, c2}
  Fwd = {f1, f2}
  Target = {t1}
  Name = {n1, n2, n3}
  NameOf <- OneName
  SchemeOf <- PortScheme
  RandomName = {n2, n3}
  Banned = {}
  ConnID <- OwnID
  LoadBalancer = FALSE
  ForceRequested = FALSE
  BindRandom = FALSE
  ForceConnectEnabled = FALSE
  StrictUnique = FALSE
  Deniable = {}
  Faulty = {}
  Manual = {}
SYMMETRY Symmetry
INVARIANTS ServingIsRouted
CHECK_DEADLOCK FALSE
