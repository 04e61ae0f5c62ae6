SPECIFICATION Spec
CONSTANTS
  f1 = f1 f2 = f2 f3 = f3 f4 = f4 f5 = f5 n1 = n1 n2 = n2 n3 = n3 plainHost = plainHost
  Fwd = {f1}
  Root = Root
  NoHolder = NoHolder
  Plain = Plain
  RootName = RootName
  Port = {1, 2}
  Range = {1, 2}
  Asked <- OnePort
  Foreign = {}
  HttpsPort = 1
  Name = {n1, n2, n3, plainHost, Plain, RootName}
  NameOf <- HostNames
  RandomName = {n2}
  Banned = {n3}
  Sni = {f1}
  ForceConnect = {}
  Configs <- ThreeConfigs
INVARIANTS HttpsKeepsListening
CHECK_DEADLOCK FALSE
