SPECIFICATION TablesSpec
CONSTANTS
  f1 = f1 f2 = f2 f3 = f3 f4 = f4 f5 = f5 n1 = n1 n2 = n2 n3 = n3 plainHost = plainHost
  Fwd = {f1, f2, f3, f4, f5}
  Root = Root
  NoHolder = NoHolder
  Plain = Plain
  RootName = RootName
  Port = {1, 2}
  Range = {1, 2}
  Asked <- OnePort
  Foreign = {}
  HttpsPort = 0
  Name = {n1, n2, n3, plainHost, Plain, RootName}
  NameOf <- HostNames
  RandomName = {n2}
  Banned = {n3}
  Sni = {f1, f2, f3, f4}
  ForceConnect = {f4}
  Configs <- ThreeConfigs
  a = a x = x
  Client = {c1}
  ID = {a, x}
  NoID = NoID
  Url = Url
  File = {fileA}
  Flaky = {fileA}
  Kept <- Always
  May <- Allowed
  Ticker = Ticker
  Handler = {h1}
  NoOne = NoOne
  FlagSets <- SomeSettings
  MaxVersion = 2
SYMMETRY Symmetry
INVARIANTS
  ListedPortsAreOpen PortPolicy PortsAreReturned UnreachableOnlyIfDisplaced
  CensedNotCut UncensedOnlyIfOvertaken
PROPERTIES RefusedOnlyIfBusy NoOlderData SaveTakesEffect
CHECK_DEADLOCK FALSE
