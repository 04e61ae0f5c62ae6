SPECIFICATION CensusSpec
CONSTANTS
  a = a x = x
  Client = {c1}
  ID = {a, x}
  NoID = NoID
  Url = Url
  File = {f1}
  Flaky = {}
  Kept <- Always
  May <- Allowed
  Ticker = Ticker
  Handler = {h1}
  NoOne = NoOne
  FlagSets <- StrictAlways
  MaxVersion = 2
INVARIANT RemovedIsDisconnected
