SPECIFICATION ServicesSafety
CONSTANTS
  InFocus = {"ping"}
  p1 = p1 p2 = p2 p3 = p3 k1 = k1 k2 = k2 o1 = o1 o2 = o2 o3 = o3
  peer1 = peer1 peer2 = peer2 page1 = page1 g1 = g1 g2 = g2 h1 = h1 h2 = h2
  ip1 = ip1 ip2 = ip2 ip3 = ip3
  Proc = {p1, p2, p3}
  Key = {k1, k2}
  Obj = {o1, o2, o3}
  NoProc = NoProc
  NoKey = NoKey
  NoObj = NoObj
  Peer = {peer1, peer2}
  Blocked = {peer2}
  MuxSlots = 1
  SniSlots = 1
  BackoffMax = 2
  MaxErrors = 1
  Interval = 2
  Timeouts = {3}
  MaxTime = 13
  Callers = {"tcp", "forward", "alias"}
  IdleTimeout = 8
  Profiles = {"limited", "free"}
  MaxChunks = 2
  MaxExchanges = 1
  Page = {page1}
  Broadcasts = 2
  Lengths = {1, 3}
  SendQueueSize = 1
  HistoryLimit = 2
  EventLimit = 1
  MaxBytes = 4
  MaxAdds = 1
  Streams <- MCStreams
  Deflate = {"none", "fresh", "takeover"}
  Limit = 2
  MaxCompressed = 3
  MaxInflated = 5
  MaxChunk = 4
  Logger = {g1, g2}
  File = {"a", "b"}
  MaxIdle = 1
  CleanupInterval = 1
  Horizon = 4
  IP = {ip1, ip2, ip3}
  MaxRows = 2
  MaxEvents = 7
  Kinds = {"users", "keys", "headers"}
  Files = 2
  FromAPI = 2
  Entry = {"ann1", "ann2", "bobkey"}
  Password = {"ann1", "ann2"}
  UserOf <- MCUserOf
  AtStart <- MCAtStart
  Contents <- MCContents
  Inserts = {"ann2", "bobkey"}
  Handler = {h1, h2}
  MaxChanges = 2
  DefaultValue = "v"
  OwnValue = "w"
  NoValue = ""
INVARIANT FullTimeout
CHECK_DEADLOCK FALSE
