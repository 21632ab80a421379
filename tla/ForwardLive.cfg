SPECIFICATION FairSpec
CONSTANTS
  r1 = r1
  r2 = r2
  r3 = r3
  Requests = {r1, r2}
  OnOff = OnOff
  level = level
  AnyCluster = AnyCluster
  Clusters = {OnOff, level}
  u1 = u1
  u2 = u2
  m1 = m1
  Unicast = {u1, u2}
  Multicast = {m1}
  EntryCluster <- MCEntryCluster
  QueueSize = 2
  None = None
  NoData = NoData
  Freed = Freed
  state = state
  mode = mode
  dim = dim
  ReadUris = {state}
  WriteUris = {dim}
  CommandUris = {mode}
  ClusterOf <- MCClusterOf
  CommandOf <- MCCommandOf
  Tries = 2
CHECK_DEADLOCK FALSE
PROPERTIES
  GetAnswered
  BlockReleased
  ServesReads
