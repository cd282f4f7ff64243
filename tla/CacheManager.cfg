SPECIFICATION ManagerSpec
CONSTANTS
  Host = {"localhost", "a", "b"}
  ServerLists <- MCServerLists
  NoPort = 65536
  UninitializedPort = {0, 7}
  Clusters <- MCClusters
  Name = {n1}
  MaxBuilder = 2
  MaxStarts = 3
INVARIANTS
  CachesUseTheLiveFactory
  
CHECK_DEADLOCK FALSE
