------------------------- MODULE RemoteCacheManager -------------------------
(***************************************************************************)
(* The client from its configuration to its caches: ConfigurationBuilder,  *)
(* RemoteCacheManager and RemoteCacheManagerImpl with their two maps of    *)
(* caches, the administration of caches, start() and stop(), and the       *)
(* switch to another cluster.  One thread drives the manager: its outer    *)
(* map has no lock, the inner one is used under the manager's mutex.       *)
(***************************************************************************)
EXTENDS Integers, Sequences, SequencesExt, FiniteSets, FiniteSetsExt, Functions

CONSTANTS
  Host,               \* the names of hosts
  ServerLists,        \* what addServers may be given: sequences of [host, port]
  NoPort,             \* the port of an entry that names none
  UninitializedPort,  \* what portInt may hold before a port was read
  Clusters,           \* the names of the other clusters, in the order of std::map
  Name,               \* the names of caches
  MaxBuilder,         \* bound: calls that add servers to the builder
  MaxStarts           \* bound: starts of the manager

DEFAULT_CLUSTER_NAME == "DEFAULT_CLUSTER_NAME"
DefaultCacheName == ""
DefaultServer == [host |-> "localhost", port |-> 11222]

\* A ServerConfiguration, or an entry of the list given to addServers.
ServerEntry == [host : Host, port : Int]

ASSUME ManagerAssumption ==
  /\ MaxBuilder \in Nat /\ MaxStarts \in Nat
  /\ DefaultServer \in ServerEntry
  /\ NoPort \in Int /\ \A list \in ServerLists : list \in Seq(ServerEntry)
  /\ UninitializedPort \subseteq Int
  /\ DefaultCacheName \notin Name /\ DEFAULT_CLUSTER_NAME \notin Range(Clusters)

VARIABLES
  m_serversMap, calls,    \* the ConfigurationBuilder's servers; calls made to it
  listed,                 \* history: the entries given to the builder, by cluster
  configuration,          \* the Configuration, once there is one
  started, transportFactory,
  initialServers,         \* TransportFactory::initialServers
  cluster,                \* history: the cluster of the last start or switch
  cacheName2RemoteCache,  \* RemoteCacheManagerImpl's map
  remoteCacheMap,         \* the keys of RemoteCacheManager's map
  serverCaches            \* the caches the servers have

builderVars == <<m_serversMap, calls, listed>>
managerVars == <<started, transportFactory, initialServers, cluster>>
cacheVars == <<cacheName2RemoteCache, remoteCacheMap, serverCaches>>
clientVars == <<builderVars, configuration, managerVars, cacheVars>>

-----------------------------------------------------------------------------
(* ConfigurationBuilder                                                    *)

Building == configuration = <<>>

\* map[k] = v of a std::map.
Stored(map, k, v) == [j \in DOMAIN map \cup {k} |-> IF j = k THEN v ELSE map[j]]

\* The vector of a cluster, which operator[] creates, with more at its end.
Added(map, name, more) ==
  Stored(map, name, (IF name \in DOMAIN map THEN map[name] ELSE <<>>) \o more)

\* Mutant of Parsed: the port of every entry is that of the first one.
ParsedFirst(list, portInt) ==
  [i \in DOMAIN list |-> [host |-> list[i].host,
                          port |-> IF list[1].port = NoPort THEN portInt ELSE list[1].port]]

\* addServers' loop over host[:port].  Without a port the second getline fails
\* and portHelper stays as it was, so the port is that of the entry before;
\* before any port was read the extraction fails and portInt has no value yet.
Parsed(list, portInt) ==
  [i \in DOMAIN list |->
     LET given == {j \in 1..i : list[j].port # NoPort}
     IN  [host |-> list[i].host, port |-> IF given = {} THEN portInt ELSE list[Max(given)].port]]

addServers(list) ==
  /\ Building /\ calls < MaxBuilder
  /\ \E portInt \in UninitializedPort :
       m_serversMap' = Added(m_serversMap, DEFAULT_CLUSTER_NAME, Parsed(list, portInt))
  /\ listed' = Added(listed, DEFAULT_CLUSTER_NAME, list)
  /\ calls' = calls + 1
  /\ UNCHANGED <<configuration, managerVars, cacheVars>>

\* addCluster(name), with or without addClusterNode after it.
addCluster(name, nodes) ==
  /\ Building /\ calls < MaxBuilder
  /\ m_serversMap' = Added(m_serversMap, name, nodes)
  /\ listed' = Added(listed, name, nodes)
  /\ calls' = calls + 1
  /\ UNCHANGED <<configuration, managerVars, cacheVars>>

\* create(): the servers added, or one default server when there is no cluster.
create ==
  /\ Building
  /\ \E near \in BOOLEAN :
       configuration' = [servers |-> IF m_serversMap = <<>>
                                     THEN Stored(<<>>, DEFAULT_CLUSTER_NAME, <<DefaultServer>>)
                                     ELSE m_serversMap,
                         near |-> near]
  /\ UNCHANGED <<builderVars, managerVars, cacheVars>>

-----------------------------------------------------------------------------
(* start(), stop() and the switch of clusters                              *)

\* TransportFactory::start: the default cluster, or the first one there is.
ConfiguredCluster ==
  IF DEFAULT_CLUSTER_NAME \in DOMAIN configuration.servers THEN DEFAULT_CLUSTER_NAME
  ELSE Clusters[Min({i \in DOMAIN Clusters : Clusters[i] \in DOMAIN configuration.servers})]

\* Mutant of startRemoteCache: a cache that has a factory keeps it.
startRemoteCacheOnce(cache, factory) ==
  [cache EXCEPT !.factory = IF @ = 0 THEN factory ELSE @,
                !.listening = IF cache.near THEN factory ELSE 0]

\* startRemoteCache and RemoteCacheImpl::init: an OperationsFactory with the
\* transport factory of this start; a near cache registers its listener too.
startRemoteCache(cache, factory) ==
  [cache EXCEPT !.factory = factory, !.listening = IF cache.near THEN factory ELSE 0]

\* start(): a new factory, the configured servers (pingServers ignores the
\* servers that do not answer), then every cache of the map in turn.  When the
\* listener of a near cache cannot be registered start() throws: the caches
\* before it are initialised, this one has its operations factory but no
\* listener, those after it are as they were, and started stays false.
start ==
  /\ ~Building /\ ~started /\ transportFactory < MaxStarts
  /\ transportFactory' = transportFactory + 1
  /\ cluster' = ConfiguredCluster
  /\ initialServers' = configuration.servers[ConfiguredCluster]
  /\ LET map == cacheName2RemoteCache
         f == transportFactory + 1
     IN  \/ /\ cacheName2RemoteCache' = [k \in DOMAIN map |-> startRemoteCache(map[k], f)]
            /\ started' = TRUE
         \/ \E bad \in {k \in DOMAIN map : map[k].near} :
            \E before \in SUBSET (DOMAIN map \ {bad}) :
              /\ cacheName2RemoteCache' =
                   [k \in DOMAIN map |->
                      IF k \in before THEN startRemoteCache(map[k], f)
                      ELSE IF k = bad THEN [startRemoteCache(map[k], f) EXCEPT !.listening = 0]
                      ELSE map[k]]
              /\ started' = FALSE
  /\ UNCHANGED <<builderVars, configuration, remoteCacheMap, serverCaches>>

\* stop(): NearRemoteCacheImpl::stop takes the listener away, and if that fails
\* listenerNotifier->stop() ends its thread; the factory's pool is closed.
stop ==
  /\ started
  /\ started' = FALSE
  /\ cacheName2RemoteCache' =
       [k \in DOMAIN cacheName2RemoteCache |-> [cacheName2RemoteCache[k] EXCEPT !.listening = 0]]
  /\ UNCHANGED <<builderVars, configuration, transportFactory, initialServers, cluster,
                 remoteCacheMap, serverCaches>>

\* switchToCluster and switchToDefaultCluster; false for an unknown cluster.
switchToCluster(name) ==
  /\ started /\ name \in DOMAIN configuration.servers
  /\ initialServers' = configuration.servers[name]
  /\ cluster' = name
  /\ UNCHANGED <<builderVars, configuration, started, transportFactory, cacheVars>>

-----------------------------------------------------------------------------
(* getCache and the administration of caches                               *)

Key == (Name \cup {DefaultCacheName}) \X BOOLEAN

NewCache(k, near) == [force |-> k[2], near |-> near, factory |-> 0, listening |-> 0]

\* What getCache passes on: the overload with a name and no marshallers
\* leaves NearCacheConfiguration at its default, DISABLED.
NearFor(k, marshallers) == configuration.near /\ (k[1] = DefaultCacheName \/ marshallers)

\* The cache found under the key, or a new one with the present factory.
createRemoteCache(k, near) ==
  IF k \in DOMAIN cacheName2RemoteCache THEN cacheName2RemoteCache[k]
  ELSE startRemoteCache(NewCache(k, near), transportFactory)

\* A new cache can be made.  Without a transport factory ping returns FAIL,
\* which is not CACHE_DOES_NOT_EXIST; after stop() the pool is closed and every
\* request throws.  A near cache needs a factory for its listener.
Creatable(k, near) ==
  IF near \/ (k[1] # DefaultCacheName /\ transportFactory > 0)
  THEN started /\ k[1] \in serverCaches \cup {DefaultCacheName}
  ELSE TRUE

\* getCache: neither map changes when createRemoteCache throws.
getCache(k, marshallers) ==
  LET near == NearFor(k, marshallers)
  IN  /\ ~Building /\ k \notin remoteCacheMap
      /\ k \in DOMAIN cacheName2RemoteCache \/ Creatable(k, near)
      /\ cacheName2RemoteCache' =
           Stored(cacheName2RemoteCache, k, createRemoteCache(k, near))
      /\ remoteCacheMap' = remoteCacheMap \cup {k}
      /\ UNCHANGED <<builderVars, configuration, managerVars, serverCaches>>

\* RemoteCacheManagerAdmin::createCache; it may throw and change nothing.
createCache(n) ==
  /\ started
  /\ serverCaches' = serverCaches \cup {n}
  /\ UNCHANGED <<builderVars, configuration, managerVars, cacheName2RemoteCache, remoteCacheMap>>

\* Both caches of the name leave the outer map; the inner map keeps them.
removeFromMap(n) == remoteCacheMap' = remoteCacheMap \ ({n} \X BOOLEAN)

\* RemoteCacheManagerAdmin::removeCache: the map first, then the server, which
\* may refuse or be out of reach.
removeCache(n) ==
  /\ transportFactory > 0
  /\ removeFromMap(n)
  /\ serverCaches' \in {serverCaches} \cup (IF started THEN {serverCaches \ {n}} ELSE {})
  /\ UNCHANGED <<builderVars, configuration, managerVars, cacheName2RemoteCache>>

-----------------------------------------------------------------------------

ManagerInit ==
  /\ m_serversMap = <<>> /\ calls = 0 /\ listed = <<>>
  /\ configuration = <<>>
  /\ started = FALSE /\ transportFactory = 0
  /\ initialServers = <<>> /\ cluster = DEFAULT_CLUSTER_NAME
  /\ cacheName2RemoteCache = <<>> /\ remoteCacheMap = {}
  /\ serverCaches \in SUBSET Name

ManagerNext ==
  \/ \E list \in ServerLists : addServers(list)
  \/ \E i \in DOMAIN Clusters : \E nodes \in {<<>>, <<DefaultServer>>} :
       addCluster(Clusters[i], nodes)
  \/ create \/ start \/ stop
  \/ \E name \in Range(Clusters) \cup {DEFAULT_CLUSTER_NAME} : switchToCluster(name)
  \/ \E k \in Key : \E marshallers \in BOOLEAN : getCache(k, marshallers)
  \/ \E n \in Name : createCache(n) \/ removeCache(n)

ManagerSpec == ManagerInit /\ [][ManagerNext]_clientVars

-----------------------------------------------------------------------------
(* Properties                                                              *)

\* In a started manager every cache the application can reach, whenever it was
\* asked for and through however many stops, failed starts and restarts, sends
\* its requests through the factory of the last start and with the
\* forceReturnValue flag it was asked for, and a near cache has registered its
\* listener with that factory (RemoteCacheManagerImpl::start, createRemoteCache
\* and startRemoteCache; RemoteCacheManager::getCache; removeFromMap).
CachesUseTheLiveFactory ==
  started => \A k \in remoteCacheMap :
    /\ k \in DOMAIN cacheName2RemoteCache
    /\ LET cache == cacheName2RemoteCache[k]
       IN  /\ cache.force = k[2] /\ cache.factory = transportFactory
           /\ cache.near => cache.listening = transportFactory

\* What the transport factory connects to is what the application gave the
\* builder for that cluster, entry by entry and in order, each at the port it
\* named (ConfigurationBuilder::addServers, addCluster and create;
\* TransportFactory::start and clusterSwitch).
ListedServersAreUsed ==
  transportFactory > 0 /\ cluster \in DOMAIN listed =>
    /\ Len(initialServers) = Len(listed[cluster])
    /\ \A i \in DOMAIN initialServers :
         LET entry == listed[cluster][i]
         IN  initialServers[i] = entry \/ (entry.port = NoPort /\ initialServers[i].host = entry.host)

=============================================================================
