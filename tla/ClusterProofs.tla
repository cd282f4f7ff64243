---------------------------- MODULE ClusterProofs ----------------------------
(***************************************************************************)
(* Proofs about the servers the client uses.  RemoteCacheManager: those of *)
(* the configuration, and caches of the last start, for any names,         *)
(* clusters, lists of servers and number of starts.  Topology: the types,  *)
(* that the balancer hands out pooled servers, that hash and id of a cache *)
(* agree, and the order of the two mutexes, for any threads, caches,       *)
(* servers and topologies.                                                 *)
(***************************************************************************)
EXTENDS RemoteCacheManager, Topology, SequenceTheorems, WellFoundedInduction, TLAPS

-----------------------------------------------------------------------------
(* The servers                                                             *)

\* Max finds the largest of some positions.
LEMMA MaxIsLast ==
  ASSUME NEW i \in Nat, NEW S, S \subseteq 1..i, S # {}
  PROVE  Max(S) \in S /\ \A y \in S : y <= Max(S)
<1> DEFINE T == {d \in Nat : i - d \in S}
<1>1. T \subseteq Nat /\ T # {}
  <2>1. PICK x \in S : TRUE
    OBVIOUS
  <2>2. i - x \in Nat /\ i - (i - x) = x
    OBVIOUS
  <2>3. QED
    BY <2>1, <2>2
<1> DEFINE less == {nn \in Nat \X Nat : nn[1] < nn[2]}
<1>2. PICK d \in T : \A e \in T : <<e, d>> \notin less
  <2>1. IsWellFoundedOn(less, Nat)
    BY NatLessThanWellFounded DEF OpToRel
  <2>2. QED
    BY <1>1, <2>1, WFMin
<1>3. \A e \in T : ~ (e < d)
  BY <1>1, <1>2
<1>4. PICK m \in S : d = i - m
  <2>1. i - d \in S /\ d = i - (i - d)
    BY <1>1
  <2>2. QED
    BY <2>1
<1>5. ASSUME NEW y \in S PROVE m >= y
  <2>1. i - y \in T
    OBVIOUS
  <2>2. QED
    BY <1>3, <1>4, <2>1
<1>6. QED
  BY <1>4, <1>5 DEF Max

\* The servers of a cluster are the entries given for it, each at the port it names.
Matches(used, given) ==
  /\ used \in Seq(ServerEntry) /\ given \in Seq(ServerEntry)
  /\ Len(used) = Len(given)
  /\ \A i \in 1..Len(given) :
       \/ used[i] = given[i]
       \/ given[i].port = NoPort /\ used[i].host = given[i].host

\* addServers' loop keeps the entries, and the ports they name.
LEMMA ParsedMatches ==
  ASSUME NEW list \in Seq(ServerEntry), NEW portInt \in Int
  PROVE  Matches(Parsed(list, portInt), list)
<1> DEFINE given(i) == {j \in 1..i : list[j].port # NoPort}
           p == Parsed(list, portInt)
<1> HIDE DEF p
<1>1. /\ Len(list) \in Nat /\ DOMAIN list = 1..Len(list)
      /\ \A i \in 1..Len(list) : list[i] \in ServerEntry
  OBVIOUS
<1>2. ASSUME NEW i \in 1..Len(list)
      PROVE  /\ p[i].host = list[i].host
             /\ p[i].port = IF given(i) = {} THEN portInt ELSE list[Max(given(i))].port
             /\ p[i] = [host |-> p[i].host, port |-> p[i].port]
  BY <1>1 DEF Parsed, p
<1>3. ASSUME NEW i \in 1..Len(list), list[i].port # NoPort
      PROVE  p[i] = list[i]
  <2>1. i \in Nat /\ given(i) \subseteq 1..i /\ i \in given(i)
    BY <1>1, <1>3
  <2>2. Max(given(i)) = i
    <3>1. Max(given(i)) \in given(i) /\ i <= Max(given(i))
      BY <2>1, MaxIsLast
    <3>2. QED
      BY <2>1, <3>1
  <2>3. p[i].port = list[i].port
    BY <1>2, <2>1, <2>2
  <2>4. list[i] = [host |-> list[i].host, port |-> list[i].port]
    BY <1>1 DEF ServerEntry
  <2>5. QED
    BY <1>2, <2>3, <2>4
<1>4. ASSUME NEW i \in 1..Len(list) PROVE p[i] \in ServerEntry
  <2>1. p[i].port \in Int
    <3>1. CASE given(i) = {}
      BY <1>2, <3>1
    <3>2. CASE given(i) # {}
      <4>0. i \in Nat /\ given(i) \subseteq 1..i /\ 1..i \subseteq 1..Len(list)
        BY <1>1
      <4>1. Max(given(i)) \in 1..Len(list)
        BY <4>0, <3>2, MaxIsLast
      <4>2. list[Max(given(i))].port \in Int
        BY <1>1, <4>1 DEF ServerEntry
      <4>3. QED
        BY <1>2, <3>2, <4>2
    <3>3. QED
      BY <3>1, <3>2
  <2>2. list[i].host \in Host
    BY <1>1 DEF ServerEntry
  <2>3. [host |-> p[i].host, port |-> p[i].port] \in ServerEntry
    BY <1>2, <2>1, <2>2 DEF ServerEntry
  <2>4. QED
    BY <1>2, <2>3
<1>5. p \in Seq(ServerEntry) /\ Len(p) = Len(list)
  <2>1. DOMAIN list = 1..Len(list) /\ Len(list) \in Nat
    OBVIOUS
  <2>2. p = [i \in DOMAIN list |-> p[i]]
    BY DEF Parsed, p
  <2> HIDE DEF p
  <2>3. p \in [1..Len(list) -> ServerEntry]
    BY <1>4, <2>1, <2>2
  <2>4. QED
    BY <2>1, <2>3
<1>6. Matches(p, list)
  BY <1>1, <1>2, <1>3, <1>5 DEF Matches
<1>7. QED
  BY <1>6 DEF p

\* More servers for a cluster: the vectors match if the parts do.
LEMMA ConcatMatches ==
  ASSUME NEW u1, NEW g1, NEW u2, NEW g2, Matches(u1, g1), Matches(u2, g2)
  PROVE  Matches(u1 \o u2, g1 \o g2)
<1> DEFINE u == u1 \o u2
           g == g1 \o g2
<1>1. /\ u1 \in Seq(ServerEntry) /\ g1 \in Seq(ServerEntry) /\ u2 \in Seq(ServerEntry)
      /\ g2 \in Seq(ServerEntry) /\ Len(u1) = Len(g1) /\ Len(u2) = Len(g2)
      /\ Len(g1) \in Nat /\ Len(g2) \in Nat
  BY DEF Matches
<1>2. /\ u \in Seq(ServerEntry) /\ Len(u) = Len(u1) + Len(u2)
      /\ \A i \in 1..(Len(u1) + Len(u2)) :
            u[i] = IF i <= Len(u1) THEN u1[i] ELSE u2[i - Len(u1)]
  BY <1>1, ConcatProperties
<1>3. /\ g \in Seq(ServerEntry) /\ Len(g) = Len(g1) + Len(g2)
      /\ \A i \in 1..(Len(g1) + Len(g2)) :
            g[i] = IF i <= Len(g1) THEN g1[i] ELSE g2[i - Len(g1)]
  BY <1>1, ConcatProperties
<1> HIDE DEF u, g
<1>4. ASSUME NEW i \in 1..(Len(g1) + Len(g2))
      PROVE  u[i] = g[i] \/ (g[i].port = NoPort /\ u[i].host = g[i].host)
  <2>1. CASE i <= Len(g1)
    <3>1. u[i] = u1[i] /\ g[i] = g1[i] /\ i \in 1..Len(g1)
      BY <1>1, <1>2, <1>3, <2>1
    <3>2. QED
      BY <3>1 DEF Matches
  <2>2. CASE ~(i <= Len(g1))
    <3>0. PICK j \in 1..Len(g2) : j = i - Len(g1)
      <4>1. i - Len(g1) \in 1..Len(g2)
        BY <1>1, <2>2
      <4>2. QED
        BY <4>1
    <3>1. u[i] = u2[j] /\ g[i] = g2[j]
      BY <1>1, <1>2, <1>3, <2>2, <3>0
    <3>2. QED
      BY <3>1 DEF Matches
  <2>3. QED
    BY <2>1, <2>2
<1>5. Matches(u, g)
  BY <1>1, <1>2, <1>3, <1>4 DEF Matches
<1>6. QED
  BY <1>5 DEF u, g

\* Before create() the builder's vectors match what it was given, after it those of the
\* configuration do; a manager with a transport factory has a configuration, and its
\* initial servers match what was given for its cluster.
ServersOK ==
  /\ transportFactory \in Nat
  /\ Building => /\ transportFactory = 0
                 /\ DOMAIN m_serversMap = DOMAIN listed
                 /\ \A c \in DOMAIN listed : Matches(m_serversMap[c], listed[c])
  /\ ~Building => \A c \in DOMAIN listed :
                     /\ c \in DOMAIN configuration.servers
                     /\ Matches(configuration.servers[c], listed[c])
  /\ transportFactory > 0 /\ cluster \in DOMAIN listed =>
       Matches(initialServers, listed[cluster])

\* addServers, addCluster: two vectors that match are added to two maps that match.
LEMMA AddedMatches ==
  ASSUME NEW map, NEW lists, NEW name, NEW used, NEW given,
         DOMAIN map = DOMAIN lists, \A c \in DOMAIN lists : Matches(map[c], lists[c]),
         Matches(used, given)
  PROVE  /\ DOMAIN Added(map, name, used) = DOMAIN Added(lists, name, given)
         /\ \A c \in DOMAIN Added(lists, name, given) :
               Matches(Added(map, name, used)[c], Added(lists, name, given)[c])
<1> DEFINE u == (IF name \in DOMAIN map THEN map[name] ELSE <<>>) \o used
           g == (IF name \in DOMAIN lists THEN lists[name] ELSE <<>>) \o given
<1>1. Matches(<<>>, <<>>)
  BY DEF Matches
<1>2. Matches(u, g)
  <2>1. CASE name \in DOMAIN lists
    BY <2>1, ConcatMatches
  <2>2. CASE name \notin DOMAIN lists
    BY <1>1, <2>2, ConcatMatches
  <2>3. QED
    BY <2>1, <2>2
<1> HIDE DEF u, g
<1>3. /\ DOMAIN Stored(map, name, u) = DOMAIN Stored(lists, name, g)
      /\ \A c \in DOMAIN Stored(lists, name, g) :
            Matches(Stored(map, name, u)[c], Stored(lists, name, g)[c])
  BY <1>2 DEF Stored
<1>4. QED
  BY <1>3 DEF Added, u, g

\* No step of the builder or the manager breaks the correspondence.
LEMMA NextServers ==
  ASSUME ServersOK, [ManagerNext]_clientVars
  PROVE  ServersOK'
<1>1. ASSUME NEW list \in ServerLists, addServers(list) PROVE ServersOK'
  <2>1. PICK portInt \in UninitializedPort :
           m_serversMap' = Added(m_serversMap, DEFAULT_CLUSTER_NAME, Parsed(list, portInt))
    BY <1>1 DEF addServers
  <2>2. Matches(Parsed(list, portInt), list)
    BY ManagerAssumption, ParsedMatches
  <2>3. /\ Building /\ UNCHANGED <<configuration, managerVars>>
        /\ listed' = Added(listed, DEFAULT_CLUSTER_NAME, list)
    BY <1>1 DEF addServers
  <2>4. /\ DOMAIN m_serversMap' = DOMAIN listed'
        /\ \A c \in DOMAIN listed' : Matches(m_serversMap'[c], listed'[c])
    BY <2>1, <2>2, <2>3, AddedMatches DEF ServersOK
  <2>5. QED
    BY <2>3, <2>4 DEF ServersOK, Building, managerVars
<1>2. ASSUME NEW i \in DOMAIN Clusters, NEW nodes \in {<<>>, <<DefaultServer>>},
             addCluster(Clusters[i], nodes)
      PROVE  ServersOK'
  <2>1. Matches(nodes, nodes)
    <3>1. DefaultServer \in ServerEntry
      BY ManagerAssumption
    <3>2. nodes \in Seq(ServerEntry)
      <4>1. <<>> \in Seq(ServerEntry)
        OBVIOUS
      <4>2. <<DefaultServer>> \in Seq(ServerEntry)
        BY <3>1
      <4>3. QED
        BY <4>1, <4>2
    <3>3. QED
      BY <3>2 DEF Matches
  <2>2. /\ Building /\ UNCHANGED <<configuration, managerVars>>
        /\ m_serversMap' = Added(m_serversMap, Clusters[i], nodes)
        /\ listed' = Added(listed, Clusters[i], nodes)
    BY <1>2 DEF addCluster
  <2>3. /\ DOMAIN m_serversMap' = DOMAIN listed'
        /\ \A c \in DOMAIN listed' : Matches(m_serversMap'[c], listed'[c])
    BY <2>1, <2>2, AddedMatches DEF ServersOK
  <2>4. QED
    BY <2>2, <2>3 DEF ServersOK, Building, managerVars
<1>3. CASE create
  <2>1. Building /\ UNCHANGED <<builderVars, managerVars>>
    BY <1>3 DEF create
  <2>2. PICK near \in BOOLEAN :
           configuration' = [servers |-> IF m_serversMap = <<>>
                                         THEN Stored(<<>>, DEFAULT_CLUSTER_NAME, <<DefaultServer>>)
                                         ELSE m_serversMap,
                             near |-> near]
    BY <1>3 DEF create
  <2>3. ~Building'
    BY <2>2 DEF Building
  <2>4. \A c \in DOMAIN listed :
           c \in DOMAIN configuration'.servers /\ configuration'.servers[c] = m_serversMap[c]
    BY <2>1, <2>2 DEF ServersOK
  <2>5. QED
    BY <2>1, <2>3, <2>4 DEF ServersOK, builderVars, managerVars
<1>4. CASE start
  <2>1. PICK c : c = ConfiguredCluster
    OBVIOUS
  <2>2. /\ ~Building /\ transportFactory' = transportFactory + 1
        /\ cluster' = c /\ initialServers' = configuration.servers[c]
        /\ UNCHANGED <<listed, configuration>>
    BY <1>4, <2>1 DEF start, builderVars
  <2>3. QED
    BY <2>2 DEF ServersOK, Building
<1>5. CASE stop
  BY <1>5 DEF stop, ServersOK, Building, builderVars
<1>6. ASSUME NEW name, switchToCluster(name) PROVE ServersOK'
  BY <1>6 DEF switchToCluster, ServersOK, Building, builderVars
<1>7. ASSUME UNCHANGED <<builderVars, configuration, managerVars>> PROVE ServersOK'
  BY <1>7 DEF ServersOK, Building, builderVars, managerVars
<1>8. ASSUME NEW k \in Key, NEW marshallers \in BOOLEAN, getCache(k, marshallers) PROVE ServersOK'
  BY <1>7, <1>8 DEF getCache
<1>9. ASSUME NEW n \in Name, createCache(n) \/ removeCache(n) PROVE ServersOK'
  BY <1>7, <1>9 DEF createCache, removeCache
<1>10. CASE UNCHANGED clientVars
  BY <1>7, <1>10 DEF clientVars
<1>11. QED
  BY <1>1, <1>2, <1>3, <1>4, <1>5, <1>6, <1>8, <1>9, <1>10 DEF ManagerNext

\* For any lists of servers, with and without ports, any clusters and any starts and
\* switches, the manager connects to the servers the application listed, in their order,
\* and wherever a port was named to that port.
THEOREM ManagerUsesListedServers == ManagerSpec => []ListedServersAreUsed
<1>1. ManagerInit => ServersOK
  BY DEF ManagerInit, ServersOK, Building
<1>2. ServersOK /\ [ManagerNext]_clientVars => ServersOK'
  BY NextServers
<1>3. ServersOK => ListedServersAreUsed
  BY DEF ServersOK, ListedServersAreUsed, Matches
<1>4. QED
  BY <1>1, <1>2, <1>3, PTL DEF ManagerSpec

-----------------------------------------------------------------------------
(* The caches                                                              *)

\* The application reaches caches of the inner map only.  In a started manager every
\* cache of that map, reachable or not, belongs to the last start: removeFromMap leaves
\* its caches in the inner map, where getCache finds them again.
Cached == [force : BOOLEAN, near : BOOLEAN, factory : Nat, listening : Nat]
CacheOK(k, cache) ==
  /\ cache \in Cached /\ cache.force = k[2]
  /\ started => /\ cache.factory = transportFactory
                /\ cache.near => cache.listening = transportFactory
CachesOK ==
  /\ transportFactory \in Nat
  /\ DOMAIN cacheName2RemoteCache \subseteq Key
  /\ remoteCacheMap \subseteq DOMAIN cacheName2RemoteCache
  /\ \A k \in DOMAIN cacheName2RemoteCache : CacheOK(k, cacheName2RemoteCache[k])

\* init gives a cache the factory, and its listener if it has one.
LEMMA StartedCache ==
  ASSUME NEW cache \in Cached, NEW factory \in Nat
  PROVE  LET c == startRemoteCache(cache, factory)
         IN  /\ c \in Cached /\ c.force = cache.force /\ c.near = cache.near
             /\ c.factory = factory /\ (c.near => c.listening = factory)
BY DEF Cached, startRemoteCache

\* Every step keeps the caches at the live factory.
LEMMA NextCaches ==
  ASSUME CachesOK, [ManagerNext]_clientVars
  PROVE  CachesOK'
<1> DEFINE map == cacheName2RemoteCache
<1>1. ASSUME UNCHANGED <<started, transportFactory, cacheName2RemoteCache>>,
             remoteCacheMap' \subseteq remoteCacheMap
      PROVE  CachesOK'
  BY <1>1 DEF CachesOK, CacheOK
<1>2. CASE start
  <2> DEFINE f == transportFactory + 1
  <2>1. /\ transportFactory' = f /\ f \in Nat /\ UNCHANGED remoteCacheMap
        /\ \A k \in DOMAIN map : map[k] \in Cached /\ map[k].force = k[2]
    BY <1>2 DEF start, CachesOK, CacheOK
  <2>2. CASE /\ map' = [k \in DOMAIN map |-> startRemoteCache(map[k], f)]
             /\ started' = TRUE
    <3>1. ASSUME NEW k \in DOMAIN map PROVE CacheOK(k, map[k])'
      <4>1. map'[k] = startRemoteCache(map[k], f)
        BY <2>2
      <4>2. /\ map'[k] \in Cached /\ map'[k].force = k[2]
            /\ map'[k].factory = f /\ (map'[k].near => map'[k].listening = f)
        <5> DEFINE c == startRemoteCache(map[k], f)
        <5>1. c \in Cached /\ c.force = map[k].force
          BY <2>1, StartedCache
        <5>2. c.factory = f /\ (c.near => c.listening = f)
          BY <2>1, StartedCache
        <5>3. QED
          BY <2>1, <4>1, <5>1, <5>2
      <4>3. QED
        BY <2>1, <4>2 DEF CacheOK
    <3>2. QED
      BY <2>1, <2>2, <3>1 DEF CachesOK
  <2>3. CASE started' = FALSE /\
             \E bad \in {k \in DOMAIN map : map[k].near} :
             \E before \in SUBSET (DOMAIN map \ {bad}) :
                map' = [k \in DOMAIN map |->
                          IF k \in before THEN startRemoteCache(map[k], f)
                          ELSE IF k = bad
                               THEN [startRemoteCache(map[k], f) EXCEPT !.listening = 0]
                          ELSE map[k]]
    <3>0. PICK bad \in {k \in DOMAIN map : map[k].near} :
             \E before \in SUBSET (DOMAIN map \ {bad}) :
                map' = [k \in DOMAIN map |->
                          IF k \in before THEN startRemoteCache(map[k], f)
                          ELSE IF k = bad
                               THEN [startRemoteCache(map[k], f) EXCEPT !.listening = 0]
                          ELSE map[k]]
      BY <2>3
    <3>1. PICK before \in SUBSET (DOMAIN map \ {bad}) :
                map' = [k \in DOMAIN map |->
                          IF k \in before THEN startRemoteCache(map[k], f)
                          ELSE IF k = bad
                               THEN [startRemoteCache(map[k], f) EXCEPT !.listening = 0]
                          ELSE map[k]]
      BY <3>0
    <3>2. ASSUME NEW k \in DOMAIN map PROVE CacheOK(k, map[k])'
      <4>1. /\ startRemoteCache(map[k], f) \in Cached
            /\ startRemoteCache(map[k], f).force = k[2]
        BY <2>1, StartedCache
      <4>2. \A c \in Cached : /\ [c EXCEPT !.listening = 0] \in Cached
                              /\ [c EXCEPT !.listening = 0].force = c.force
        BY DEF Cached
      <4>3. map'[k] \in Cached /\ map'[k].force = k[2]
        BY <2>1, <3>1, <4>1, <4>2
      <4>4. QED
        BY <2>3, <4>3 DEF CacheOK
    <3>3. QED
      BY <2>1, <3>1, <3>2 DEF CachesOK
  <2>4. QED
    BY <1>2, <2>2, <2>3 DEF start
<1>3. CASE stop
  <2>1. /\ started' = FALSE /\ UNCHANGED <<transportFactory, remoteCacheMap>>
        /\ map' = [k \in DOMAIN map |-> [map[k] EXCEPT !.listening = 0]]
    BY <1>3 DEF stop
  <2>2. \A c \in Cached : /\ [c EXCEPT !.listening = 0] \in Cached
                          /\ [c EXCEPT !.listening = 0].force = c.force
    BY DEF Cached
  <2>3. \A k \in DOMAIN map : CacheOK(k, map[k])'
    BY <2>1, <2>2 DEF CachesOK, CacheOK
  <2>4. QED
    BY <2>1, <2>3 DEF CachesOK
<1>4. ASSUME NEW k \in Key, NEW marshallers \in BOOLEAN, getCache(k, marshallers)
      PROVE  CachesOK'
  <2>1. PICK near \in BOOLEAN : near = NearFor(k, marshallers)
    BY DEF NearFor
  <2> DEFINE made == createRemoteCache(k, near)
  <2>2. /\ map' = Stored(map, k, made) /\ remoteCacheMap' = remoteCacheMap \cup {k}
        /\ UNCHANGED <<started, transportFactory>>
    BY <1>4, <2>1 DEF getCache, managerVars
  <2>3. CacheOK(k, made)
    <3>1. CASE k \in DOMAIN map
      BY <3>1 DEF createRemoteCache, CachesOK
    <3>2. CASE k \notin DOMAIN map
      <4>1. NewCache(k, near) \in Cached /\ NewCache(k, near).force = k[2]
        BY DEF NewCache, Cached, Key
      <4>2. made = startRemoteCache(NewCache(k, near), transportFactory)
        BY <3>2 DEF createRemoteCache
      <4>3. QED
        BY <4>1, <4>2, StartedCache DEF CacheOK, CachesOK
    <3>3. QED
      BY <3>1, <3>2
  <2> HIDE DEF made
  <2>4. \A j \in DOMAIN map' : CacheOK(j, map'[j])
    BY <2>2, <2>3 DEF Stored, CachesOK
  <2>5. \A j \in DOMAIN map' : CacheOK(j, map[j])'
    BY <2>2, <2>4 DEF CacheOK
  <2>6. QED
    BY <2>2, <2>5 DEF CachesOK, Stored
<1>5. ASSUME NEW list, addServers(list) PROVE CachesOK'
  BY <1>1, <1>5 DEF addServers, managerVars, cacheVars
<1>6. ASSUME NEW name, NEW nodes, addCluster(name, nodes) PROVE CachesOK'
  BY <1>1, <1>6 DEF addCluster, managerVars, cacheVars
<1>7. CASE create
  BY <1>1, <1>7 DEF create, managerVars, cacheVars
<1>8. ASSUME NEW name, switchToCluster(name) PROVE CachesOK'
  BY <1>1, <1>8 DEF switchToCluster, cacheVars
<1>9. ASSUME NEW n \in Name, createCache(n) \/ removeCache(n) PROVE CachesOK'
  BY <1>1, <1>9 DEF createCache, removeCache, removeFromMap, managerVars
<1>10. CASE UNCHANGED clientVars
  BY <1>1, <1>10 DEF clientVars, managerVars, cacheVars
<1>11. QED
  BY <1>2, <1>3, <1>4, <1>5, <1>6, <1>7, <1>8, <1>9, <1>10 DEF ManagerNext

\* Through any sequence of starts that fail half way, stops, restarts, removals and
\* requests for caches, what the application reaches in a started manager uses the
\* factory of the last start, and its near caches listen there.
THEOREM CachesFollowTheFactory == ManagerSpec => []CachesUseTheLiveFactory
<1>1. ManagerInit => CachesOK
  BY DEF ManagerInit, CachesOK
<1>2. CachesOK /\ [ManagerNext]_clientVars => CachesOK'
  BY NextCaches
<1>3. CachesOK => CachesUseTheLiveFactory
  BY DEF CachesOK, CacheOK, CachesUseTheLiveFactory
<1>4. QED
  BY <1>1, <1>2, <1>3, PTL DEF ManagerSpec

-----------------------------------------------------------------------------
(* Topology                                                                *)

\* Only the holder of the factory's mutex is inside updateServers.
LockOK == \A t \in Thread : pc[t] \in {"add", "clear"} => lock = t

\* What the holder still has to do before the servers of its topology are in the pool,
\* and what it has done when it removes the failed ones.
PoolOK ==
    /\ servers \subseteq pooled
    /\ \A t \in Thread :
        /\ pc[t] = "add" => Members[new[t]] \subseteq pooled \cup todo[t]
        /\ pc[t] = "clear" => balancer = Members[new[t]]

Unshared == \A t, u \in Thread : CacheOf[t] = CacheOf[u] => t = u

\* A response is for the thread's cache, or it answers its ping.
ParamsOK ==
    \A t \in Thread : params[t] \in {[cacheName |-> CacheOf[t], topologyId |-> CacheOf[t]],
                                     [cacheName |-> EmptyName, topologyId |-> t]}

\* From readNewTopologyIfPresent to updateTopology the Topology object that a thread uses
\* keeps the id that this thread read: nobody else writes it.
IdOK ==
    Unshared => \A t \in Thread : pc[t] # "ready" => topologyId[params[t].topologyId] = new[t]

\* Hash and id of every cache, those of pings included.
HashOK ==
    Unshared => \A c \in Cache : consistentHashByCacheName[c] # NoHash =>
                                     consistentHashByCacheName[c] = topologyIdsByCache[c]

\* Only a ping comes to a response with the pool's mutex.
PoolLockOK == testOnBorrow \/ poolLock = None

IInv ==
    /\ TypeOK
    /\ LockOK /\ PoolOK /\ RoutedIsPooled
    /\ ParamsOK /\ IdOK /\ HashOK
    /\ PoolLockOK

-----------------------------------------------------------------------------
(* Types *)

\* The members of a topology are servers.
LEMMA TopologyFacts ==
    /\ 1 \in Topologies
    /\ \A n \in Topologies : Members[n] \subseteq Server /\ n \in Ids
    /\ DEFAULT_CACHE_TOPOLOGY \in Ids
BY MembersAssumption DEF Topologies, Ids

LEMMA InitTypes == Init => TypeOK
<1>1. \A t \in Thread : [cacheName |-> CacheOf[t], topologyId |-> CacheOf[t]]
                           \in [cacheName : Cache, topologyId : Cache \cup Thread]
  BY ClientsAssumption
<1>2. 0 \in 0 .. MaxFailures
  BY ClientsAssumption
<1> QED
  BY <1>1, <1>2, TopologyFacts DEF Init, TypeOK, NoHash

\* What Leave does to the locals keeps their types.
LEMMA LeaveTypes ==
    ASSUME TypeOK, NEW t \in Thread, Leave(t)
    PROVE  /\ pc' \in [Thread -> {"ready", "decide", "update", "add", "clear", "hash"}]
           /\ poolLock' \in Thread \cup {None}
           /\ params' \in [Thread -> [cacheName : Cache, topologyId : Cache \cup Thread]]
           /\ new' \in [Thread -> Topologies]
           /\ topologyId' \in [Cache \cup Thread -> Ids]
<1>1. [cacheName |-> CacheOf[t], topologyId |-> CacheOf[t]]
         \in [cacheName : Cache, topologyId : Cache \cup Thread]
  BY ClientsAssumption
<1>2. params' \in [Thread -> [cacheName : Cache, topologyId : Cache \cup Thread]]
  BY <1>1 DEF Leave, TypeOK
<1>3. new' \in [Thread -> Topologies] /\ topologyId' \in [Cache \cup Thread -> Ids]
  BY TopologyFacts DEF Leave, TypeOK
<1> QED
  BY <1>2, <1>3 DEF Leave, Goto, TypeOK

\* The reader of a topology, of a response or of a ping.
LEMMA ReaderTypes ==
    ASSUME TypeOK, NEW t \in Thread, NEW cache \in Cache, NEW object \in Cache \cup Thread,
           NEW announced, readNewTopologyIfPresent(t, cache, object, announced),
           poolLock' \in {poolLock, t}
    PROVE  TypeOK'
<1>1. PICK s \in balancer \cap pooled :
         /\ new' = [new EXCEPT ![t] = known[s]]
         /\ topologyId' = [topologyId EXCEPT ![object] = known[s]]
  BY DEF readNewTopologyIfPresent, getTransport, getHashAwareServer
<1>2. known[s] \in Topologies /\ known[s] \in Ids
  BY <1>1 DEF TypeOK, Ids
<1>3. [cacheName |-> cache, topologyId |-> object]
         \in [cacheName : Cache, topologyId : Cache \cup Thread]
  OBVIOUS
<1>4. params' \in [Thread -> [cacheName : Cache, topologyId : Cache \cup Thread]]
  BY <1>3 DEF readNewTopologyIfPresent, TypeOK
<1>5. new' \in [Thread -> Topologies] /\ topologyId' \in [Cache \cup Thread -> Ids]
  BY <1>1, <1>2 DEF TypeOK
<1> QED
  BY <1>4, <1>5 DEF TypeOK, readNewTopologyIfPresent, Goto, listVars, hashVars, stable

LEMMA NextTypes ==
    ASSUME TypeOK, [Next]_vars
    PROVE  TypeOK'
<1>1. ASSUME NEW t \in Thread, readHeader(t)
      PROVE  TypeOK'
  BY <1>1, ReaderTypes, ClientsAssumption DEF readHeader
<1>2. ASSUME NEW t \in Thread, ping(t)
      PROVE  TypeOK'
  BY <1>2, ReaderTypes, ClientsAssumption DEF ping
<1>3. ASSUME NEW t \in Thread, readNewTopologyAndHash(t)
      PROVE  TypeOK'
  <2>1. CASE Leave(t)
    BY <1>3, <2>1, LeaveTypes DEF TypeOK, readNewTopologyAndHash, listVars, hashVars, stable
  <2>2. CASE topologyIdsByCache[params[t].cacheName] # new[t]
    <3>1. params[t].topologyId \in Cache \cup Thread /\ new[t] \in Ids
      BY DEF TypeOK, Ids
    <3>2. topologyId' \in [Cache \cup Thread -> Ids]
      BY <1>3, <2>2, <3>1 DEF TypeOK, readNewTopologyAndHash
    <3> QED
      BY <1>3, <2>2, <3>2 DEF TypeOK, readNewTopologyAndHash, Goto, listVars, hashVars, stable
  <2> QED
    BY <1>3, <2>1, <2>2 DEF readNewTopologyAndHash
<1>4. ASSUME NEW t \in Thread, updateServers(t)
      PROVE  TypeOK'
  <2>1. Members[new[t]] \ servers \in SUBSET Server
    BY TopologyFacts DEF TypeOK
  <2> QED
    BY <1>4, <2>1 DEF TypeOK, updateServers, Goto, listVars, hashVars, stable
<1>5. ASSUME NEW t \in Thread, NEW s \in Server, addObject(t, s)
      PROVE  TypeOK'
  BY <1>5 DEF TypeOK, addObject, listVars, hashVars, stable
<1>6. ASSUME NEW t \in Thread, NEW s \in Server, addObjectThrows(t, s)
      PROVE  TypeOK'
  <2>1. failures' \in 0 .. MaxFailures
    BY <1>6, ClientsAssumption DEF TypeOK, addObjectThrows
  <2>2. todo' \in [Thread -> SUBSET Server] /\ pooled' \subseteq Server /\ lock' = None
    BY <1>6 DEF TypeOK, addObjectThrows
  <2>3. Leave(t) /\ UNCHANGED <<listVars, hashVars, stable, up>>
    BY <1>6 DEF addObjectThrows
  <2> QED
    BY <2>1, <2>2, <2>3, LeaveTypes DEF TypeOK, listVars, hashVars, stable
<1>7. ASSUME NEW t \in Thread, setServers(t)
      PROVE  TypeOK'
  BY <1>7, TopologyFacts DEF TypeOK, setServers, Goto, hashVars, stable
<1>8. ASSUME NEW t \in Thread, clearFailed(t)
      PROVE  TypeOK'
  BY <1>8, TopologyFacts DEF TypeOK, clearFailed, Goto, hashVars, stable
<1>9. ASSUME NEW t \in Thread, updateHashFunction(t)
      PROVE  TypeOK'
  <2>1. CASE new[t] \in Hashed
    <3>1. updateTopology(t) /\ Leave(t) /\ UNCHANGED <<up, lock, listVars, pooled, todo, stable, failures>>
      BY <1>9, <2>1 DEF updateHashFunction
    <3>2. params[t].cacheName \in Cache /\ topologyId[params[t].topologyId] \in Ids
      BY DEF TypeOK
    <3>3. /\ topologyIdsByCache' \in [Cache -> Ids]
          /\ consistentHashByCacheName' \in [Cache -> Topologies \cup {NoHash}]
      BY <3>1, <3>2 DEF TypeOK, updateTopology
    <3> QED
      BY <3>1, <3>3, LeaveTypes DEF TypeOK, listVars, stable
  <2>2. CASE new[t] \notin Hashed
    BY <1>9, <2>2 DEF TypeOK, updateHashFunction, listVars, hashVars, stable
  <2> QED
    BY <2>1, <2>2
<1>10. ASSUME NEW s \in Server, Learn(s)
       PROVE  TypeOK'
  <2>1. known[s] + 1 \in Topologies
    BY <1>10, MembersAssumption DEF TypeOK, Learn, Topologies
  <2> QED
    BY <1>10, <2>1 DEF TypeOK, Learn, listVars, hashVars
<1>11. CASE UNCHANGED vars
  BY <1>11 DEF TypeOK, vars
<1> QED
  BY <1>1, <1>2, <1>3, <1>4, <1>5, <1>6, <1>7, <1>8, <1>9, <1>10, <1>11 DEF Next, Read

-----------------------------------------------------------------------------
(* The pool and the balancer *)

\* What the steps outside updateServers leave alone.
LEMMA OutsideUpdate ==
    ASSUME LockOK, PoolOK, RoutedIsPooled, TypeOK, NEW t \in Thread,
           UNCHANGED <<lock, servers, balancer, pooled, todo>>,
           \A u \in Thread \ {t} : pc'[u] = pc[u] /\ new'[u] = new[u],
           pc'[t] \notin {"add", "clear"}
    PROVE  LockOK' /\ PoolOK' /\ RoutedIsPooled'
BY DEF LockOK, PoolOK, RoutedIsPooled

LEMMA NextPool ==
    ASSUME TypeOK, LockOK, PoolOK, RoutedIsPooled, [Next]_vars
    PROVE  LockOK' /\ PoolOK' /\ RoutedIsPooled'
<1>1. ASSUME NEW t \in Thread, readHeader(t) \/ ping(t)
      PROVE  LockOK' /\ PoolOK' /\ RoutedIsPooled'
  <2>1. /\ UNCHANGED <<lock, servers, balancer, pooled, todo>>
        /\ \A u \in Thread \ {t} : pc'[u] = pc[u] /\ new'[u] = new[u]
        /\ pc'[t] = "decide"
    BY <1>1 DEF TypeOK, readHeader, ping, readNewTopologyIfPresent, Goto, listVars
  <2> QED
    BY <2>1, OutsideUpdate
<1>2. ASSUME NEW t \in Thread, readNewTopologyAndHash(t) \/ updateHashFunction(t)
      PROVE  LockOK' /\ PoolOK' /\ RoutedIsPooled'
  <2>1. pc[t] \in {"decide", "hash"} /\ UNCHANGED <<lock, servers, balancer, pooled, todo>>
    BY <1>2 DEF readNewTopologyAndHash, updateHashFunction, listVars
  <2>2. /\ \A u \in Thread \ {t} : pc'[u] = pc[u] /\ new'[u] = new[u]
        /\ pc'[t] \in {"ready", "update", "hash"}
    BY <1>2, <2>1 DEF TypeOK, readNewTopologyAndHash, updateHashFunction, Leave, Goto
  <2> QED
    BY <2>1, <2>2, OutsideUpdate
<1>3. ASSUME NEW t \in Thread, updateServers(t)
      PROVE  LockOK' /\ PoolOK' /\ RoutedIsPooled'
  \* The mutex was free, so nobody was inside.
  <2>1. \A u \in Thread \ {t} : pc'[u] = pc[u] /\ pc[u] \notin {"add", "clear"}
    BY <1>3, ClientsAssumption DEF TypeOK, LockOK, updateServers, Free, Goto
  <2>2. LockOK'
    BY <1>3, <2>1 DEF TypeOK, LockOK, updateServers, Goto
  <2>3. Members[new[t]] \subseteq pooled \cup (Members[new[t]] \ servers)
    BY DEF PoolOK
  <2>4. PoolOK'
    BY <1>3, <2>1, <2>3 DEF TypeOK, PoolOK, updateServers, Goto, listVars
  <2> QED
    BY <1>3, <2>2, <2>4 DEF RoutedIsPooled, updateServers, listVars
<1>4. ASSUME NEW t \in Thread, NEW s \in Server, addObject(t, s)
      PROVE  LockOK' /\ PoolOK' /\ RoutedIsPooled'
  BY <1>4 DEF TypeOK, LockOK, PoolOK, RoutedIsPooled, addObject, listVars
<1>5. ASSUME NEW t \in Thread, NEW s \in Server, addObjectThrows(t, s)
      PROVE  LockOK' /\ PoolOK' /\ RoutedIsPooled'
  <2>1. \A u \in Thread : pc'[u] \notin {"add", "clear"}
    BY <1>5 DEF TypeOK, LockOK, addObjectThrows, Leave, Goto
  <2> QED
    BY <1>5, <2>1 DEF LockOK, PoolOK, RoutedIsPooled, addObjectThrows, listVars
<1>6. ASSUME NEW t \in Thread, setServers(t)
      PROVE  LockOK' /\ PoolOK' /\ RoutedIsPooled'
  <2>1. LockOK' /\ \A u \in Thread \ {t} : pc'[u] \notin {"add", "clear"}
    BY <1>6 DEF TypeOK, LockOK, setServers, Goto
  <2> QED
    BY <1>6, <2>1 DEF TypeOK, PoolOK, RoutedIsPooled, setServers, Goto
<1>7. ASSUME NEW t \in Thread, clearFailed(t)
      PROVE  LockOK' /\ PoolOK' /\ RoutedIsPooled'
  <2>1. \A u \in Thread : pc'[u] \notin {"add", "clear"}
    BY <1>7 DEF TypeOK, LockOK, clearFailed, Goto
  <2>2. balancer = Members[new[t]] /\ balancer' = balancer
    BY <1>7 DEF PoolOK, clearFailed
  <2> QED
    BY <1>7, <2>1, <2>2 DEF LockOK, PoolOK, RoutedIsPooled, clearFailed
<1>8. ASSUME NEW s \in Server, Learn(s)
      PROVE  LockOK' /\ PoolOK' /\ RoutedIsPooled'
  BY <1>8 DEF LockOK, PoolOK, RoutedIsPooled, Learn, listVars
<1>9. CASE UNCHANGED vars
  BY <1>9 DEF LockOK, PoolOK, RoutedIsPooled, vars
<1> QED
  BY <1>1, <1>2, <1>3, <1>4, <1>5, <1>6, <1>7, <1>8, <1>9 DEF Next, Read

-----------------------------------------------------------------------------
(* The Topology objects, the consistent hash and the recorded id *)

\* Two threads use one Topology object only if they share a cache.
LEMMA OwnObject ==
    ASSUME ParamsOK, Unshared, NEW t \in Thread, NEW u \in Thread, t # u
    PROVE  params[t].topologyId # params[u].topologyId /\ params[t].topologyId # u
<1>1. CacheOf[t] # CacheOf[u] /\ CacheOf[t] \in Cache /\ CacheOf[u] \in Cache
  BY ClientsAssumption DEF Unshared
<1>2. params[t].topologyId \in {CacheOf[t], t} /\ params[u].topologyId \in {CacheOf[u], u}
  BY DEF ParamsOK
<1> QED
  BY <1>1, <1>2, ClientsAssumption

\* Whoever leaves a response takes the ids of nobody else along.
LEMMA LeaveIds ==
    ASSUME TypeOK, ParamsOK, IdOK, NEW t \in Thread, Leave(t)
    PROVE  ParamsOK' /\ IdOK'
<1>1. ParamsOK'
  BY DEF TypeOK, ParamsOK, Leave
<1>2. ASSUME Unshared, NEW u \in Thread, pc'[u] # "ready"
      PROVE  topologyId'[params'[u].topologyId] = new'[u]
  <2>1. u # t /\ pc'[u] = pc[u] /\ new'[u] = new[u] /\ params'[u] = params[u]
    BY <1>2 DEF TypeOK, Leave, Goto
  <2>2. params[u].topologyId # t /\ params[u].topologyId \in Cache \cup Thread
    BY <1>2, <2>1, OwnObject DEF TypeOK
  <2> QED
    BY <1>2, <2>1, <2>2 DEF TypeOK, IdOK, Leave
<1> QED
  BY <1>1, <1>2 DEF IdOK

LEMMA ReaderIds ==
    ASSUME TypeOK, ParamsOK, IdOK, NEW t \in Thread, NEW cache, NEW object, NEW announced,
           <<cache, object>> \in {<<CacheOf[t], CacheOf[t]>>, <<EmptyName, t>>},
           readNewTopologyIfPresent(t, cache, object, announced)
    PROVE  ParamsOK' /\ IdOK'
<1>1. PICK s \in balancer \cap pooled :
         /\ new' = [new EXCEPT ![t] = known[s]]
         /\ topologyId' = [topologyId EXCEPT ![object] = known[s]]
  BY DEF readNewTopologyIfPresent, getTransport, getHashAwareServer
<1>2. object \in Cache \cup Thread
  BY ClientsAssumption
<1>3. params' = [params EXCEPT ![t] = [cacheName |-> cache, topologyId |-> object]]
  BY DEF readNewTopologyIfPresent
<1>4. ParamsOK'
  BY <1>3 DEF TypeOK, ParamsOK
<1>5. ASSUME Unshared, NEW u \in Thread, pc'[u] # "ready"
      PROVE  topologyId'[params'[u].topologyId] = new'[u]
  <2>1. CASE u = t
    BY <1>1, <1>2, <1>3, <2>1 DEF TypeOK
  <2>2. CASE u # t
    <3>1. pc'[u] = pc[u] /\ new'[u] = new[u] /\ params'[u] = params[u]
      BY <1>1, <1>3, <2>2 DEF TypeOK, readNewTopologyIfPresent, Goto
    <3>2. params[u].topologyId \in {CacheOf[u], u}
      BY DEF ParamsOK
    <3>3. params[u].topologyId # object /\ params[u].topologyId \in Cache \cup Thread
      BY <1>5, <2>2, <3>2, ClientsAssumption DEF Unshared
    <3> QED
      BY <1>1, <1>5, <3>1, <3>3 DEF TypeOK, IdOK
  <2> QED
    BY <2>1, <2>2
<1> QED
  BY <1>4, <1>5 DEF IdOK

LEMMA NextHash ==
    ASSUME TypeOK, ParamsOK, IdOK, HashOK, [Next]_vars
    PROVE  ParamsOK' /\ IdOK' /\ HashOK'
<1>1. ASSUME NEW t \in Thread, readHeader(t)
      PROVE  ParamsOK' /\ IdOK' /\ HashOK'
  <2>1. HashOK'
    BY <1>1 DEF readHeader, HashOK, readNewTopologyIfPresent, hashVars
  <2>2. ParamsOK' /\ IdOK'
    BY <1>1, ReaderIds DEF readHeader
  <2> QED
    BY <2>1, <2>2
<1>2. ASSUME NEW t \in Thread, ping(t)
      PROVE  ParamsOK' /\ IdOK' /\ HashOK'
  <2>1. HashOK'
    BY <1>2 DEF ping, HashOK, readNewTopologyIfPresent, hashVars
  <2>2. ParamsOK' /\ IdOK'
    BY <1>2, ReaderIds DEF ping
  <2> QED
    BY <2>1, <2>2
<1>3. ASSUME NEW t \in Thread, readNewTopologyAndHash(t)
      PROVE  ParamsOK' /\ IdOK' /\ HashOK'
  <2>1. HashOK'
    BY <1>3 DEF HashOK, readNewTopologyAndHash, hashVars
  <2>2. CASE Leave(t)
    BY <2>1, <2>2, LeaveIds
  <2>3. CASE topologyIdsByCache[params[t].cacheName] # new[t]
    <3>1. /\ topologyId' = [topologyId EXCEPT ![params[t].topologyId] = new[t]]
          /\ params' = params /\ new' = new /\ pc[t] = "decide"
          /\ \A u \in Thread \ {t} : pc'[u] = pc[u]
      BY <1>3, <2>3 DEF TypeOK, readNewTopologyAndHash, Goto
    <3>2. ASSUME Unshared, NEW u \in Thread, pc'[u] # "ready"
          PROVE  topologyId'[params'[u].topologyId] = new'[u]
      <4>1. pc[u] # "ready" /\ params[u].topologyId \in Cache \cup Thread
        BY <3>1, <3>2 DEF TypeOK
      <4>2. CASE u = t
        BY <3>1, <4>1, <4>2 DEF TypeOK
      <4>3. CASE u # t
        <5>1. params[u].topologyId # params[t].topologyId
          BY <3>2, <4>3, OwnObject
        <5> QED
          BY <3>1, <3>2, <4>1, <5>1 DEF TypeOK, IdOK
      <4> QED
        BY <4>2, <4>3
    <3> QED
      BY <2>1, <3>1, <3>2 DEF ParamsOK, IdOK
  <2> QED
    BY <1>3, <2>2, <2>3 DEF readNewTopologyAndHash
<1>4. ASSUME NEW t \in Thread, NEW s \in Server, addObjectThrows(t, s)
      PROVE  ParamsOK' /\ IdOK' /\ HashOK'
  BY <1>4, LeaveIds DEF addObjectThrows, HashOK, hashVars
<1>5. ASSUME NEW t \in Thread, updateHashFunction(t)
      PROVE  ParamsOK' /\ IdOK' /\ HashOK'
  <2>1. CASE new[t] \in Hashed
    <3>1. updateTopology(t) /\ Leave(t) /\ pc[t] = "hash"
      BY <1>5, <2>1 DEF updateHashFunction
    <3>2. params[t].cacheName \in Cache
      BY DEF TypeOK
    <3>3. HashOK'
      BY <3>1, <3>2 DEF TypeOK, HashOK, IdOK, updateTopology
    <3> QED
      BY <3>1, <3>3, LeaveIds
  <2>2. CASE new[t] \notin Hashed
    BY <1>5, <2>2 DEF updateHashFunction, ParamsOK, IdOK, HashOK, hashVars
  <2> QED
    BY <2>1, <2>2
<1>6. ASSUME NEW t \in Thread, updateServers(t) \/ setServers(t) \/ clearFailed(t)
      PROVE  ParamsOK' /\ IdOK' /\ HashOK'
  <2>1. /\ UNCHANGED <<params, new, topologyId, hashVars>> /\ pc[t] # "ready"
        /\ \A u \in Thread \ {t} : pc'[u] = pc[u]
    BY <1>6 DEF TypeOK, updateServers, setServers, clearFailed, Goto
  <2> QED
    BY <2>1 DEF ParamsOK, IdOK, HashOK, hashVars
<1>7. ASSUME NEW t \in Thread, NEW s \in Server, addObject(t, s)
      PROVE  ParamsOK' /\ IdOK' /\ HashOK'
  BY <1>7 DEF ParamsOK, IdOK, HashOK, hashVars, addObject
<1>8. ASSUME NEW s \in Server, Learn(s)
      PROVE  ParamsOK' /\ IdOK' /\ HashOK'
  BY <1>8 DEF ParamsOK, IdOK, HashOK, hashVars, Learn
<1>9. CASE UNCHANGED vars
  BY <1>9 DEF ParamsOK, IdOK, HashOK, vars
<1> QED
  BY <1>1, <1>2, <1>3, <1>4, <1>5, <1>6, <1>7, <1>8, <1>9 DEF Next, Read

-----------------------------------------------------------------------------
(* The two mutexes *)

LEMMA NextPoolLock ==
    ASSUME PoolLockOK, [Next]_vars
    PROVE  PoolLockOK'
BY DEF PoolLockOK, Next, Read, readHeader, ping, readNewTopologyIfPresent, Leave,
       readNewTopologyAndHash, updateServers, addObject, addObjectThrows, setServers, clearFailed,
       updateHashFunction, Learn, vars, stable

-----------------------------------------------------------------------------
(* Theorems *)

LEMMA Initially == Init => IInv
<1>1. ASSUME Init PROVE ParamsOK
  BY <1>1 DEF Init, ParamsOK
<1>2. ASSUME Init PROVE LockOK /\ PoolOK /\ RoutedIsPooled /\ IdOK /\ HashOK /\ PoolLockOK
  BY <1>2 DEF Init, LockOK, PoolOK, RoutedIsPooled, IdOK, HashOK, PoolLockOK
<1> QED
  BY <1>1, <1>2, InitTypes DEF IInv

\* The inductive invariant of the steps by which a client follows a topology.
THEOREM TopologyInvariant == Spec => []IInv
<1>1. IInv /\ [Next]_vars => IInv'
  BY NextTypes, NextPool, NextHash, NextPoolLock DEF IInv
<1> QED
  BY Initially, <1>1, PTL DEF Spec

\* Every variable of the topology update stays in its domain.
THEOREM TopologyTypes == Spec => []TypeOK
BY TopologyInvariant, PTL DEF IInv

\* However many threads read topologies, and whatever connection cannot be opened half way
\* through updateServers, the balancer hands out servers for which the pool has queues.
THEOREM RoutedServersArePooled == Spec => []RoutedIsPooled
BY TopologyInvariant, PTL DEF IInv

\* Without two threads on one cache, updateTopology records the id of the topology that it
\* built the consistent hash from.
THEOREM HashAndIdAgree == Spec => []HashMatchesId
<1>1. IInv => HashMatchesId
  BY ClientsAssumption DEF IInv, HashOK, Unshared, HashMatchesId
<1> QED
  BY <1>1, TopologyInvariant, PTL

\* Without testOnBorrow nobody comes to the factory's mutex with the pool's.
THEOREM MutexesAreOrdered == Spec => []LocksAreOrdered
<1>1. IInv => LocksAreOrdered
  BY ClientsAssumption DEF IInv, PoolLockOK, LocksAreOrdered
<1> QED
  BY <1>1, TopologyInvariant, PTL

==============================================================================
