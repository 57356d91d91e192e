---------------------------- MODULE NodeStartup -----------------------------
(***************************************************************************)
(* Nodes that start, join the system through a node that exists, and serve *)
(* others that join through them (src/Node.js), with their system caches   *)
(* (src/cache).  Requests between nodes go through module RpcService,      *)
(* which MessagingLayer implements; a request may get lost on its way.     *)
(*                                                                         *)
(* A node's constructor is a sequence of awaits.  Its message layer serves *)
(* other nodes from the second one on, long before its caches are filled.  *)
(* Ids and zones are fresh uuids: a node stands for its id, for that of    *)
(* its message group and for the zone it creates.  The code cache is left  *)
(* out: nothing is ever added to it.                                       *)
(***************************************************************************)
EXTENDS Naturals

CONSTANTS
  Nodes,
  NoNode,         \* no existingNode: the first node of a system
  InitialZone     \* '<initial>'

ASSUME NodesAssumption == NoNode \notin Nodes /\ InitialZone \notin Nodes

VARIABLES
  stage,       \* per node: how far its constructor has come
  existing,    \* per node: existingNode
  zone,        \* per node: latencyZone
  nodes,       \* per node: the rows of its NodesCache
  groups,      \* per node: the rows of its RaftGroupsCache
  serving,     \* per joining node: what its peer's handler reads next for it
  reply,       \* per joining node: what that handler has read
  inserting,   \* per joining node: the rows its INSERTs have yet to store
  phase,       \* per request: how far it has come (RpcService)
  lost,        \* requests that will not be answered
  asked,       \* history: what the peer knew when a node asked it
  whole        \* history: nodes whose peer had filled its caches when it read them

placeVars == <<existing, zone>>
cacheVars == <<nodes, groups>>
exchangeVars == <<serving, reply, inserting>>
callVars == <<phase, lost>>
history == <<asked, whole>>
vars == <<stage, placeVars, cacheVars, exchangeVars, callVars, history>>

Zones == Nodes \cup {InitialZone}
Row == [id : Nodes, zone : Zones]
Caches == [nodes : SUBSET Row, groups : SUBSET Nodes]
NoRows == [nodes |-> {}, groups |-> {}]

IdsOf(rows) == {row.id : row \in rows}

\* GET_PEER_DATA and PING_NODE.  A node fetches once, and pings one node of each
\* zone it knows.
Requests ==
  {r \in [op : {"fetch", "ping"}, from : Nodes, to : Nodes] : r.from # r.to}
Fetch(n) == [op |-> "fetch", from |-> n, to |-> existing[n]]
Ping(n, m) == [op |-> "ping", from |-> n, to |-> m]

Rpc == INSTANCE RpcService

\* serializeAllCaches goes through the caches in the order of their creation.
\* Mutant: the other order.
GroupsFirst == [first |-> "groups", groups |-> "nodes", nodes |-> "answer"]
NextCache == [first |-> "nodes", nodes |-> "groups", groups |-> "answer"]

Opened == {n \in Nodes : stage[n] \notin {"down", "opening"}}
Filled == {n \in Opened : stage[n] \notin {"fetching", "populating"}}

-----------------------------------------------------------------------------
Init ==
  /\ stage = [n \in Nodes |-> "down"]
  /\ existing = [n \in Nodes |-> NoNode]
  /\ zone = [n \in Nodes |-> InitialZone]
  /\ nodes = [n \in Nodes |-> {}]
  /\ groups = [n \in Nodes |-> {}]
  /\ serving = [n \in Nodes |-> "nothing"]
  /\ reply = [n \in Nodes |-> NoRows]
  /\ inserting = [n \in Nodes |-> NoRows]
  /\ phase = [r \in Requests |-> "idle"]
  /\ lost = {}
  /\ asked = [n \in Nodes |-> {}]
  /\ whole = {}

Goto(n, s) == stage' = [stage EXCEPT ![n] = s]

\* A process is started, with or without an existing node.
Start(n, p) ==
  /\ stage[n] = "down" /\ p # n
  /\ Goto(n, "opening")
  /\ existing' = [existing EXCEPT ![n] = p]
  /\ UNCHANGED <<zone, cacheVars, exchangeVars, callVars, history>>

\* openMessageLayer is done, the caches are created.  The first node creates
\* its zone and goes on to findOrCreateLatencyZone.
OpenFirst(n) ==
  /\ stage[n] = "opening" /\ existing[n] = NoNode
  /\ Goto(n, "zoning")
  /\ zone' = [zone EXCEPT ![n] = n]
  /\ whole' = whole \cup {n}
  /\ UNCHANGED <<existing, cacheVars, exchangeVars, callVars, asked>>

\* Mutant of OpenJoining: the node adds its message group before it asks.
OpenRegistered(n) ==
  /\ stage[n] = "opening" /\ existing[n] # NoNode
  /\ Goto(n, "fetching")
  /\ Rpc!Request(Fetch(n))
  /\ asked' = [asked EXCEPT ![n] = nodes[existing[n]]]
  /\ groups' = [groups EXCEPT ![n] = @ \cup {n}]
  /\ UNCHANGED <<placeVars, nodes, exchangeVars, lost, whole>>

\* Any other node asks its existing node for its caches (fetchPeerData).
OpenJoining(n) ==
  /\ stage[n] = "opening" /\ existing[n] # NoNode
  /\ Goto(n, "fetching")
  /\ Rpc!Request(Fetch(n))
  /\ asked' = [asked EXCEPT ![n] = nodes[existing[n]]]
  /\ UNCHANGED <<placeVars, cacheVars, exchangeVars, lost, whole>>

-----------------------------------------------------------------------------
OnItsWay(r) == phase[r] = "requested" /\ r \notin lost

\* A message or a statement of an exchange fails: the caller waits for ever.
Lose(r) ==
  /\ phase[r] \in {"requested", "executed"} /\ r \notin lost
  /\ lost' = lost \cup {r}
  /\ UNCHANGED <<stage, placeVars, cacheVars, exchangeVars, phase, history>>

\* The destination has not registered its receive callback.
ArriveTooEarly(r) ==
  /\ OnItsWay(r) /\ r.to \notin Opened
  /\ lost' = lost \cup {r}
  /\ UNCHANGED <<stage, placeVars, cacheVars, exchangeVars, phase, history>>

\* Mutant of ServeFetch: the handler waits until its own node has joined.
ServeWhenJoined(r) ==
  /\ r.op = "fetch" /\ OnItsWay(r) /\ r.to \in Opened
  /\ stage[r.to] \in {"ready", "closed"}
  /\ Rpc!Execute(r)
  /\ serving' = [serving EXCEPT ![r.from] = NextCache.first]
  /\ UNCHANGED <<stage, placeVars, cacheVars, reply, inserting, lost, history>>

\* getPeerDataHandler: serializeAllCaches reads one cache after the other.
ServeFetch(r) ==
  /\ r.op = "fetch" /\ OnItsWay(r) /\ r.to \in Opened
  /\ Rpc!Execute(r)
  /\ serving' = [serving EXCEPT ![r.from] = NextCache.first]
  /\ UNCHANGED <<stage, placeVars, cacheVars, reply, inserting, lost, history>>

\* The SELECT of the peer's NodesCache, and then that of its RaftGroupsCache.
ReadNodes(n) ==
  /\ serving[n] = "nodes" /\ Fetch(n) \notin lost
  /\ reply' = [reply EXCEPT ![n].nodes = nodes[existing[n]]]
  /\ serving' = [serving EXCEPT ![n] = NextCache.nodes]
  /\ whole' = IF existing[n] \in whole \cap Filled THEN whole \cup {n} ELSE whole
  /\ UNCHANGED <<stage, placeVars, cacheVars, inserting, callVars, asked>>

ReadGroups(n) ==
  /\ serving[n] = "groups" /\ Fetch(n) \notin lost
  /\ reply' = [reply EXCEPT ![n].groups = groups[existing[n]]]
  /\ serving' = [serving EXCEPT ![n] = NextCache.groups]
  /\ UNCHANGED <<stage, placeVars, cacheVars, inserting, callVars, history>>

\* The acknowledgement goes out, unless the peer has closed its database.
AnswerFetch(n) ==
  /\ serving[n] = "answer" /\ Fetch(n) \notin lost
  /\ serving' = [serving EXCEPT ![n] = "answered"]
  /\ lost' = IF stage[existing[n]] = "closed" THEN lost \cup {Fetch(n)} ELSE lost
  /\ UNCHANGED <<stage, placeVars, cacheVars, reply, inserting, phase, history>>

\* fetchPeerData resolves, and populateAllCaches starts the INSERTs of all rows.
ReceiveCaches(n) ==
  /\ stage[n] = "fetching" /\ serving[n] = "answered" /\ Fetch(n) \notin lost
  /\ Rpc!End(Fetch(n))
  /\ inserting' = [inserting EXCEPT ![n] = reply[n]]
  /\ Goto(n, "populating")
  /\ UNCHANGED <<placeVars, cacheVars, serving, reply, lost, history>>

\* One of these INSERTs is done, in any order.
InsertNode(n, row) ==
  /\ row \in inserting[n].nodes
  /\ nodes' = [nodes EXCEPT ![n] = @ \cup {row}]
  /\ inserting' = [inserting EXCEPT ![n].nodes = @ \ {row}]
  /\ UNCHANGED <<stage, placeVars, groups, serving, reply, callVars, history>>

InsertGroup(n, g) ==
  /\ g \in inserting[n].groups
  /\ groups' = [groups EXCEPT ![n] = @ \cup {g}]
  /\ inserting' = [inserting EXCEPT ![n].groups = @ \ {g}]
  /\ UNCHANGED <<stage, placeVars, nodes, serving, reply, callVars, history>>

\* Mutant of Populated: nothing awaits the INSERTs.
PopulatedAtOnce(n) ==
  /\ stage[n] = "populating"
  /\ Goto(n, "zoning")
  /\ UNCHANGED <<placeVars, cacheVars, exchangeVars, callVars, history>>

\* All of them are.
Populated(n) ==
  /\ stage[n] = "populating" /\ inserting[n] = NoRows
  /\ Goto(n, "zoning")
  /\ UNCHANGED <<placeVars, cacheVars, exchangeVars, callVars, history>>

-----------------------------------------------------------------------------
Tried(n) ==
  {row.zone : row \in {x \in nodes[n] : phase[Ping(n, x.id)] # "idle"}}

\* findOrCreateLatencyZone pings a node, any one, of a zone it has not tried.
PingZone(n, row) ==
  /\ stage[n] = "zoning" /\ row \in nodes[n] /\ row.zone \notin Tried(n)
  /\ Rpc!Request(Ping(n, row.id))
  /\ Goto(n, "pinging")
  /\ UNCHANGED <<placeVars, cacheVars, exchangeVars, lost, history>>

\* handlePingNode.  A closed node cannot save its acknowledgement.
AnswerPing(r) ==
  /\ r.op = "ping" /\ OnItsWay(r) /\ r.to \in Opened
  /\ Rpc!Execute(r)
  /\ lost' = IF stage[r.to] = "closed" THEN lost \cup {r} ELSE lost
  /\ UNCHANGED <<stage, placeVars, cacheVars, exchangeVars, history>>

\* Mutant of PingedFast: the node takes the row over instead of its zone.
TakeRowOver(n, row) ==
  /\ stage[n] = "pinging" /\ row \in nodes[n] /\ Ping(n, row.id) \notin lost
  /\ Rpc!End(Ping(n, row.id))
  /\ zone' = [zone EXCEPT ![n] = row]
  /\ Goto(n, "registering")
  /\ UNCHANGED <<existing, cacheVars, exchangeVars, lost, history>>

\* The answer came within MAX_LATENCY_THRESHOLD: the node takes the zone over.
PingedFast(n, row) ==
  /\ stage[n] = "pinging" /\ row \in nodes[n] /\ Ping(n, row.id) \notin lost
  /\ Rpc!End(Ping(n, row.id))
  /\ zone' = [zone EXCEPT ![n] = row.zone]
  /\ Goto(n, "registering")
  /\ UNCHANGED <<existing, cacheVars, exchangeVars, lost, history>>

\* It came later.
PingedSlowly(n, row) ==
  /\ stage[n] = "pinging" /\ row \in nodes[n] /\ Ping(n, row.id) \notin lost
  /\ Rpc!End(Ping(n, row.id))
  /\ Goto(n, "zoning")
  /\ UNCHANGED <<placeVars, cacheVars, exchangeVars, lost, history>>

\* No zone is left to try: the node keeps the zone it has.
NoZoneNear(n) ==
  /\ stage[n] = "zoning" /\ \A row \in nodes[n] : row.zone \in Tried(n)
  /\ Goto(n, "registering")
  /\ UNCHANGED <<placeVars, cacheVars, exchangeVars, callVars, history>>

\* addNewlyCreatedThingsToCaches: first the message group, then the node.
RegisterGroup(n) ==
  /\ stage[n] = "registering"
  /\ groups' = [groups EXCEPT ![n] = @ \cup {n}]
  /\ Goto(n, "listing")
  /\ UNCHANGED <<placeVars, nodes, exchangeVars, callVars, history>>

\* Mutant of RegisterNode: the row is the one the node had when it opened.
RegisterEarlyRow(n) ==
  /\ stage[n] = "listing"
  /\ nodes' = [nodes EXCEPT ![n] = @ \cup {[id |-> n, zone |-> InitialZone]}]
  /\ Goto(n, "ready")
  /\ UNCHANGED <<placeVars, groups, exchangeVars, callVars, history>>

RegisterNode(n) ==
  /\ stage[n] = "listing"
  /\ nodes' = [nodes EXCEPT ![n] = @ \cup {[id |-> n, zone |-> zone[n]]}]
  /\ Goto(n, "ready")
  /\ UNCHANGED <<placeVars, groups, exchangeVars, callVars, history>>

\* shutdown.  The caches stay, and the handlers keep answering from them.
Shutdown(n) ==
  /\ stage[n] = "ready"
  /\ Goto(n, "closed")
  /\ UNCHANGED <<placeVars, cacheVars, exchangeVars, callVars, history>>

-----------------------------------------------------------------------------
\* The constructor, one await after the other.
ConstructorStep(n) ==
  \/ OpenFirst(n) \/ OpenJoining(n)
  \/ ReceiveCaches(n)
  \/ \E row \in inserting[n].nodes : InsertNode(n, row)
  \/ \E g \in inserting[n].groups : InsertGroup(n, g)
  \/ Populated(n)
  \/ \E row \in nodes[n] :
       PingZone(n, row) \/ PingedFast(n, row) \/ PingedSlowly(n, row)
  \/ NoZoneNear(n) \/ RegisterGroup(n) \/ RegisterNode(n)

\* The handler of the peer, for joining node n.
ServeStep(n) == ReadNodes(n) \/ ReadGroups(n) \/ AnswerFetch(n)

\* A request arrives at its destination.
Incoming(n) == {r \in Requests : r.to = n /\ OnItsWay(r)}
Arrive(r) == ArriveTooEarly(r) \/ ServeFetch(r) \/ AnswerPing(r)

\* All that one process runs, for itself and for others.
EventLoop(n) ==
  \/ ConstructorStep(n)
  \/ \E m \in Nodes : existing[m] = n /\ ServeStep(m)
  \/ \E r \in Incoming(n) : Arrive(r)

Under == {r \in Requests : phase[r] \in {"requested", "executed"}}

Next ==
  \/ \E n \in Nodes, p \in Nodes \cup {NoNode} : Start(n, p)
  \/ \E n \in Nodes : EventLoop(n) \/ Shutdown(n)
  \/ \E r \in Under : Lose(r)

Spec == Init /\ [][Next]_vars

\* The event loop runs what is due, and what is not lost arrives.  Nothing makes
\* a node start or shut down, a ping be fast, or a message arrive in time.  The
\* work of a process is finite: it does not have to be fair within itself.
Fairness == \A n \in Nodes : WF_vars(EventLoop(n))

FairSpec == Spec /\ Fairness

-----------------------------------------------------------------------------
Stages == {"down", "opening", "fetching", "populating", "zoning", "pinging",
           "registering", "listing", "ready", "closed"}

TypeOK ==
  /\ stage \in [Nodes -> Stages]
  /\ existing \in [Nodes -> Nodes \cup {NoNode}]
  /\ zone \in [Nodes -> Zones]
  /\ nodes \in [Nodes -> SUBSET Row]
  /\ groups \in [Nodes -> SUBSET Nodes]
  /\ serving \in [Nodes -> {"nothing", "nodes", "groups", "answer", "answered"}]
  /\ reply \in [Nodes -> Caches]
  /\ inserting \in [Nodes -> Caches]
  /\ phase \in [Requests -> Rpc!Phases]
  /\ lost \subseteq Requests
  /\ asked \in [Nodes -> SUBSET Row]
  /\ whole \subseteq Nodes

\* messagingLayer.test.js, with any number of nodes and at any moment: a node
\* that has filled its caches knows every node its peer knew when it asked.
PeerKnowledgeInherited ==
  \A n \in Filled : asked[n] \subseteq nodes[n]

\* The caches are read by one SELECT after the other and filled row by row, yet
\* they fit together: a node that joined through peers with filled caches knows
\* the message group of every node it knows.
KnownNodesHaveGroups ==
  \A n \in whole \cap Filled : IdsOf(nodes[n]) \subseteq groups[n]

\* A node never gets its own rows back from its peer, even when nodes join
\* through each other in a circle: its INSERTs never violate a primary key,
\* which would end its constructor.
OwnRowsNeverReturn ==
  \A n \in Nodes : n \notin IdsOf(reply[n].nodes) \cup reply[n].groups

\* All caches, and all replies under way, agree on the zone of a node: it is
\* listed when its zone is final.
ZonesAgree ==
  \A n \in Nodes : \A row \in nodes[n] \cup reply[n].nodes : row.zone = zone[row.id]

\* A node that starts comes to the end of its constructor, unless a request of
\* its own was lost: in particular, nodes that join through each other do not
\* wait for each other.
JoinCompletes ==
  \A n \in Nodes :
    stage[n] = "opening" ~>
      stage[n] \in {"ready", "closed"} \/ \E r \in lost : r.from = n

-----------------------------------------------------------------------------
\* SystemCache.js:9: when a system table is updated, its leader "will update the
\* other nodes in the system": a node that has entered its row in its own cache
\* comes to be known by each node it knows, unless one of the two is closed or a
\* message is lost.
UpdatesReachNodes ==
  \A n, m \in Nodes :
    (stage[n] = "ready" /\ m \in IdsOf(nodes[n])) ~>
      (n \in IdsOf(nodes[m]) \/ "closed" \in {stage[n], stage[m]} \/ lost # {})
=============================================================================
