------------------------ MODULE NodeStartupProofs ------------------------
(***************************************************************************)
(* The safety of NodeStartup, for any number of nodes in any topology.     *)
(***************************************************************************)
EXTENDS NodeStartup, TLAPS

\* How far the exchange of a joining node with its peer has come.
Exchanges ==
  /\ \A n \in Nodes :
       /\ existing[n] # n
       /\ stage[n] \in {"down", "opening"} => serving[n] = "nothing"
       /\ stage[n] \in {"fetching", "populating"} => existing[n] \in Nodes
       /\ serving[n] \in {"nodes", "groups", "answer"} => stage[n] = "fetching"
       /\ stage[n] # "populating" => inserting[n] = NoRows
  /\ \A r \in Requests :
       r.op = "fetch" /\ phase[r] = "requested" =>
         /\ stage[r.from] = "fetching" /\ serving[r.from] = "nothing"
         /\ r.to = existing[r.from]

\* A node is listed, anywhere, only when its zone is final; its group somewhat
\* earlier.
ListedNodesAreReady ==
  \A n \in Nodes :
    /\ \A row \in nodes[n] \cup reply[n].nodes \cup inserting[n].nodes :
         stage[row.id] \in {"ready", "closed"} /\ row.zone = zone[row.id]
    /\ \A g \in groups[n] \cup reply[n].groups \cup inserting[n].groups :
         stage[g] \in {"listing", "ready", "closed"}

\* What a peer knew stays on its way to the node that asked.
AskedIsOnItsWay ==
  \A n \in Nodes :
    /\ stage[n] \in {"down", "opening"} => asked[n] = {}
    /\ stage[n] = "fetching" => asked[n] \subseteq nodes[existing[n]]
    /\ stage[n] = "fetching" /\ serving[n] \in {"groups", "answer", "answered"} =>
         asked[n] \subseteq reply[n].nodes
    /\ stage[n] = "populating" => asked[n] \subseteq nodes[n] \cup inserting[n].nodes
    /\ n \in Filled => asked[n] \subseteq nodes[n]

\* The group of a known node is known, or on its way.
GroupsFollow ==
  \A n \in Nodes :
    /\ stage[n] \in {"down", "opening", "fetching"} => nodes[n] = {}
    /\ stage[n] = "listing" => n \in groups[n]
    /\ n \in whole =>
         /\ stage[n] \notin {"down", "opening"}
         /\ stage[n] = "fetching" =>
              /\ serving[n] \notin {"nothing", "nodes"}
              /\ serving[n] = "groups" =>
                   IdsOf(reply[n].nodes) \subseteq groups[existing[n]]
              /\ serving[n] \in {"answer", "answered"} =>
                   IdsOf(reply[n].nodes) \subseteq reply[n].groups
         /\ stage[n] = "populating" =>
              IdsOf(nodes[n] \cup inserting[n].nodes)
                \subseteq groups[n] \cup inserting[n].groups
         /\ n \in Filled => IdsOf(nodes[n]) \subseteq groups[n]

IInv ==
  /\ TypeOK /\ Exchanges /\ ListedNodesAreReady
  /\ OwnRowsNeverReturn /\ AskedIsOnItsWay /\ GroupsFollow

-----------------------------------------------------------------------------
\* Caches stay caches when one of their tables changes.
LEMMA CacheUpdate ==
  ASSUME NEW f \in [Nodes -> Caches], NEW n \in Nodes,
         NEW table \in SUBSET Row, NEW ids \in SUBSET Nodes
  PROVE  /\ [f EXCEPT ![n].nodes = table] \in [Nodes -> Caches]
         /\ [f EXCEPT ![n].groups = ids] \in [Nodes -> Caches]
<1>1. f[n] \in Caches
  OBVIOUS
<1>2. /\ [f[n] EXCEPT !.nodes = table] \in Caches
      /\ [f[n] EXCEPT !.groups = ids] \in Caches
  BY <1>1 DEF Caches
<1> QED BY <1>2

\* A row has an id and a zone, and rows still to be inserted are not NoRows.
LEMMA RowParts ==
  ASSUME TypeOK, Exchanges, NEW n \in Nodes
  PROVE  /\ nodes[n] \in SUBSET Row
         /\ groups[n] \in SUBSET Nodes
         /\ \A row \in nodes[n] : row.id \in Nodes /\ row.zone \in Zones
         /\ inserting[n].nodes \in SUBSET Row
         /\ inserting[n].groups \in SUBSET Nodes
         /\ inserting[n].nodes \cup inserting[n].groups # {} =>
              stage[n] = "populating"
         /\ serving[n] \in {"nodes", "groups", "answer"} =>
              /\ existing[n] \in Nodes /\ Fetch(n) \in Requests
<1>1. inserting[n] \in Caches /\ nodes[n] \in SUBSET Row /\ groups[n] \in SUBSET Nodes
  BY DEF TypeOK
<1>2. stage[n] # "populating" => inserting[n].nodes = {} /\ inserting[n].groups = {}
  BY DEF Exchanges, NoRows
<1>3. serving[n] \in {"nodes", "groups", "answer"} =>
        existing[n] \in Nodes /\ existing[n] # n
  BY DEF Exchanges
<1> QED BY <1>1, <1>2, <1>3 DEF Caches, Row, Fetch, Requests

\* Every step keeps the types.
LEMMA TypingKept == ASSUME IInv, Next PROVE TypeOK'
<1> USE DEF IInv, TypeOK, placeVars, cacheVars, exchangeVars, callVars, history
<1>1. ASSUME NEW n \in Nodes, NEW p \in Nodes \cup {NoNode}, Start(n, p) PROVE
     TypeOK'
  BY <1>1 DEF Start, Goto, Stages, Rpc!Phases
<1>2. ASSUME NEW n \in Nodes, OpenFirst(n) PROVE TypeOK'
  BY <1>2 DEF OpenFirst, Goto, Zones, Stages
<1>3. ASSUME NEW n \in Nodes, OpenJoining(n) PROVE TypeOK'
  BY <1>3 DEF OpenJoining, Goto, Rpc!Request, Rpc!Advance, Stages, Rpc!Phases
<1>4. ASSUME NEW n \in Nodes, ReceiveCaches(n) PROVE TypeOK'
  BY <1>4 DEF ReceiveCaches, Goto, Rpc!End, Rpc!Advance, Stages, Rpc!Phases
<1>5. ASSUME NEW n \in Nodes, NEW row \in inserting[n].nodes, InsertNode(n,
     row) PROVE TypeOK'
  <2>1. row \in Row /\ inserting[n].nodes \ {row} \in SUBSET Row
    BY RowParts
  <2>2. inserting' \in [Nodes -> Caches]
    BY <1>5, <2>1, CacheUpdate DEF InsertNode
  <2> QED BY <1>5, <2>1, <2>2 DEF InsertNode
<1>6. ASSUME NEW n \in Nodes, NEW g \in inserting[n].groups, InsertGroup(n, g)
     PROVE TypeOK'
  <2>1. g \in Nodes /\ inserting[n].groups \ {g} \in SUBSET Nodes
    BY RowParts
  <2>2. inserting' \in [Nodes -> Caches]
    BY <1>6, <2>1, CacheUpdate DEF InsertGroup
  <2> QED BY <1>6, <2>1, <2>2 DEF InsertGroup
<1>7. ASSUME NEW n \in Nodes, Populated(n) PROVE TypeOK'
  BY <1>7 DEF Populated, Goto, Stages, Rpc!Phases
<1>8. ASSUME NEW n \in Nodes, NEW row \in nodes[n], PingZone(n, row) PROVE
     TypeOK'
  BY <1>8 DEF PingZone, Goto, Rpc!Request, Rpc!Advance, Stages, Rpc!Phases
<1>9. ASSUME NEW n \in Nodes, NEW row \in nodes[n], PingedFast(n, row) PROVE
     TypeOK'
  BY <1>9, RowParts, CacheUpdate DEF PingedFast, Goto, NextCache, Rpc!End,
     Rpc!Advance, Rpc!Phases, Stages
<1>10. ASSUME NEW n \in Nodes, NEW row \in nodes[n], PingedSlowly(n, row) PROVE
     TypeOK'
  BY <1>10 DEF PingedSlowly, Goto, Rpc!End, Rpc!Advance, Stages, Rpc!Phases
<1>11. ASSUME NEW n \in Nodes, NoZoneNear(n) PROVE TypeOK'
  BY <1>11 DEF NoZoneNear, Goto, Stages, Rpc!Phases
<1>12. ASSUME NEW n \in Nodes, RegisterGroup(n) PROVE TypeOK'
  BY <1>12 DEF RegisterGroup, Goto, Stages, Rpc!Phases
<1>13. ASSUME NEW n \in Nodes, RegisterNode(n) PROVE TypeOK'
  <2>1. [id |-> n, zone |-> zone[n]] \in Row
    BY DEF Row
  <2> QED BY <1>13, <2>1 DEF RegisterNode, Goto, Stages
<1>14. ASSUME NEW n \in Nodes, ReadNodes(n) PROVE TypeOK'
  BY <1>14, RowParts, CacheUpdate DEF ReadNodes, Goto, NextCache, Rpc!End,
     Rpc!Advance, Rpc!Phases, Stages
<1>15. ASSUME NEW n \in Nodes, ReadGroups(n) PROVE TypeOK'
  BY <1>15, RowParts, CacheUpdate DEF ReadGroups, Goto, NextCache, Rpc!End,
     Rpc!Advance, Rpc!Phases, Stages
<1>16. ASSUME NEW n \in Nodes, AnswerFetch(n) PROVE TypeOK'
  BY <1>16, RowParts, CacheUpdate DEF AnswerFetch, Goto, NextCache, Rpc!End,
     Rpc!Advance, Rpc!Phases, Stages
<1>17. ASSUME NEW r \in Requests, ArriveTooEarly(r) PROVE TypeOK'
  BY <1>17 DEF ArriveTooEarly, Stages, Rpc!Phases
<1>18. ASSUME NEW r \in Requests, ServeFetch(r) PROVE TypeOK'
  BY <1>18 DEF ServeFetch, NextCache, Requests, Rpc!Execute, Rpc!Advance,
     Rpc!Phases
<1>19. ASSUME NEW r \in Requests, AnswerPing(r) PROVE TypeOK'
  BY <1>19 DEF AnswerPing, Rpc!Execute, Rpc!Advance, Stages, Rpc!Phases
<1>20. ASSUME NEW n \in Nodes, Shutdown(n) PROVE TypeOK'
  BY <1>20 DEF Shutdown, Goto, Stages, Rpc!Phases
<1>21. ASSUME NEW r \in Requests, Lose(r) PROVE TypeOK'
  BY <1>21 DEF Lose, Stages, Rpc!Phases
<1> QED
  BY ONLY Next, <1>1, <1>2, <1>3, <1>4, <1>5, <1>6, <1>7, <1>8, <1>9, <1>10,
     <1>11, <1>12, <1>13, <1>14, <1>15, <1>16, <1>17, <1>18, <1>19, <1>20, <1>21
  DEF Next, EventLoop, ConstructorStep, ServeStep, Arrive, Incoming, Under

\* Every step keeps the exchanges in their order: a peer serves a node once,
\* while that node waits.
LEMMA ExchangesKept == ASSUME IInv, Next PROVE Exchanges'
<1> USE DEF IInv, Exchanges, Requests, TypeOK, placeVars, cacheVars,
     exchangeVars, callVars, history
<1>1. ASSUME NEW n \in Nodes, NEW p \in Nodes \cup {NoNode}, Start(n, p) PROVE
     Exchanges'
  BY <1>1 DEF Start, Goto
<1>2. ASSUME NEW n \in Nodes, OpenFirst(n) PROVE Exchanges'
  BY <1>2 DEF OpenFirst, Goto
<1>3. ASSUME NEW n \in Nodes, OpenJoining(n) PROVE Exchanges'
  BY <1>3 DEF OpenJoining, Goto, Fetch, Rpc!Request, Rpc!Advance
<1>4. ASSUME NEW n \in Nodes, ReceiveCaches(n) PROVE Exchanges'
  BY <1>4 DEF ReceiveCaches, Goto, Rpc!End, Rpc!Advance
<1>5. ASSUME NEW n \in Nodes, NEW row \in inserting[n].nodes, InsertNode(n,
     row) PROVE Exchanges'
  BY <1>5, RowParts DEF InsertNode
<1>6. ASSUME NEW n \in Nodes, NEW g \in inserting[n].groups, InsertGroup(n, g)
     PROVE Exchanges'
  BY <1>6, RowParts DEF InsertGroup
<1>7. ASSUME NEW n \in Nodes, Populated(n) PROVE Exchanges'
  BY <1>7 DEF Populated, Goto
<1>8. ASSUME NEW n \in Nodes, NEW row \in nodes[n], PingZone(n, row) PROVE
     Exchanges'
  BY <1>8 DEF PingZone, Goto, Ping, Rpc!Request, Rpc!Advance
<1>9. ASSUME NEW n \in Nodes, NEW row \in nodes[n], PingedFast(n, row) PROVE
     Exchanges'
  BY <1>9 DEF PingedFast, Goto, Rpc!End, Rpc!Advance
<1>10. ASSUME NEW n \in Nodes, NEW row \in nodes[n], PingedSlowly(n, row) PROVE
     Exchanges'
  BY <1>10 DEF PingedSlowly, Goto, Rpc!End, Rpc!Advance
<1>11. ASSUME NEW n \in Nodes, NoZoneNear(n) PROVE Exchanges'
  BY <1>11 DEF NoZoneNear, Goto
<1>12. ASSUME NEW n \in Nodes, RegisterGroup(n) PROVE Exchanges'
  BY <1>12 DEF RegisterGroup, Goto
<1>13. ASSUME NEW n \in Nodes, RegisterNode(n) PROVE Exchanges'
  BY <1>13 DEF RegisterNode, Goto
<1>14. ASSUME NEW n \in Nodes, ReadNodes(n) PROVE Exchanges'
  BY <1>14 DEF ReadNodes
<1>15. ASSUME NEW n \in Nodes, ReadGroups(n) PROVE Exchanges'
  BY <1>15 DEF ReadGroups
<1>16. ASSUME NEW n \in Nodes, AnswerFetch(n) PROVE Exchanges'
  BY <1>16 DEF AnswerFetch
<1>17. ASSUME NEW r \in Requests, ArriveTooEarly(r) PROVE Exchanges'
  BY <1>17 DEF ArriveTooEarly
<1>18. ASSUME NEW r \in Requests, ServeFetch(r) PROVE Exchanges'
  <2>1. /\ r.from \in Nodes /\ r.to = existing[r.from] /\ stage[r.from] = "fetching"
        /\ phase[r] = "requested" /\ phase' = [phase EXCEPT ![r] = "executed"]
    BY <1>18 DEF ServeFetch, OnItsWay, Rpc!Execute, Rpc!Advance
  <2>2. serving' = [serving EXCEPT ![r.from] = "nodes"]
    BY <1>18 DEF ServeFetch, NextCache
  <2>3. \A q \in Requests :
          q.op = "fetch" /\ q.from = r.from /\ phase[q] = "requested" => q = r
    BY <1>18, <2>1 DEF ServeFetch
  <2> QED BY <1>18, <2>1, <2>2, <2>3 DEF ServeFetch
<1>19. ASSUME NEW r \in Requests, AnswerPing(r) PROVE Exchanges'
  BY <1>19 DEF AnswerPing, Rpc!Execute, Rpc!Advance
<1>20. ASSUME NEW n \in Nodes, Shutdown(n) PROVE Exchanges'
  BY <1>20 DEF Shutdown, Goto
<1>21. ASSUME NEW r \in Requests, Lose(r) PROVE Exchanges'
  BY <1>21 DEF Lose
<1> QED
  BY ONLY Next, <1>1, <1>2, <1>3, <1>4, <1>5, <1>6, <1>7, <1>8, <1>9, <1>10,
     <1>11, <1>12, <1>13, <1>14, <1>15, <1>16, <1>17, <1>18, <1>19, <1>20, <1>21
  DEF Next, EventLoop, ConstructorStep, ServeStep, Arrive, Incoming, Under

\* Only RegisterNode and RegisterGroup list a node that was not listed, and its
\* zone does not change any more.
LEMMA ListingKept == ASSUME IInv, Next PROVE ListedNodesAreReady'
<1> USE DEF IInv, ListedNodesAreReady, Exchanges, TypeOK, placeVars, cacheVars,
     exchangeVars, callVars, history
<1>1. ASSUME NEW n \in Nodes, NEW p \in Nodes \cup {NoNode}, Start(n, p) PROVE
     ListedNodesAreReady'
  BY <1>1 DEF Start, Goto
<1>2. ASSUME NEW n \in Nodes, OpenFirst(n) PROVE ListedNodesAreReady'
  BY <1>2 DEF OpenFirst, Goto
<1>3. ASSUME NEW n \in Nodes, OpenJoining(n) PROVE ListedNodesAreReady'
  BY <1>3 DEF OpenJoining, Goto, Rpc!Request, Rpc!Advance
<1>4. ASSUME NEW n \in Nodes, ReceiveCaches(n) PROVE ListedNodesAreReady'
  BY <1>4 DEF ReceiveCaches, Goto, Rpc!End, Rpc!Advance
<1>5. ASSUME NEW n \in Nodes, NEW row \in inserting[n].nodes, InsertNode(n,
     row) PROVE ListedNodesAreReady'
  BY <1>5 DEF InsertNode
<1>6. ASSUME NEW n \in Nodes, NEW g \in inserting[n].groups, InsertGroup(n, g)
     PROVE ListedNodesAreReady'
  BY <1>6 DEF InsertGroup
<1>7. ASSUME NEW n \in Nodes, Populated(n) PROVE ListedNodesAreReady'
  BY <1>7 DEF Populated, Goto
<1>8. ASSUME NEW n \in Nodes, NEW row \in nodes[n], PingZone(n, row) PROVE
     ListedNodesAreReady'
  BY <1>8 DEF PingZone, Goto, Rpc!Request, Rpc!Advance
<1>9. ASSUME NEW n \in Nodes, NEW row \in nodes[n], PingedFast(n, row) PROVE
     ListedNodesAreReady'
  BY <1>9 DEF PingedFast, Goto, Rpc!End, Rpc!Advance
<1>10. ASSUME NEW n \in Nodes, NEW row \in nodes[n], PingedSlowly(n, row) PROVE
     ListedNodesAreReady'
  BY <1>10 DEF PingedSlowly, Goto, Rpc!End, Rpc!Advance
<1>11. ASSUME NEW n \in Nodes, NoZoneNear(n) PROVE ListedNodesAreReady'
  BY <1>11 DEF NoZoneNear, Goto
<1>12. ASSUME NEW n \in Nodes, RegisterGroup(n) PROVE ListedNodesAreReady'
  BY <1>12 DEF RegisterGroup, Goto
<1>13. ASSUME NEW n \in Nodes, RegisterNode(n) PROVE ListedNodesAreReady'
  BY <1>13 DEF RegisterNode, Goto
<1>14. ASSUME NEW n \in Nodes, ReadNodes(n) PROVE ListedNodesAreReady'
  BY <1>14 DEF ReadNodes
<1>15. ASSUME NEW n \in Nodes, ReadGroups(n) PROVE ListedNodesAreReady'
  BY <1>15 DEF ReadGroups
<1>16. ASSUME NEW n \in Nodes, AnswerFetch(n) PROVE ListedNodesAreReady'
  BY <1>16 DEF AnswerFetch
<1>17. ASSUME NEW r \in Requests, ArriveTooEarly(r) PROVE ListedNodesAreReady'
  BY <1>17 DEF ArriveTooEarly
<1>18. ASSUME NEW r \in Requests, ServeFetch(r) PROVE ListedNodesAreReady'
  BY <1>18 DEF ServeFetch, Rpc!Execute, Rpc!Advance
<1>19. ASSUME NEW r \in Requests, AnswerPing(r) PROVE ListedNodesAreReady'
  BY <1>19 DEF AnswerPing, Rpc!Execute, Rpc!Advance
<1>20. ASSUME NEW n \in Nodes, Shutdown(n) PROVE ListedNodesAreReady'
  BY <1>20 DEF Shutdown, Goto
<1>21. ASSUME NEW r \in Requests, Lose(r) PROVE ListedNodesAreReady'
  BY <1>21 DEF Lose
<1> QED
  BY ONLY Next, <1>1, <1>2, <1>3, <1>4, <1>5, <1>6, <1>7, <1>8, <1>9, <1>10,
     <1>11, <1>12, <1>13, <1>14, <1>15, <1>16, <1>17, <1>18, <1>19, <1>20, <1>21
  DEF Next, EventLoop, ConstructorStep, ServeStep, Arrive, Incoming, Under

\* A node that is served is not listed anywhere.
LEMMA OwnRowsKept == ASSUME IInv, Next PROVE OwnRowsNeverReturn'
<1> USE DEF IInv, ListedNodesAreReady, Exchanges, OwnRowsNeverReturn, IdsOf,
     TypeOK, placeVars, cacheVars, exchangeVars, callVars, history
<1>1. ASSUME NEW n \in Nodes, NEW p \in Nodes \cup {NoNode}, Start(n, p) PROVE
     OwnRowsNeverReturn'
  BY <1>1 DEF Start, Goto
<1>2. ASSUME NEW n \in Nodes, OpenFirst(n) PROVE OwnRowsNeverReturn'
  BY <1>2 DEF OpenFirst, Goto
<1>3. ASSUME NEW n \in Nodes, OpenJoining(n) PROVE OwnRowsNeverReturn'
  BY <1>3 DEF OpenJoining, Goto, Rpc!Request, Rpc!Advance
<1>4. ASSUME NEW n \in Nodes, ReceiveCaches(n) PROVE OwnRowsNeverReturn'
  BY <1>4 DEF ReceiveCaches, Goto, Rpc!End, Rpc!Advance
<1>5. ASSUME NEW n \in Nodes, NEW row \in inserting[n].nodes, InsertNode(n,
     row) PROVE OwnRowsNeverReturn'
  BY <1>5 DEF InsertNode
<1>6. ASSUME NEW n \in Nodes, NEW g \in inserting[n].groups, InsertGroup(n, g)
     PROVE OwnRowsNeverReturn'
  BY <1>6 DEF InsertGroup
<1>7. ASSUME NEW n \in Nodes, Populated(n) PROVE OwnRowsNeverReturn'
  BY <1>7 DEF Populated, Goto
<1>8. ASSUME NEW n \in Nodes, NEW row \in nodes[n], PingZone(n, row) PROVE
     OwnRowsNeverReturn'
  BY <1>8 DEF PingZone, Goto, Rpc!Request, Rpc!Advance
<1>9. ASSUME NEW n \in Nodes, NEW row \in nodes[n], PingedFast(n, row) PROVE
     OwnRowsNeverReturn'
  BY <1>9 DEF PingedFast, Goto, Rpc!End, Rpc!Advance
<1>10. ASSUME NEW n \in Nodes, NEW row \in nodes[n], PingedSlowly(n, row) PROVE
     OwnRowsNeverReturn'
  BY <1>10 DEF PingedSlowly, Goto, Rpc!End, Rpc!Advance
<1>11. ASSUME NEW n \in Nodes, NoZoneNear(n) PROVE OwnRowsNeverReturn'
  BY <1>11 DEF NoZoneNear, Goto
<1>12. ASSUME NEW n \in Nodes, RegisterGroup(n) PROVE OwnRowsNeverReturn'
  BY <1>12 DEF RegisterGroup, Goto
<1>13. ASSUME NEW n \in Nodes, RegisterNode(n) PROVE OwnRowsNeverReturn'
  BY <1>13 DEF RegisterNode, Goto
<1>14. ASSUME NEW n \in Nodes, ReadNodes(n) PROVE OwnRowsNeverReturn'
  BY <1>14 DEF ReadNodes
<1>15. ASSUME NEW n \in Nodes, ReadGroups(n) PROVE OwnRowsNeverReturn'
  BY <1>15 DEF ReadGroups
<1>16. ASSUME NEW n \in Nodes, AnswerFetch(n) PROVE OwnRowsNeverReturn'
  BY <1>16 DEF AnswerFetch
<1>17. ASSUME NEW r \in Requests, ArriveTooEarly(r) PROVE OwnRowsNeverReturn'
  BY <1>17 DEF ArriveTooEarly
<1>18. ASSUME NEW r \in Requests, ServeFetch(r) PROVE OwnRowsNeverReturn'
  BY <1>18 DEF ServeFetch, Rpc!Execute, Rpc!Advance
<1>19. ASSUME NEW r \in Requests, AnswerPing(r) PROVE OwnRowsNeverReturn'
  BY <1>19 DEF AnswerPing, Rpc!Execute, Rpc!Advance
<1>20. ASSUME NEW n \in Nodes, Shutdown(n) PROVE OwnRowsNeverReturn'
  BY <1>20 DEF Shutdown, Goto
<1>21. ASSUME NEW r \in Requests, Lose(r) PROVE OwnRowsNeverReturn'
  BY <1>21 DEF Lose
<1> QED
  BY ONLY Next, <1>1, <1>2, <1>3, <1>4, <1>5, <1>6, <1>7, <1>8, <1>9, <1>10,
     <1>11, <1>12, <1>13, <1>14, <1>15, <1>16, <1>17, <1>18, <1>19, <1>20, <1>21
  DEF Next, EventLoop, ConstructorStep, ServeStep, Arrive, Incoming, Under

\* What was asked moves from the peer to the reply, to the rows to insert and to
\* the cache.
LEMMA AskedKept == ASSUME IInv, Next PROVE AskedIsOnItsWay'
<1> USE DEF IInv, Exchanges, AskedIsOnItsWay, Filled, Opened, NextCache,
     TypeOK, placeVars, cacheVars, exchangeVars, callVars, history
<1>1. ASSUME NEW n \in Nodes, NEW p \in Nodes \cup {NoNode}, Start(n, p) PROVE
     AskedIsOnItsWay'
  BY <1>1 DEF Start, Goto
<1>2. ASSUME NEW n \in Nodes, OpenFirst(n) PROVE AskedIsOnItsWay'
  BY <1>2 DEF OpenFirst, Goto
<1>3. ASSUME NEW n \in Nodes, OpenJoining(n) PROVE AskedIsOnItsWay'
  BY <1>3 DEF OpenJoining, Goto, Rpc!Request, Rpc!Advance
<1>4. ASSUME NEW n \in Nodes, ReceiveCaches(n) PROVE AskedIsOnItsWay'
  BY <1>4 DEF ReceiveCaches, Goto, Rpc!End, Rpc!Advance
<1>5. ASSUME NEW n \in Nodes, NEW row \in inserting[n].nodes, InsertNode(n,
     row) PROVE AskedIsOnItsWay'
  BY <1>5 DEF InsertNode
<1>6. ASSUME NEW n \in Nodes, NEW g \in inserting[n].groups, InsertGroup(n, g)
     PROVE AskedIsOnItsWay'
  BY <1>6 DEF InsertGroup
<1>7. ASSUME NEW n \in Nodes, Populated(n) PROVE AskedIsOnItsWay'
  BY <1>7 DEF Populated, Goto, NoRows
<1>8. ASSUME NEW n \in Nodes, NEW row \in nodes[n], PingZone(n, row) PROVE
     AskedIsOnItsWay'
  BY <1>8 DEF PingZone, Goto, Rpc!Request, Rpc!Advance
<1>9. ASSUME NEW n \in Nodes, NEW row \in nodes[n], PingedFast(n, row) PROVE
     AskedIsOnItsWay'
  BY <1>9 DEF PingedFast, Goto, Rpc!End, Rpc!Advance
<1>10. ASSUME NEW n \in Nodes, NEW row \in nodes[n], PingedSlowly(n, row) PROVE
     AskedIsOnItsWay'
  BY <1>10 DEF PingedSlowly, Goto, Rpc!End, Rpc!Advance
<1>11. ASSUME NEW n \in Nodes, NoZoneNear(n) PROVE AskedIsOnItsWay'
  BY <1>11 DEF NoZoneNear, Goto
<1>12. ASSUME NEW n \in Nodes, RegisterGroup(n) PROVE AskedIsOnItsWay'
  BY <1>12 DEF RegisterGroup, Goto
<1>13. ASSUME NEW n \in Nodes, RegisterNode(n) PROVE AskedIsOnItsWay'
  BY <1>13 DEF RegisterNode, Goto
<1>14. ASSUME NEW n \in Nodes, ReadNodes(n) PROVE AskedIsOnItsWay'
  BY <1>14 DEF ReadNodes
<1>15. ASSUME NEW n \in Nodes, ReadGroups(n) PROVE AskedIsOnItsWay'
  BY <1>15 DEF ReadGroups
<1>16. ASSUME NEW n \in Nodes, AnswerFetch(n) PROVE AskedIsOnItsWay'
  BY <1>16 DEF AnswerFetch
<1>17. ASSUME NEW r \in Requests, ArriveTooEarly(r) PROVE AskedIsOnItsWay'
  BY <1>17 DEF ArriveTooEarly
<1>18. ASSUME NEW r \in Requests, ServeFetch(r) PROVE AskedIsOnItsWay'
  BY <1>18 DEF ServeFetch, Rpc!Execute, Rpc!Advance
<1>19. ASSUME NEW r \in Requests, AnswerPing(r) PROVE AskedIsOnItsWay'
  BY <1>19 DEF AnswerPing, Rpc!Execute, Rpc!Advance
<1>20. ASSUME NEW n \in Nodes, Shutdown(n) PROVE AskedIsOnItsWay'
  BY <1>20 DEF Shutdown, Goto
<1>21. ASSUME NEW r \in Requests, Lose(r) PROVE AskedIsOnItsWay'
  BY <1>21 DEF Lose
<1> QED
  BY ONLY Next, <1>1, <1>2, <1>3, <1>4, <1>5, <1>6, <1>7, <1>8, <1>9, <1>10,
     <1>11, <1>12, <1>13, <1>14, <1>15, <1>16, <1>17, <1>18, <1>19, <1>20, <1>21
  DEF Next, EventLoop, ConstructorStep, ServeStep, Arrive, Incoming, Under

\* Groups move with the nodes they belong to, read after and inserted with them.
LEMMA GroupsKept == ASSUME IInv, Next PROVE GroupsFollow'
<1> USE DEF IInv, Exchanges, GroupsFollow, IdsOf, Filled, Opened, NextCache,
     TypeOK, placeVars, cacheVars, exchangeVars, callVars, history
<1>1. ASSUME NEW n \in Nodes, NEW p \in Nodes \cup {NoNode}, Start(n, p) PROVE
     GroupsFollow'
  BY <1>1 DEF Start, Goto
<1>2. ASSUME NEW n \in Nodes, OpenFirst(n) PROVE GroupsFollow'
  BY <1>2 DEF OpenFirst, Goto
<1>3. ASSUME NEW n \in Nodes, OpenJoining(n) PROVE GroupsFollow'
  BY <1>3 DEF OpenJoining, Goto, Rpc!Request, Rpc!Advance
<1>4. ASSUME NEW n \in Nodes, ReceiveCaches(n) PROVE GroupsFollow'
  BY <1>4 DEF ReceiveCaches, Goto, Rpc!End, Rpc!Advance
<1>5. ASSUME NEW n \in Nodes, NEW row \in inserting[n].nodes, InsertNode(n,
     row) PROVE GroupsFollow'
  <2>1. stage[n] = "populating"
    BY <1>5, RowParts DEF InsertNode
  <2>2. /\ nodes' = [nodes EXCEPT ![n] = @ \cup {row}]
        /\ nodes'[n] \cup inserting'[n].nodes = nodes[n] \cup inserting[n].nodes
        /\ \A m \in Nodes : inserting'[m].groups = inserting[m].groups
        /\ \A m \in Nodes \ {n} : inserting'[m] = inserting[m]
    BY <1>5 DEF InsertNode
  <2> QED BY <1>5, <2>1, <2>2 DEF InsertNode
<1>6. ASSUME NEW n \in Nodes, NEW g \in inserting[n].groups, InsertGroup(n, g)
     PROVE GroupsFollow'
  BY <1>6 DEF InsertGroup
<1>7. ASSUME NEW n \in Nodes, Populated(n) PROVE GroupsFollow'
  BY <1>7 DEF Populated, Goto, NoRows
<1>8. ASSUME NEW n \in Nodes, NEW row \in nodes[n], PingZone(n, row) PROVE
     GroupsFollow'
  BY <1>8 DEF PingZone, Goto, Rpc!Request, Rpc!Advance
<1>9. ASSUME NEW n \in Nodes, NEW row \in nodes[n], PingedFast(n, row) PROVE
     GroupsFollow'
  BY <1>9 DEF PingedFast, Goto, Rpc!End, Rpc!Advance
<1>10. ASSUME NEW n \in Nodes, NEW row \in nodes[n], PingedSlowly(n, row) PROVE
     GroupsFollow'
  BY <1>10 DEF PingedSlowly, Goto, Rpc!End, Rpc!Advance
<1>11. ASSUME NEW n \in Nodes, NoZoneNear(n) PROVE GroupsFollow'
  BY <1>11 DEF NoZoneNear, Goto
<1>12. ASSUME NEW n \in Nodes, RegisterGroup(n) PROVE GroupsFollow'
  BY <1>12 DEF RegisterGroup, Goto
<1>13. ASSUME NEW n \in Nodes, RegisterNode(n) PROVE GroupsFollow'
  BY <1>13 DEF RegisterNode, Goto
<1>14. ASSUME NEW n \in Nodes, ReadNodes(n) PROVE GroupsFollow'
  BY <1>14 DEF ReadNodes
<1>15. ASSUME NEW n \in Nodes, ReadGroups(n) PROVE GroupsFollow'
  BY <1>15 DEF ReadGroups
<1>16. ASSUME NEW n \in Nodes, AnswerFetch(n) PROVE GroupsFollow'
  BY <1>16 DEF AnswerFetch
<1>17. ASSUME NEW r \in Requests, ArriveTooEarly(r) PROVE GroupsFollow'
  BY <1>17 DEF ArriveTooEarly
<1>18. ASSUME NEW r \in Requests, ServeFetch(r) PROVE GroupsFollow'
  BY <1>18 DEF ServeFetch, Rpc!Execute, Rpc!Advance
<1>19. ASSUME NEW r \in Requests, AnswerPing(r) PROVE GroupsFollow'
  BY <1>19 DEF AnswerPing, Rpc!Execute, Rpc!Advance
<1>20. ASSUME NEW n \in Nodes, Shutdown(n) PROVE GroupsFollow'
  BY <1>20 DEF Shutdown, Goto
<1>21. ASSUME NEW r \in Requests, Lose(r) PROVE GroupsFollow'
  BY <1>21 DEF Lose
<1> QED
  BY ONLY Next, <1>1, <1>2, <1>3, <1>4, <1>5, <1>6, <1>7, <1>8, <1>9, <1>10,
     <1>11, <1>12, <1>13, <1>14, <1>15, <1>16, <1>17, <1>18, <1>19, <1>20, <1>21
  DEF Next, EventLoop, ConstructorStep, ServeStep, Arrive, Incoming, Under

\* All of it holds before any node is started.
LEMMA Initially == Init => IInv
<1> SUFFICES ASSUME Init PROVE IInv
  OBVIOUS
<1> USE DEF Init
<1>1. TypeOK
  BY DEF TypeOK, Stages, Zones, Caches, NoRows, Rpc!Phases
<1>2. Exchanges
  BY NodesAssumption DEF Exchanges
<1>3. ListedNodesAreReady /\ OwnRowsNeverReturn
  BY DEF ListedNodesAreReady, OwnRowsNeverReturn, NoRows,
     IdsOf
<1>4. AskedIsOnItsWay /\ GroupsFollow
  BY DEF AskedIsOnItsWay, GroupsFollow, Filled, Opened
<1> QED BY <1>1, <1>2, <1>3, <1>4 DEF IInv

\* The inductive invariant.
THEOREM Invariance == Spec => []IInv
<1>1. IInv /\ [Next]_vars => IInv'
  <2> SUFFICES ASSUME IInv, [Next]_vars PROVE IInv'
    OBVIOUS
  <2>1. CASE Next
    BY <2>1, TypingKept, ExchangesKept, ListingKept, OwnRowsKept,
       AskedKept, GroupsKept DEF IInv
  <2>2. CASE UNCHANGED vars
    <3> USE <2>2 DEF vars, placeVars, cacheVars, exchangeVars, callVars,
     history, IInv
    <3>1. TypeOK' /\ Exchanges'
      BY DEF TypeOK, Exchanges
    <3>2. ListedNodesAreReady' /\ OwnRowsNeverReturn'
      BY DEF ListedNodesAreReady, OwnRowsNeverReturn
    <3>3. AskedIsOnItsWay' /\ GroupsFollow'
      BY DEF AskedIsOnItsWay, GroupsFollow, Filled, Opened
    <3> QED BY <3>1, <3>2, <3>3
  <2> QED BY <2>1, <2>2
<1> QED BY <1>1, Initially, PTL DEF Spec

\* The caches, replies and requests are well formed.
THEOREM Typing == Spec => []TypeOK
BY Invariance, PTL DEF IInv

\* A node never gets its own rows back, in any topology.
THEOREM NoReturn == Spec => []OwnRowsNeverReturn
BY Invariance, PTL DEF IInv

\* What a peer knew when a node asked it, the node knows.
THEOREM Inheriting == Spec => []PeerKnowledgeInherited
<1>1. IInv => PeerKnowledgeInherited
  BY DEF IInv, AskedIsOnItsWay, PeerKnowledgeInherited, Filled, Opened
<1> QED BY <1>1, Invariance, PTL

\* A known node's message group is known.
THEOREM GroupsKnown == Spec => []KnownNodesHaveGroups
<1>1. IInv => KnownNodesHaveGroups
  BY DEF IInv, GroupsFollow, KnownNodesHaveGroups, Filled, Opened
<1> QED BY <1>1, Invariance, PTL

\* All caches and replies agree on a node's zone.
THEOREM Zoning == Spec => []ZonesAgree
<1>1. IInv => ZonesAgree
  BY DEF IInv, ListedNodesAreReady, ZonesAgree
<1> QED BY <1>1, Invariance, PTL
=============================================================================
