----------------------- MODULE MessagingLayerProofs -------------------------
(***************************************************************************)
(* Safety of MessagingLayer for any nodes and requests.  The inductive     *)
(* invariant says where the exchange of a request can be: in at most one   *)
(* of five places, each of which fixes how far the request has come.       *)
(***************************************************************************)
EXTENDS MessagingLayer, TLAPS

\* The places of the exchange of r.
Outbound(r) == Command(r) \in saving \/ Command(r) \in inFlight
Inbound(r) ==
  r \in running \/ AckFor(r) \in saving \/ AckFor(r) \in inFlight

\* In its places, r is pending, and not handled or handled.
PlacesFixProgress(r) ==
  /\ Outbound(r) => outcome[r] = "pending" /\ handled[r] = 0
  /\ Inbound(r) => outcome[r] = "pending" /\ handled[r] = 1

\* No two places hold r at once.
OnePlace(r) ==
  /\ ~ (Command(r) \in saving /\ Command(r) \in inFlight)
  /\ ~ (r \in running /\ AckFor(r) \in saving)
  /\ ~ (r \in running /\ AckFor(r) \in inFlight)
  /\ ~ (AckFor(r) \in saving /\ AckFor(r) \in inFlight)

\* The row is there while r is unacknowledged, and its removal starts after.
RowKept(r) ==
  /\ Command(r) \in inFlight => Command(r) \in messages
  /\ handled[r] = 1 /\ outcome[r] = "pending" => Command(r) \in messages
  /\ r \in removing => outcome[r] \in {"resolved", "failed"}

\* Only a handled request is over, and a pending RPC has its callback unless its
\* sender has crashed.
Answers(r) ==
  /\ outcome[r] \in {"resolved", "failed"} => handled[r] = 1
  /\ outcome[r] = "unsent" => handled[r] = 0
  /\ r \in Rpcs /\ outcome[r] = "pending" => r \in rpcCallbacks \/ r \in orphaned

Exchange(r) ==
  PlacesFixProgress(r) /\ OnePlace(r) /\ RowKept(r) /\ Answers(r)

IInv == TypeOK /\ \A r \in Requests : Exchange(r)

-----------------------------------------------------------------------------
\* The messages are the commands and acknowledgements, all different.
LEMMA MessageFacts ==
  /\ \A m \in Messages : /\ m.request \in Requests
                         /\ m.type = "COMMAND" => m = Command(m.request)
                         /\ m.type = "ACK" => m = AckFor(m.request)
                         /\ m.type \in {"COMMAND", "ACK"}
  /\ \A r \in Requests : /\ Command(r) \in Messages /\ AckFor(r) \in Messages
                         /\ Command(r).request = r /\ AckFor(r).request = r
                         /\ Command(r).type = "COMMAND" /\ AckFor(r).type = "ACK"
  BY DEF Messages, Command, AckFor

\* The invariant holds when nothing has been sent.
LEMMA InitIInv == Init => IInv
  BY RequestsAssumption DEF Init, IInv, TypeOK, Exchange, PlacesFixProgress,
     OnePlace, RowKept, Answers, Outbound, Inbound

\* Every step keeps the types, given where the exchanges are.
LEMMA TypeStep == IInv /\ [Next]_vars => TypeOK'
<1> SUFFICES ASSUME IInv, [Next]_vars PROVE TypeOK'
  OBVIOUS
<1> USE MessageFacts, RequestsAssumption
    DEF TypeOK, nodeVars, tableVars, handlerVars, callerVars, crashVars
<1>t. TypeOK
  BY DEF IInv
<1>1. ASSUME NEW n \in Nodes, Open(n) \/ Close(n) \/ HouseKeeping(n)
      PROVE TypeOK'
  BY <1>t, <1>1 DEF Open, Close, HouseKeeping
<1>c. ASSUME NEW n \in Nodes, Crash(n)
      PROVE TypeOK'
  <2>1. /\ saving' \subseteq Messages /\ removing' \subseteq Requests
        /\ running' \subseteq Requests /\ rpcCallbacks' \subseteq Rpcs
        /\ crashes' \in 0 .. MaxCrashes
        /\ status' \in [Nodes -> {"starting", "open", "closed"}]
        /\ timer' \in [Nodes -> {"armed", "fired", "cleared"}]
    BY <1>t, <1>c DEF Crash
  <2>2. messages' \subseteq Messages
    BY <1>t, <1>c DEF Crash
  <2>3. orphaned' \subseteq Requests
    BY <1>t, <1>c DEF Crash
  <2>4. orphaned' \subseteq faulted' /\ faulted' \subseteq Requests
    BY <1>t, <1>c, <2>3 DEF Crash
  <2> QED
    BY <1>t, <1>c, <2>1, <2>2, <2>4 DEF Crash
<1>2. ASSUME NEW r \in Requests, SendRpc(r) \/ SendCommand(r)
      PROVE TypeOK'
  BY <1>t, <1>2 DEF SendRpc, SendCommand, SendMessageToNode
<1>3. ASSUME NEW r \in Requests, HandlerEnds(r)
      PROVE TypeOK'
  BY <1>t, <1>3 DEF HandlerEnds, HandlerReplies, HandlerFails, SendMessageToNode
<1>4. ASSUME NEW r \in Requests, RemoveEnds(r)
      PROVE TypeOK'
  BY <1>t, <1>4 DEF RemoveEnds, RemoveDone, RemoveFails
<1>5. ASSUME NEW m \in Messages, SaveEnds(m)
      PROVE TypeOK'
  BY <1>t, <1>5 DEF SaveEnds, SaveDone, SaveFails
<1>6. ASSUME NEW m \in Messages, Lose(m) \/ ReceiveTooEarly(m)
      PROVE TypeOK'
  BY <1>t, <1>6 DEF Lose, ReceiveTooEarly
<1>7. ASSUME NEW m \in Messages, ReceiveCommand(m)
      PROVE TypeOK'
  <2>1. handled[m.request] = 0
    BY <1>7 DEF IInv, Exchange, PlacesFixProgress, Outbound, ReceiveCommand
  <2> QED
    BY <1>t, <1>7, <2>1 DEF ReceiveCommand, SendMessageToNode
<1>8. ASSUME NEW m \in Messages, ReceiveAck(m)
      PROVE TypeOK'
  BY <1>t, <1>8 DEF ReceiveAck
<1>9. CASE UNCHANGED vars
  BY <1>t, <1>9 DEF vars
<1> QED
  BY <1>c, <1>1, <1>2, <1>3, <1>4, <1>5, <1>6, <1>7, <1>8, <1>9
     DEF Next, TransportEnds

\* Every step keeps every exchange in one place, with what that place says.
LEMMA ExchangeStep ==
  IInv /\ [Next]_vars => \A r \in Requests : Exchange(r)'
<1> SUFFICES ASSUME IInv, [Next]_vars, NEW s \in Requests
             PROVE Exchange(s)'
  OBVIOUS
<1> USE MessageFacts, RequestsAssumption
    DEF Exchange, PlacesFixProgress, OnePlace, RowKept, Answers, Outbound, Inbound,
        nodeVars, tableVars, handlerVars, callerVars, crashVars
<1>t. TypeOK /\ Exchange(s) /\ \A r \in Requests : Exchange(r)
  BY DEF IInv
<1>1. ASSUME NEW n \in Nodes, Open(n) \/ Close(n) \/ HouseKeeping(n)
      PROVE Exchange(s)'
  BY <1>t, <1>1 DEF Open, Close, HouseKeeping
<1>c. ASSUME NEW n \in Nodes, Crash(n)
      PROVE Exchange(s)'
  <2>1. /\ saving' \subseteq saving /\ removing' \subseteq removing
        /\ running' \subseteq running /\ inFlight' = inFlight
        /\ handled' = handled /\ outcome' = outcome
    BY <1>c DEF Crash
  <2>2. PlacesFixProgress(s)' /\ OnePlace(s)'
    BY <1>t, <2>1
  <2>3. Command(s) \in messages /\ s \notin removing => Command(s) \in messages'
    <3>1. PICK executed \in SUBSET saving, deleted \in SUBSET removing :
            messages' = (messages \cup executed) \ {Command(r) : r \in deleted}
      BY <1>c DEF Crash
    <3>2. \A r \in removing : Command(r) = Command(s) => r = s
      BY <1>t DEF TypeOK
    <3> QED
      BY <3>1, <3>2
  <2>4. RowKept(s)'
    BY <1>t, <2>1, <2>3 DEF TypeOK
  <2>5. /\ s \in rpcCallbacks => s \in rpcCallbacks' \/ Source[s] = n
        /\ outcome[s] = "pending" /\ Source[s] = n => s \in orphaned'
        /\ orphaned \subseteq orphaned'
    BY <1>c DEF Crash
  <2>6. Answers(s)'
    BY <1>t, <2>1, <2>5
  <2> QED
    BY <2>2, <2>4, <2>6
<1>2. ASSUME NEW r \in Requests, SendRpc(r) \/ SendCommand(r)
      PROVE Exchange(s)'
  BY <1>t, <1>2 DEF TypeOK, SendRpc, SendCommand, SendMessageToNode
<1>3. ASSUME NEW r \in Requests, HandlerEnds(r)
      PROVE Exchange(s)'
  BY <1>t, <1>3 DEF TypeOK, HandlerEnds, HandlerReplies, HandlerFails,
                    SendMessageToNode
<1>4. ASSUME NEW r \in Requests, RemoveEnds(r)
      PROVE Exchange(s)'
  BY <1>t, <1>4 DEF TypeOK, RemoveEnds, RemoveDone, RemoveFails
<1>5. ASSUME NEW m \in Messages, SaveEnds(m)
      PROVE Exchange(s)'
  BY <1>t, <1>5 DEF TypeOK, SaveEnds, SaveDone, SaveFails
<1>6. ASSUME NEW m \in Messages, Lose(m) \/ ReceiveTooEarly(m)
      PROVE Exchange(s)'
  BY <1>t, <1>6 DEF TypeOK, Lose, ReceiveTooEarly
<1>7. ASSUME NEW m \in Messages, ReceiveCommand(m)
      PROVE Exchange(s)'
  BY <1>t, <1>7 DEF TypeOK, ReceiveCommand, SendMessageToNode
<1>8. ASSUME NEW m \in Messages, ReceiveAck(m)
      PROVE Exchange(s)'
  BY <1>t, <1>8 DEF TypeOK, ReceiveAck
<1>9. CASE UNCHANGED vars
  BY <1>t, <1>9 DEF vars
<1> QED
  BY <1>c, <1>1, <1>2, <1>3, <1>4, <1>5, <1>6, <1>7, <1>8, <1>9
     DEF Next, TransportEnds

\* IInv is an inductive invariant.
THEOREM Invariance == Spec => []IInv
<1>1. IInv /\ [Next]_vars => IInv'
  BY TypeStep, ExchangeStep DEF IInv
<1> QED
  BY InitIInv, <1>1, PTL DEF Spec

\* The types, and that no request is handled twice, for any number of them.
THEOREM Typing == Spec => []TypeOK
<1>1. IInv => TypeOK
  BY DEF IInv
<1> QED
  BY Invariance, <1>1, PTL

\* A command that went out is saved until its acknowledgement is back.
THEOREM SavedUntilAcknowledged == Spec => []UnacknowledgedIsSaved
<1>1. IInv => UnacknowledgedIsSaved
  BY DEF IInv, TypeOK, Exchange, RowKept, UnacknowledgedIsSaved
<1> QED
  BY Invariance, <1>1, PTL

\* receiveAck never takes the path of named callbacks for an RPC.
THEOREM CallbackIsFound == Spec => []AckFindsCallback
<1>1. IInv => AckFindsCallback
  BY RequestsAssumption
     DEF IInv, Exchange, PlacesFixProgress, Inbound, Answers, AckFindsCallback
<1> QED
  BY Invariance, <1>1, PTL

-----------------------------------------------------------------------------
PhaseMap == [r \in Requests |-> Phase(r)]

\* What a request goes through in MessagingLayer is what RpcService allows:
\* three kinds of step advance one request, all others leave the phases alone.
LEMMA ServiceStep ==
  IInv /\ [Next]_vars => Service!Next \/ PhaseMap' = PhaseMap
<1> SUFFICES ASSUME IInv, [Next]_vars
             PROVE Service!Next \/ PhaseMap' = PhaseMap
  OBVIOUS
<1>t. TypeOK /\ \A r \in Requests : Exchange(r)
  BY DEF IInv
<1> USE MessageFacts DEF TypeOK, PhaseMap, Phase,
        nodeVars, tableVars, handlerVars, callerVars, crashVars
<1>1. ASSUME NEW r \in Requests, SendRpc(r) \/ SendCommand(r)
      PROVE Service!Request(r)
  <2>1. /\ outcome[r] = "unsent" /\ handled[r] = 0
        /\ outcome' = [outcome EXCEPT ![r] = "pending"] /\ handled' = handled
    BY <1>t, <1>1 DEF Exchange, Answers, SendRpc, SendCommand
  <2> QED
    BY <1>t, <2>1 DEF Service!Request, Service!Advance
<1>2. ASSUME NEW m \in Messages, ReceiveCommand(m)
      PROVE Service!Execute(m.request)
  <2>1. outcome[m.request] = "pending" /\ handled[m.request] = 0
    BY <1>t, <1>2 DEF Exchange, PlacesFixProgress, Outbound, ReceiveCommand
  <2>2. handled' = [handled EXCEPT ![m.request] = 1] /\ outcome' = outcome
    BY <1>t, <1>2, <2>1 DEF ReceiveCommand
  <2> QED
    BY <1>t, <2>1, <2>2 DEF Service!Execute, Service!Advance
<1>3. ASSUME NEW m \in Messages, ReceiveAck(m)
      PROVE Service!End(m.request)
  <2>1. PICK o \in {"resolved", "failed"} :
          outcome' = [outcome EXCEPT ![m.request] = o]
    BY <1>3 DEF ReceiveAck
  <2>2. /\ outcome[m.request] = "pending" /\ handled[m.request] = 1
        /\ handled' = handled
    BY <1>t, <1>3 DEF Exchange, PlacesFixProgress, Inbound, ReceiveAck
  <2> QED
    BY <1>t, <2>1, <2>2 DEF Service!End, Service!Advance
<1>4. ASSUME NEW n \in Nodes, Open(n) \/ Close(n) \/ HouseKeeping(n)
      PROVE PhaseMap' = PhaseMap
  BY <1>4 DEF Open, Close, HouseKeeping
<1>c. ASSUME NEW n \in Nodes, Crash(n)
      PROVE PhaseMap' = PhaseMap
  BY <1>c DEF Crash
<1>5. ASSUME NEW r \in Requests, HandlerEnds(r) \/ RemoveEnds(r)
      PROVE PhaseMap' = PhaseMap
  BY <1>5 DEF HandlerEnds, HandlerReplies, HandlerFails,
              RemoveEnds, RemoveDone, RemoveFails
<1>6. ASSUME NEW m \in Messages, SaveEnds(m) \/ Lose(m) \/ ReceiveTooEarly(m)
      PROVE PhaseMap' = PhaseMap
  BY <1>6 DEF SaveEnds, SaveDone, SaveFails, Lose, ReceiveTooEarly
<1>7. CASE UNCHANGED vars
  BY <1>7 DEF vars
<1> QED
  BY <1>c, <1>1, <1>2, <1>3, <1>4, <1>5, <1>6, <1>7
     DEF Next, TransportEnds, Service!Next

\* The messaging layer implements the service: a caller hears of a request once,
\* after its handler has run.
THEOREM Refinement == Spec => ImplementsRpcService
<1>1. Init => Service!Init
  BY DEF Init, Service!Init, Phase
<1>2. IInv /\ [Next]_vars => [Service!Next]_PhaseMap
  BY ServiceStep
<1> QED
  BY Invariance, <1>1, <1>2, PTL
     DEF Spec, ImplementsRpcService, Service!Spec, PhaseMap
=============================================================================
