--------------------------- MODULE MessagingLayer ---------------------------
(***************************************************************************)
(* The messaging layers of a set of nodes (src/MessagingLayer.js), each    *)
(* with its message group (src/MessageGroup.js, src/RaftGroup.js), and the *)
(* transport between them.  A message is saved in the sender's message     *)
(* group, then handed to the transport; the receiver's handler answers     *)
(* with an acknowledgement, which is sent the same way; its arrival        *)
(* removes the saved command and calls the caller back.                    *)
(*                                                                         *)
(* Statements of the message group are asynchronous: they end in any order *)
(* or fail.  The transport delivers a message at most once, in any order.  *)
(* A node may crash and start again at the same address; what it had saved *)
(* in its message group is still there.                                    *)
(***************************************************************************)
EXTENDS Naturals

CONSTANTS
  Nodes,
  Requests,    \* the commands that are ever created
  Source,      \* the node that sends a request
  Dest,        \* the node it is sent to
  Rpcs,        \* sent by sendRpc; the others only by sendMessageToNode
  Deferred,    \* handled like GET_PEER_DATA, which answers after an await;
               \* the others like PING_NODE, which answers at once
  MaxCrashes   \* a bound on the crashes of all nodes together

ASSUME RequestsAssumption ==
  /\ Source \in [Requests -> Nodes]
  /\ Dest \in [Requests -> Nodes]
  /\ Rpcs \subseteq Requests
  /\ Deferred \subseteq Requests
  /\ MaxCrashes \in Nat

VARIABLES
  status,         \* per node: before openMessageLayer, after it, after close
  timer,          \* per node: the housekeeping timeout of its RaftGroup
  saving,         \* messages whose INSERT is under way
  messages,       \* rows of the messages tables
  inFlight,       \* messages the transport holds
  running,        \* requests whose deferred handler is at its await
  removing,       \* requests whose DELETE is under way
  rpcCallbacks,   \* requests that have an entry in rpcCallbacks
  outcome,        \* per request: what the caller knows of it
  handled,        \* history: how often a request's handler was called
  faulted,        \* history: requests a message, a statement or a crash harmed
  orphaned,       \* history: requests pending when their sender crashed
  crashes         \* how many crashes there have been

nodeVars    == <<status, timer>>
tableVars   == <<saving, messages, removing>>
handlerVars == <<running, handled>>
callerVars  == <<rpcCallbacks, outcome>>
crashVars   == <<orphaned, crashes>>

vars == <<nodeVars, tableVars, inFlight, handlerVars, callerVars, faulted,
          crashVars>>

Messages == [type : {"COMMAND", "ACK"}, request : Requests]

\* createCommand, createAckFor.
Command(r) == [type |-> "COMMAND", request |-> r]
AckFor(r)  == [type |-> "ACK", request |-> r]

Sender(m) == IF m.type = "ACK" THEN Dest[m.request] ELSE Source[m.request]

Receiver(m) == IF m.type = "ACK" THEN Source[m.request] ELSE Dest[m.request]

-----------------------------------------------------------------------------
Init ==
  /\ status = [n \in Nodes |-> "starting"]
  /\ timer = [n \in Nodes |-> "armed"]
  /\ saving = {} /\ messages = {} /\ inFlight = {}
  /\ running = {} /\ removing = {} /\ rpcCallbacks = {}
  /\ outcome = [r \in Requests |-> "unsent"]
  /\ handled = [r \in Requests |-> 0]
  /\ faulted = {} /\ orphaned = {} /\ crashes = 0

\* openMessageLayer: the messages table exists, so the layer is constructed and
\* registers its receiveCallback.
Open(n) ==
  /\ status[n] = "starting"
  /\ status' = [status EXCEPT ![n] = "open"]
  /\ UNCHANGED <<timer, tableVars, inFlight, handlerVars, callerVars, faulted,
                 crashVars>>

\* Mutant of Close: pending callbacks are dropped.
CloseAndForget(n) ==
  /\ status[n] = "open"
  /\ status' = [status EXCEPT ![n] = "closed"]
  /\ rpcCallbacks' = {r \in rpcCallbacks : Source[r] # n}
  /\ UNCHANGED <<timer, tableVars, inFlight, handlerVars, outcome, faulted,
                 crashVars>>

\* close: the timer is cleared and the database of the message group closed.
\* The receive callback stays registered, so messages still come in.
Close(n) ==
  /\ status[n] = "open"
  /\ status' = [status EXCEPT ![n] = "closed"]
  /\ timer' = [timer EXCEPT ![n] = IF @ = "armed" THEN "cleared" ELSE @]
  /\ UNCHANGED <<tableVars, inFlight, handlerVars, callerVars, faulted,
                 crashVars>>

\* The housekeeping timeout.  It runs once, without its "this", finds no
\* housekeeping callback and does nothing.
HouseKeeping(n) ==
  /\ timer[n] = "armed"
  /\ timer' = [timer EXCEPT ![n] = "fired"]
  /\ UNCHANGED <<status, tableVars, inFlight, handlerVars, callerVars, faulted,
                 crashVars>>

\* The process of a node ends and starts again.  Its callbacks are gone, and so
\* is what it was awaiting; each statement it had under way may have been
\* executed (executed, deleted) or not.
Crash(n) ==
  /\ crashes < MaxCrashes /\ crashes' = crashes + 1
  /\ status[n] # "starting"
  /\ status' = [status EXCEPT ![n] = "starting"]
  /\ timer' = [timer EXCEPT ![n] = "armed"]
  /\ \E executed \in SUBSET {m \in saving : Sender(m) = n},
        deleted \in SUBSET {r \in removing : Source[r] = n} :
       messages' = (messages \cup executed) \ {Command(r) : r \in deleted}
  /\ saving' = {m \in saving : Sender(m) # n}
  /\ removing' = {r \in removing : Source[r] # n}
  /\ running' = {r \in running : Dest[r] # n}
  /\ rpcCallbacks' = {r \in rpcCallbacks : Source[r] # n}
  /\ orphaned' = orphaned \cup
       {r \in Requests : Source[r] = n /\ outcome[r] = "pending"}
  /\ faulted' = faulted \cup orphaned' \cup
       {m.request : m \in saving \ saving'} \cup
       (removing \ removing') \cup (running \ running')
  /\ UNCHANGED <<inFlight, handled, outcome>>

-----------------------------------------------------------------------------
\* sendMessageToNode, as a part of an action: the INSERT starts, and fails at
\* once on a closed database.
SendMessageToNode(m) ==
  IF status[Sender(m)] = "closed"
  THEN faulted' = faulted \cup {m.request} /\ UNCHANGED saving
  ELSE saving' = saving \cup {m} /\ UNCHANGED faulted

\* sendRpc: the callback is set before the command is sent.
SendRpc(r) ==
  /\ r \in Rpcs /\ outcome[r] = "unsent" /\ status[Source[r]] = "open"
  /\ outcome' = [outcome EXCEPT ![r] = "pending"]
  /\ rpcCallbacks' = rpcCallbacks \cup {r}
  /\ SendMessageToNode(Command(r))
  /\ UNCHANGED <<nodeVars, messages, removing, inFlight, handlerVars,
                 crashVars>>

\* sendMessageToNode of a command that names the function to call back.
SendCommand(r) ==
  /\ r \notin Rpcs /\ outcome[r] = "unsent" /\ status[Source[r]] = "open"
  /\ outcome' = [outcome EXCEPT ![r] = "pending"]
  /\ SendMessageToNode(Command(r))
  /\ UNCHANGED <<nodeVars, messages, removing, inFlight, handlerVars,
                 rpcCallbacks, crashVars>>

\* saveMessage resolves: the row is there and the message goes out.
SaveDone(m) ==
  /\ m \in saving
  /\ saving' = saving \ {m}
  /\ messages' = messages \cup {m}
  /\ inFlight' = inFlight \cup {m}
  /\ UNCHANGED <<nodeVars, removing, handlerVars, callerVars, faulted,
                 crashVars>>

\* Mutant of SaveFails: finally() for then().
SendRegardless(m) ==
  /\ m \in saving
  /\ saving' = saving \ {m}
  /\ inFlight' = inFlight \cup {m}
  /\ UNCHANGED <<nodeVars, messages, removing, handlerVars, callerVars,
                 faulted, crashVars>>

\* saveMessage rejects: nothing catches it and the message never goes out.
SaveFails(m) ==
  /\ m \in saving
  /\ saving' = saving \ {m}
  /\ faulted' = faulted \cup {m.request}
  /\ UNCHANGED <<nodeVars, messages, removing, inFlight, handlerVars,
                 callerVars, crashVars>>

-----------------------------------------------------------------------------
\* The transport drops a message.
Lose(m) ==
  /\ m \in inFlight
  /\ inFlight' = inFlight \ {m}
  /\ faulted' = faulted \cup {m.request}
  /\ UNCHANGED <<nodeVars, tableVars, handlerVars, callerVars, crashVars>>

\* A message arrives before the layer has registered its receiveCallback: the
\* transport throws.
ReceiveTooEarly(m) ==
  /\ m \in inFlight /\ status[Receiver(m)] = "starting"
  /\ inFlight' = inFlight \ {m}
  /\ faulted' = faulted \cup {m.request}
  /\ UNCHANGED <<nodeVars, tableVars, handlerVars, callerVars, crashVars>>

\* Mutant of ReceiveCommand: the transport delivers the command again.
ReceiveAgain(m) ==
  /\ m \in inFlight /\ m.type = "COMMAND"
  /\ status[Receiver(m)] # "starting"
  /\ handled' = [handled EXCEPT ![m.request] = @ + 1]
  /\ IF m.request \in Deferred
     THEN running' = running \cup {m.request} /\ UNCHANGED <<saving, faulted>>
     ELSE SendMessageToNode(AckFor(m.request)) /\ UNCHANGED running
  /\ UNCHANGED <<nodeVars, messages, removing, inFlight, callerVars,
                 crashVars>>

\* Mutant of ReceiveCommand: the layer acknowledges on receipt, and hands only
\* what needs no waiting to its handler.
AcknowledgeReceipt(m) ==
  /\ m \in inFlight /\ m.type = "COMMAND"
  /\ status[Receiver(m)] # "starting"
  /\ inFlight' = inFlight \ {m}
  /\ handled' = IF m.request \in Deferred THEN handled
                ELSE [handled EXCEPT ![m.request] = @ + 1]
  /\ SendMessageToNode(AckFor(m.request))
  /\ UNCHANGED <<nodeVars, messages, removing, running, callerVars, crashVars>>

\* messageReceivedFromTransport of a command: its handler is called, and
\* answers in the same step (handlePingNode) or goes to its await
\* (getPeerDataHandler).
ReceiveCommand(m) ==
  /\ m \in inFlight /\ m.type = "COMMAND"
  /\ status[Receiver(m)] # "starting"
  /\ inFlight' = inFlight \ {m}
  /\ handled' = [handled EXCEPT ![m.request] = @ + 1]
  /\ IF m.request \in Deferred
     THEN running' = running \cup {m.request} /\ UNCHANGED <<saving, faulted>>
     ELSE SendMessageToNode(AckFor(m.request)) /\ UNCHANGED running
  /\ UNCHANGED <<nodeVars, messages, removing, callerVars, crashVars>>

\* Mutant of HandlerReplies: the result is never sent.
HandlerForgets(r) ==
  /\ r \in running
  /\ running' = running \ {r}
  /\ UNCHANGED <<nodeVars, tableVars, inFlight, handled, callerVars, faulted,
                 crashVars>>

\* getPeerDataHandler: the caches are serialized and go back in the answer.
HandlerReplies(r) ==
  /\ r \in running
  /\ running' = running \ {r}
  /\ SendMessageToNode(AckFor(r))
  /\ UNCHANGED <<nodeVars, messages, removing, inFlight, handled, callerVars,
                 crashVars>>

\* getPeerDataHandler: serializeAllCaches rejects, which nothing catches.
HandlerFails(r) ==
  /\ r \in running
  /\ running' = running \ {r}
  /\ faulted' = faulted \cup {r}
  /\ UNCHANGED <<nodeVars, tableVars, inFlight, handled, callerVars,
                 crashVars>>

\* Mutant of ReceiveAck: the command is removed only for a named callback.
ReceiveAckKeepsRow(m) ==
  /\ m \in inFlight /\ m.type = "ACK"
  /\ status[Receiver(m)] # "starting"
  /\ inFlight' = inFlight \ {m}
  /\ IF m.request \in rpcCallbacks
     THEN UNCHANGED <<removing, faulted>>
     ELSE removing' = removing \cup {m.request} /\ UNCHANGED faulted
  /\ outcome' = [outcome EXCEPT ![m.request] =
                   IF m.request \in rpcCallbacks THEN "resolved" ELSE "failed"]
  /\ UNCHANGED <<nodeVars, saving, messages, handlerVars, rpcCallbacks,
                 crashVars>>

\* messageReceivedFromTransport of an acknowledgement, receiveAck: the DELETE
\* of the command starts, and an RPC's callback resolves its promise.  Without
\* such a callback the look-up by name throws.
\* The callback stays in rpcCallbacks: it clears the entry of the
\* acknowledgement's own id, not of the request.
ReceiveAck(m) ==
  /\ m \in inFlight /\ m.type = "ACK"
  /\ status[Receiver(m)] # "starting"
  /\ inFlight' = inFlight \ {m}
  /\ IF status[Receiver(m)] = "closed"
     THEN faulted' = faulted \cup {m.request} /\ UNCHANGED removing
     ELSE removing' = removing \cup {m.request} /\ UNCHANGED faulted
  /\ outcome' = [outcome EXCEPT ![m.request] =
                   IF m.request \in rpcCallbacks THEN "resolved" ELSE "failed"]
  /\ UNCHANGED <<nodeVars, saving, messages, handlerVars, rpcCallbacks,
                 crashVars>>

\* removeMessageByMessageId, whose result nobody awaits.
RemoveDone(r) ==
  /\ r \in removing
  /\ removing' = removing \ {r}
  /\ messages' = messages \ {Command(r)}
  /\ UNCHANGED <<nodeVars, saving, inFlight, handlerVars, callerVars, faulted,
                 crashVars>>

RemoveFails(r) ==
  /\ r \in removing
  /\ removing' = removing \ {r}
  /\ faulted' = faulted \cup {r}
  /\ UNCHANGED <<nodeVars, saving, messages, inFlight, handlerVars, callerVars,
                 crashVars>>

-----------------------------------------------------------------------------
SaveEnds(m) == SaveDone(m) \/ SaveFails(m)

TransportEnds(m) ==
  Lose(m) \/ ReceiveTooEarly(m) \/ ReceiveCommand(m) \/ ReceiveAck(m)

HandlerEnds(r) == HandlerReplies(r) \/ HandlerFails(r)

RemoveEnds(r) == RemoveDone(r) \/ RemoveFails(r)

Next ==
  \/ \E n \in Nodes : Open(n) \/ Close(n) \/ HouseKeeping(n) \/ Crash(n)
  \/ \E r \in Requests :
       SendRpc(r) \/ SendCommand(r) \/ HandlerEnds(r) \/ RemoveEnds(r)
  \/ \E m \in Messages : SaveEnds(m) \/ TransportEnds(m)

Spec == Init /\ [][Next]_vars

\* The event loop runs what is due: a statement, a message and a handler's
\* await come to an end, good or bad, and timers fire.  Nothing makes a node
\* send, or makes a statement or the transport succeed.
Fairness ==
  /\ \A n \in Nodes : WF_vars(HouseKeeping(n))
  /\ \A m \in Messages : WF_vars(SaveEnds(m)) /\ WF_vars(TransportEnds(m))
  /\ \A r \in Requests : WF_vars(HandlerEnds(r)) /\ WF_vars(RemoveEnds(r))

FairSpec == Spec /\ Fairness

-----------------------------------------------------------------------------
\* Each request is handled at most once, on top of the types.
TypeOK ==
  /\ status \in [Nodes -> {"starting", "open", "closed"}]
  /\ timer \in [Nodes -> {"armed", "fired", "cleared"}]
  /\ saving \subseteq Messages
  /\ messages \subseteq Messages
  /\ inFlight \subseteq Messages
  /\ running \subseteq Requests
  /\ removing \subseteq Requests
  /\ rpcCallbacks \subseteq Rpcs
  /\ outcome \in [Requests -> {"unsent", "pending", "resolved", "failed"}]
  /\ handled \in [Requests -> {0, 1}]
  /\ orphaned \subseteq faulted /\ faulted \subseteq Requests
  /\ crashes \in 0 .. MaxCrashes

\* A command that went out stays saved until its acknowledgement comes back,
\* so that it could be sent again: whichever of the two directions the exchange
\* is in, the row is there, also when its sender has crashed meanwhile.
UnacknowledgedIsSaved ==
  \A r \in Requests :
    \/ Command(r) \in inFlight
    \/ handled[r] > 0 /\ outcome[r] = "pending"
    => Command(r) \in messages

\* The acknowledgement of an RPC always meets the callback that waits for it,
\* also when the node has been closed meanwhile: receiveAck takes the path of
\* named callbacks, which throws, only for an RPC whose sender has crashed since
\* (rpcCallbacks are kept in memory).
AckFindsCallback ==
  \A r \in Rpcs :
    AckFor(r) \in saving \cup inFlight => r \in rpcCallbacks \/ r \in orphaned

\* The messaging layer implements RpcService: the caller hears of a request only
\* after the handler has run, and once.
Phase(r) ==
  IF outcome[r] = "unsent" THEN "idle"
  ELSE IF outcome[r] # "pending" THEN "ended"
  ELSE IF handled[r] = 0 THEN "requested" ELSE "executed"
Service == INSTANCE RpcService WITH phase <- [r \in Requests |-> Phase(r)]
ImplementsRpcService == Service!Spec

\* An RPC is answered unless something was lost on its way: neither an
\* overtaking message nor a closing node leaves its promise pending otherwise.
RpcAnswered ==
  \A r \in Rpcs :
    outcome[r] = "pending" ~> outcome[r] = "resolved" \/ r \in faulted

\* The saved command of an answered RPC is removed, unless the DELETE failed.
AnsweredIsRemoved ==
  \A r \in Rpcs :
    outcome[r] = "resolved" ~> Command(r) \notin messages \/ r \in faulted

-----------------------------------------------------------------------------
\* MessageGroup.js:8: messages are saved "so that that any unacknowledged
\* messages can be resend by the raft leader": a saved command whose first
\* transmission was lost reaches its handler after all, or the node closes.
LostIsResent ==
  \A r \in Requests :
    (r \in faulted /\ Command(r) \in messages /\ handled[r] = 0)
      ~> (handled[r] > 0 \/ status[Source[r]] = "closed"
                        \/ status[Dest[r]] # "open")
=============================================================================
