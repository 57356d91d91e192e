---------------------------- MODULE LiveQueries -----------------------------
(***************************************************************************)
(* The partition layer (src/PartitionLayer.js): it runs queries on its     *)
(* partition group, and keeps live queries with their recipients in the    *)
(* table live_query_subscribers of that group.  A statement of the group   *)
(* is asynchronous: statements end in any order, or fail.  What the group  *)
(* has executed stays when the process of the layer ends.                  *)
(*                                                                         *)
(* A live query is its text, which is the primary key of its row.  The     *)
(* recipients of a registration are one value.  The columns of a row are   *)
(* left out: only findLiveQuerySubscribers reads them, and its rows are    *)
(* lost (see AnswerQuery).                                                 *)
(***************************************************************************)
EXTENDS FiniteSets, Naturals

CONSTANTS
  Queries,           \* calls of handlePartitionQuery, each made at most once
  Registrations,     \* calls of handleRegisterLiveQuery
  Deregistrations,   \* calls of handleDeregisterLiveQuery
  Text,              \* the live query of a registration or a deregistration
  Recipients,        \* the recipients of a registration
  Modifying,         \* queries that are an INSERT, an UPDATE or a DELETE
  Unparsable,        \* calls whose query node-sql-parser rejects
  Quoting,           \* live queries with a quote, as in WHERE name = 'a'
  MaxCalls           \* a bound on the calls that are made

Subscriptions == Registrations \cup Deregistrations
Calls == Queries \cup Subscriptions

\* The row that handleRegisterLiveQuery inserts.
RowOf(c) == [id |-> Text[c], recipients |-> Recipients[c]]
IdsOf(table) == {row.id : row \in table}

\* A node registers a live query at most once.
ASSUME CallsAssumption ==
  /\ Queries \cap Subscriptions = {} /\ Registrations \cap Deregistrations = {}
  /\ \A r1, r2 \in Registrations : RowOf(r1) = RowOf(r2) => r1 = r2
  /\ Modifying \subseteq Queries /\ Unparsable \subseteq Calls \ Modifying
  /\ MaxCalls \in Nat

VARIABLES
  up,         \* the process of the layer runs
  creating,   \* the CREATE TABLE of its constructor is under way
  created,    \* the table live_query_subscribers exists
  rows,       \* its rows
  issued,     \* calls whose statement is under way in the partition group
  outcome,    \* per call: how far its handler has come
  executed,   \* history: calls whose statement succeeded
  seen        \* history: per deregistration, the registrations of its text that
              \* had been answered when it was made

tableVars == <<creating, created, rows>>
vars == <<up, tableVars, issued, outcome, executed, seen>>

Under == {"issued", "done", "failed"}   \* outcomes of a handler that awaits
Outcomes == Under \cup {"uncalled", "answered", "refused", "lost"}

-----------------------------------------------------------------------------
Init ==
  /\ up = TRUE
  /\ creating = TRUE /\ created = FALSE /\ rows = {}
  /\ issued = {} /\ executed = {}
  /\ outcome = [c \in Calls |-> "uncalled"]
  /\ seen = [c \in Calls |-> {}]

\* A rejection that nobody handles: it may end the process, which depends on the
\* version and the options of Node.  The handlers under way are lost; their
\* statements still end.  s is the outcome of the calls otherwise.
Unhandled(s) ==
  \/ up' = up /\ outcome' = s
  \/ /\ up' = FALSE
     /\ outcome' = [c \in Calls |-> IF s[c] \in Under THEN "lost" ELSE s[c]]

\* Mutant of CreateTable: the table is made anew.
RecreateTable ==
  /\ creating /\ creating' = FALSE
  /\ created' = TRUE /\ rows' = {}
  /\ UNCHANGED <<up, issued, outcome, executed, seen>>

\* createLiveQuerySusbcriberTable.  Nothing awaits it: the handlers are
\* registered while it is under way.  IF NOT EXISTS keeps the rows of a table
\* that an earlier process made.
CreateTable ==
  /\ creating /\ creating' = FALSE
  /\ created' = TRUE
  /\ UNCHANGED <<up, rows, issued, outcome, executed, seen>>

\* It fails, perhaps only its CREATE INDEX on a column that does not exist.
CreateTableFails ==
  /\ creating /\ creating' = FALSE
  /\ created' \in {created, TRUE}
  /\ IF up THEN Unhandled(outcome) ELSE UNCHANGED <<up, outcome>>
  /\ UNCHANGED <<rows, issued, executed, seen>>

\* A new process constructs the layer again, on the same partition group.
Restart ==
  /\ ~up /\ up' = TRUE
  /\ creating' = TRUE
  /\ UNCHANGED <<created, rows, issued, outcome, executed, seen>>

-----------------------------------------------------------------------------
Registered(c) ==
  {r \in Registrations :
     c \in Deregistrations /\ Text[r] = Text[c] /\ outcome[r] = "answered"}

\* handleRegisterLiveQuery extracts the columns before it issues its INSERT.
Refused(c) == c \in Registrations \cap Unparsable

\* A handler is called, and runs to the end of its executeQuery call.
Call(c) ==
  /\ up /\ outcome[c] = "uncalled"
  /\ Cardinality({k \in Calls : outcome[k] # "uncalled"}) < MaxCalls
  /\ outcome' = [outcome EXCEPT ![c] = IF Refused(c) THEN "refused" ELSE "issued"]
  /\ issued' = IF Refused(c) THEN issued ELSE issued \cup {c}
  /\ seen' = [seen EXCEPT ![c] = Registered(c)]
  /\ UNCHANGED <<up, tableVars, executed>>

\* The statement of a call ends, well or not.
Ends(c, s) ==
  /\ c \in issued /\ issued' = issued \ {c}
  /\ outcome' = [outcome EXCEPT ![c] = IF @ = "issued" THEN s ELSE @]
  /\ executed' = IF s = "done" THEN executed \cup {c} ELSE executed

\* Mutant of Insertable: the text is not the primary key.
InsertableAgain(c) == created /\ Text[c] \notin Quoting

\* The text stands between quotes in the statement.
Insertable(c) ==
  created /\ Text[c] \notin Quoting /\ Text[c] \notin IdsOf(rows)

ExecuteRegister(c) ==
  /\ c \in Registrations /\ Insertable(c)
  /\ Ends(c, "done")
  /\ rows' = rows \cup {RowOf(c)}
  /\ UNCHANGED <<up, creating, created, seen>>

\* The recipients of a deregistration are not looked at.
ExecuteDeregister(c) ==
  /\ c \in Deregistrations /\ created /\ Text[c] \notin Quoting
  /\ Ends(c, "done")
  /\ rows' = {row \in rows : row.id # Text[c]}
  /\ UNCHANGED <<up, creating, created, seen>>

\* A query runs on the tables of the partition.
ExecuteQuery(c) ==
  /\ c \in Queries
  /\ Ends(c, "done")
  /\ UNCHANGED <<up, tableVars, seen>>

\* A statement may fail for any reason.
ExecuteFails(c) ==
  /\ Ends(c, "failed")
  /\ UNCHANGED <<up, tableVars, seen>>

Execute(c) ==
  ExecuteRegister(c) \/ ExecuteDeregister(c) \/ ExecuteQuery(c) \/ ExecuteFails(c)

-----------------------------------------------------------------------------
Settle(c, s) == outcome' = [outcome EXCEPT ![c] = s]

\* Mutant of AnswerSubscription: the promise of executeQuery is not returned.
AnswerAtOnce(c) ==
  /\ c \in Subscriptions /\ outcome[c] \in {"issued", "done"}
  /\ Settle(c, "answered")
  /\ UNCHANGED <<up, tableVars, issued, executed, seen>>

\* The promise of the statement is the handler's.
AnswerSubscription(c) ==
  /\ c \in Subscriptions /\ outcome[c] = "done"
  /\ Settle(c, "answered")
  /\ UNCHANGED <<up, tableVars, issued, executed, seen>>

\* handlePartitionQuery goes on after its await.  For a query that modifies,
\* handleLiveQuerySubscribers has the rows of the subscribers selected, but takes
\* the promise for the rows: forEach throws, nobody is notified, and nobody
\* handles the rejection.  The caller has its result by then.
AnswerQuery(c) ==
  /\ c \in Queries /\ outcome[c] = "done" /\ c \notin Unparsable
  /\ IF c \in Modifying
     THEN Unhandled([outcome EXCEPT ![c] = "answered"])
     ELSE Settle(c, "answered") /\ UNCHANGED up
  /\ UNCHANGED <<tableVars, issued, executed, seen>>

\* The query has run by the time it is parsed.
RefuseUnparsable(c) ==
  /\ c \in Queries /\ outcome[c] = "done" /\ c \in Unparsable
  /\ Settle(c, "refused")
  /\ UNCHANGED <<up, tableVars, issued, executed, seen>>

\* Mutant of RefuseFailed: the query is answered, as if it had no rows.
SwallowFailure(c) ==
  /\ outcome[c] = "failed"
  /\ Settle(c, IF c \in Queries THEN "answered" ELSE "refused")
  /\ UNCHANGED <<up, tableVars, issued, executed, seen>>

\* Mutant of RefuseFailed: a subscription that fails is not rejected.
RefuseFailedQuery(c) ==
  /\ c \in Queries /\ outcome[c] = "failed"
  /\ Settle(c, "refused")
  /\ UNCHANGED <<up, tableVars, issued, executed, seen>>

\* A statement that fails rejects the handler's promise.
RefuseFailed(c) ==
  /\ outcome[c] = "failed"
  /\ Settle(c, "refused")
  /\ UNCHANGED <<up, tableVars, issued, executed, seen>>

-----------------------------------------------------------------------------
Handle(c) ==
  AnswerSubscription(c) \/ AnswerQuery(c) \/ RefuseUnparsable(c) \/ RefuseFailed(c)

ExecuteAny == \E c \in Calls : Execute(c)
HandleAny == \E c \in Calls : Handle(c)

Next ==
  \/ CreateTable \/ CreateTableFails \/ Restart
  \/ \E c \in Calls : Call(c)
  \/ ExecuteAny \/ HandleAny

Spec == Init /\ [][Next]_vars

\* The partition group ends every statement, and the event loop runs what is due.
\* Calls are finite in number: neither has to be fair within itself.
Fairness == WF_vars(ExecuteAny) /\ WF_vars(HandleAny)

FairSpec == Spec /\ Fairness

-----------------------------------------------------------------------------
\* The variables are well formed, and a live query has one row at most, whoever
\* registers it.
TypeOK ==
  /\ {up, creating, created} \subseteq BOOLEAN
  /\ rows \subseteq {RowOf(r) : r \in Registrations}
  /\ \A row1, row2 \in rows : row1.id = row2.id => row1 = row2
  /\ issued \subseteq Calls /\ executed \subseteq Calls
  /\ outcome \in [Calls -> Outcomes]
  /\ seen \in [Calls -> SUBSET Registrations]

\* "The partition layer remember the live query registration" (PartitionLayer.js:11):
\* one that was answered keeps its row until the query is deregistered, by
\* anyone; two nodes that register the same query at the same time are not both
\* answered; and the table outlives the process.
RegistrationRemembered ==
  \A r \in Registrations :
    outcome[r] = "answered" =>
      RowOf(r) \in rows \/ \E d \in Deregistrations \cap executed : Text[d] = Text[r]

\* Once a deregistration is answered, no registration that was answered before
\* it was made has a row: statements that overtake each other, and a table that
\* is created late, do not bring one back.
DeregisteredIsGone ==
  \A d \in Deregistrations :
    outcome[d] = "answered" => \A r \in seen[d] : RowOf(r) \notin rows

\* The answer tells what was done: an answered call was executed, and a refused
\* one was not, so that it may be tried again.  The exception is a query that the
\* parser rejects: it was refused after it had run.
AnswersTellWhatRan ==
  \A c \in Calls :
    /\ outcome[c] = "answered" => c \in executed
    /\ outcome[c] = "refused" /\ c \in executed =>
         c \in Queries \cap Unparsable

\* Every call that is made comes to an answer or a refusal, unless the process
\* ends first: again and again no call is under way (a call is made only once).
\* In particular the failing notification never keeps an answer back.
CallsEnd == []<>(\A c \in Calls : outcome[c] \notin Under)

=============================================================================
