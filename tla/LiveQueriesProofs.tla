------------------------- MODULE LiveQueriesProofs -------------------------
(***************************************************************************)
(* The safety of LiveQueries, for any calls, texts and recipients: typing, *)
(* registrations that are remembered, deregistrations that stay, and       *)
(* answers that tell what ran.                                             *)
(***************************************************************************)
EXTENDS LiveQueries, TLAPS

\* What a handler knows of its statement.
HandlersKnow ==
  \A c \in Calls :
    /\ c \in issued => c \notin executed /\ outcome[c] \in {"issued", "lost"}
    /\ outcome[c] \in {"done", "answered"} => c \in executed
    /\ outcome[c] \in {"uncalled", "issued", "failed"} => c \notin executed
    /\ outcome[c] = "refused" /\ c \in executed => c \in Queries \cap Unparsable

\* A registration that was executed has its row until a deregistration is.
RowsStay ==
  \A r \in Registrations \cap executed :
    RowOf(r) \in rows \/ \E d \in Deregistrations \cap executed : Text[d] = Text[r]

\* What a deregistration has seen is answered, and gone once it is executed.
SeenIsGone ==
  \A d \in Deregistrations : \A r \in seen[d] :
    /\ outcome[r] = "answered" /\ Text[r] = Text[d]
    /\ d \in executed => RowOf(r) \notin rows

IInv == TypeOK /\ HandlersKnow /\ RowsStay /\ SeenIsGone

-----------------------------------------------------------------------------
\* The process may end in a step: only handlers under way are lost.
LEMMA UnhandledOutcome ==
  ASSUME TypeOK,
         NEW s \in [Calls -> Outcomes],
         Unhandled(s)
  PROVE  /\ outcome' \in [Calls -> Outcomes]
         /\ up' \in BOOLEAN
         /\ \A c \in Calls : outcome'[c] = s[c] \/ (s[c] \in Under /\ outcome'[c] = "lost")
<1>1. CASE up' = up /\ outcome' = s
  BY <1>1 DEF TypeOK
<1>2. CASE /\ up' = FALSE
           /\ outcome' = [c \in Calls |-> IF s[c] \in Under THEN "lost" ELSE s[c]]
  BY <1>2 DEF Under, Outcomes
<1> QED BY <1>1, <1>2 DEF Unhandled

\* Before any call, nothing is executed or seen.
LEMMA Initially == Init => IInv
BY CallsAssumption DEF Init, IInv, TypeOK, HandlersKnow, RowsStay, SeenIsGone, Calls,
   Subscriptions, Under, Outcomes

\* Steps that leave the table, what is executed and what is seen alone, and take
\* outcomes only where handlers may go, keep the invariant.
LEMMA OutcomesOnly ==
  ASSUME IInv,
         UNCHANGED <<rows, executed, seen>>,
         {up, creating, created}' \subseteq BOOLEAN,
         issued' \subseteq issued,
         outcome' \in [Calls -> Outcomes],
         \A c \in Calls :
           \/ outcome'[c] = outcome[c]
           \/ outcome[c] \in Under /\ outcome'[c] = "lost"
           \/ outcome[c] = "done" /\ outcome'[c] = "answered"
           \/ outcome[c] = "failed" /\ outcome'[c] = "refused"
           \/ outcome[c] = "done" /\ outcome'[c] = "refused" /\ c \in Queries \cap Unparsable
  PROVE  IInv'
<1>1. TypeOK'
  BY DEF IInv, TypeOK
<1>2. HandlersKnow'
  BY DEF IInv, HandlersKnow, Under, Outcomes
<1>3. RowsStay'
  BY DEF IInv, RowsStay
<1>4. SeenIsGone'
  BY DEF IInv, TypeOK, SeenIsGone, Under, Outcomes, Calls, Subscriptions
<1> QED BY <1>1, <1>2, <1>3, <1>4 DEF IInv

\* A call issues a statement that was never executed, and sees what is answered.
LEMMA CallKeeps == ASSUME IInv, NEW c \in Calls, Call(c) PROVE IInv'
<1> USE DEF Call, tableVars
<1>1. TypeOK'
  BY DEF IInv, TypeOK, Registered, Under, Outcomes
<1>2. HandlersKnow'
  BY DEF IInv, TypeOK, HandlersKnow, Refused
<1>3. RowsStay'
  BY DEF IInv, RowsStay
<1>4. SeenIsGone'
  <2> SUFFICES ASSUME NEW d \in Deregistrations, NEW r \in seen'[d]
               PROVE  /\ outcome'[r] = "answered" /\ Text[r] = Text[d]
                      /\ d \in executed => RowOf(r) \notin rows
    BY DEF SeenIsGone
  <2>0. d \in Calls
    BY DEF Calls, Subscriptions
  <2>1. CASE d = c
    <3>1. r \in Registered(c)
      BY <2>1, <2>0 DEF IInv, TypeOK
    <3>2. c \notin executed
      BY DEF IInv, HandlersKnow
    <3> QED BY <3>1, <3>2, <2>1 DEF Registered, IInv, TypeOK, Calls, Subscriptions
  <2>2. CASE d # c
    <3>1. r \in seen[d]
      BY <2>2, <2>0 DEF IInv, TypeOK
    <3> QED BY <3>1, <2>2 DEF IInv, TypeOK, SeenIsGone
  <2> QED BY <2>1, <2>2
<1> QED BY <1>1, <1>2, <1>3, <1>4 DEF IInv

\* A statement that ends leaves the handlers knowing.
LEMMA EndsKeeps ==
  ASSUME IInv, NEW c \in Calls, NEW s \in {"done", "failed"}, Ends(c, s)
  PROVE  /\ HandlersKnow'
         /\ outcome' \in [Calls -> Outcomes]
         /\ issued' \subseteq Calls /\ executed' \subseteq Calls
         /\ c \notin executed
         /\ \A k \in Calls : outcome[k] = "answered" => outcome'[k] = "answered"
<1> USE DEF Ends, IInv, TypeOK, HandlersKnow, Under, Outcomes
<1>1. HandlersKnow'
  <2> SUFFICES ASSUME NEW k \in Calls
               PROVE  /\ k \in issued' => k \notin executed' /\ outcome'[k] \in {"issued", "lost"}
                      /\ outcome'[k] \in {"done", "answered"} => k \in executed'
                      /\ outcome'[k] \in {"uncalled", "issued", "failed"} => k \notin executed'
                      /\ outcome'[k] = "refused" /\ k \in executed' => k \in Queries \cap Unparsable
    OBVIOUS
  <2>1. CASE k = c
    BY <2>1
  <2>2. CASE k # c
    BY <2>2
  <2> QED BY <2>1, <2>2
<1> QED BY <1>1

\* A registration adds its own row, which no deregistration has seen.
LEMMA ExecuteRegisterKeeps ==
  ASSUME IInv, NEW c \in Calls, ExecuteRegister(c) PROVE IInv'
<1> USE DEF ExecuteRegister, tableVars
<1>0. Ends(c, "done")
  OBVIOUS
<1>e. executed' = executed \cup {c} /\ c \notin executed
  BY <1>0, EndsKeeps DEF Ends
<1>1. TypeOK'
  BY <1>0, EndsKeeps, CallsAssumption DEF IInv, TypeOK, Insertable, IdsOf, RowOf
<1>2. HandlersKnow'
  BY <1>0, EndsKeeps
<1>3. RowsStay'
  BY <1>e DEF IInv, RowsStay
<1>4. SeenIsGone'
  <2> SUFFICES ASSUME NEW d \in Deregistrations, NEW r \in seen[d]
               PROVE  /\ outcome'[r] = "answered" /\ Text[r] = Text[d]
                      /\ d \in executed' => RowOf(r) \notin rows'
    BY DEF SeenIsGone
  <2>1. r \in Registrations /\ r \in Calls /\ d \in Calls
    BY DEF IInv, TypeOK, Calls, Subscriptions
  <2>2. outcome[r] = "answered" /\ Text[r] = Text[d] /\ (d \in executed => RowOf(r) \notin rows)
    BY DEF IInv, SeenIsGone
  <2>3. r \in executed
    BY <2>1, <2>2 DEF IInv, HandlersKnow
  <2>4. RowOf(r) # RowOf(c)
    BY <2>1, <2>3, <1>e, CallsAssumption
  <2>5. d # c
    BY CallsAssumption
  <2> QED BY <1>0, <1>e, EndsKeeps, <2>1, <2>2, <2>4, <2>5
<1> QED BY <1>1, <1>2, <1>3, <1>4 DEF IInv

\* A deregistration removes the rows of its text, and accounts for them.
LEMMA ExecuteDeregisterKeeps ==
  ASSUME IInv, NEW c \in Calls, ExecuteDeregister(c) PROVE IInv'
<1> USE DEF ExecuteDeregister, tableVars
<1>0. Ends(c, "done")
  OBVIOUS
<1>e. executed' = executed \cup {c}
  BY <1>0 DEF Ends
<1>1. TypeOK'
  BY <1>0, EndsKeeps DEF IInv, TypeOK
<1>2. HandlersKnow'
  BY <1>0, EndsKeeps
<1>3. RowsStay'
  <2> SUFFICES ASSUME NEW r \in Registrations, r \in executed'
               PROVE  RowOf(r) \in rows' \/ \E d \in Deregistrations \cap executed' : Text[d] = Text[r]
    BY DEF RowsStay
  <2>1. r \in executed
    BY <1>e, CallsAssumption
  <2>2. CASE RowOf(r) \in rows
    BY <2>2, <1>e DEF RowOf
  <2>3. CASE \E d \in Deregistrations \cap executed : Text[d] = Text[r]
    BY <2>3, <1>e
  <2> QED BY <2>1, <2>2, <2>3 DEF IInv, RowsStay
<1>4. SeenIsGone'
  <2> SUFFICES ASSUME NEW d \in Deregistrations, NEW r \in seen[d]
               PROVE  /\ outcome'[r] = "answered" /\ Text[r] = Text[d]
                      /\ d \in executed' => RowOf(r) \notin rows'
    BY DEF SeenIsGone
  <2>1. r \in Calls
    BY DEF IInv, TypeOK, Calls, Subscriptions
  <2>2. outcome[r] = "answered" /\ Text[r] = Text[d] /\ (d \in executed => RowOf(r) \notin rows)
    BY DEF IInv, SeenIsGone
  <2>3. ASSUME d = c PROVE RowOf(r) \notin rows'
    BY <2>2, <2>3 DEF RowOf
  <2> QED BY <1>0, <1>e, EndsKeeps, <2>1, <2>2, <2>3
<1> QED BY <1>1, <1>2, <1>3, <1>4 DEF IInv

\* Queries, and statements that fail, leave the table alone.
LEMMA ExecuteOtherKeeps ==
  ASSUME IInv, NEW c \in Calls, ExecuteQuery(c) \/ ExecuteFails(c) PROVE IInv'
<1>0. PICK s \in {"done", "failed"} : Ends(c, s) /\ (s = "done" => c \in Queries)
  BY DEF ExecuteQuery, ExecuteFails
<1>u. UNCHANGED <<up, tableVars, seen>>
  BY DEF ExecuteQuery, ExecuteFails
<1>e. \/ executed' = executed
      \/ executed' = executed \cup {c} /\ c \in Queries
  BY <1>0 DEF Ends
<1> USE DEF tableVars
<1>1. TypeOK'
  BY <1>0, <1>u, EndsKeeps DEF IInv, TypeOK
<1>2. HandlersKnow'
  BY <1>0, EndsKeeps
<1>3. RowsStay'
  BY <1>u, <1>e, CallsAssumption DEF IInv, RowsStay, Subscriptions
<1>4. SeenIsGone'
  BY <1>0, <1>u, <1>e, EndsKeeps, CallsAssumption DEF IInv, TypeOK, SeenIsGone, Calls, Subscriptions
<1> QED BY <1>1, <1>2, <1>3, <1>4 DEF IInv

\* What a handler does after its await changes outcomes only.
LEMMA HandleKeeps == ASSUME IInv, NEW c \in Calls, Handle(c) PROVE IInv'
<1> USE DEF IInv, TypeOK, Under, Outcomes, Settle, tableVars
<1>1. CASE AnswerSubscription(c)
  BY <1>1, OutcomesOnly DEF AnswerSubscription
<1>2. CASE AnswerQuery(c)
  <2> DEFINE s == [outcome EXCEPT ![c] = "answered"]
  <2>1. CASE c \in Modifying
    <3>1. Unhandled(s)
      BY <1>2, <2>1 DEF AnswerQuery
    <3>2. s \in [Calls -> Outcomes]
      OBVIOUS
    <3>3. /\ outcome' \in [Calls -> Outcomes]
          /\ up' \in BOOLEAN
          /\ \A k \in Calls : outcome'[k] = s[k] \/ (s[k] \in Under /\ outcome'[k] = "lost")
      BY <3>1, <3>2, UnhandledOutcome
    <3>4. \A k \in Calls :
            \/ outcome'[k] = outcome[k]
            \/ outcome[k] \in Under /\ outcome'[k] = "lost"
            \/ outcome[k] = "done" /\ outcome'[k] = "answered"
      BY <1>2, <3>3 DEF AnswerQuery
    <3> QED BY <1>2, <3>3, <3>4, OutcomesOnly DEF AnswerQuery
  <2>2. CASE c \notin Modifying
    BY <1>2, <2>2, OutcomesOnly DEF AnswerQuery
  <2> QED BY <2>1, <2>2
<1>3. CASE RefuseUnparsable(c)
  BY <1>3, OutcomesOnly DEF RefuseUnparsable
<1>4. CASE RefuseFailed(c)
  BY <1>4, OutcomesOnly DEF RefuseFailed
<1> QED BY <1>1, <1>2, <1>3, <1>4 DEF Handle

\* The constructor's table, and the process that ends over it or starts again.
LEMMA TableKeeps ==
  ASSUME IInv, CreateTable \/ CreateTableFails \/ Restart PROVE IInv'
<1> USE DEF IInv, TypeOK
<1>1. CASE CreateTable
  BY <1>1, OutcomesOnly DEF CreateTable
<1>2. CASE CreateTableFails
  <2>1. CASE up
    <3>1. Unhandled(outcome)
      BY <1>2, <2>1 DEF CreateTableFails
    <3> QED BY <1>2, <3>1, UnhandledOutcome, OutcomesOnly DEF CreateTableFails
  <2>2. CASE ~up
    BY <1>2, <2>2, OutcomesOnly DEF CreateTableFails
  <2> QED BY <2>1, <2>2
<1>3. CASE Restart
  BY <1>3, OutcomesOnly DEF Restart
<1> QED BY <1>1, <1>2, <1>3

\* The inductive invariant.
THEOREM Invariance == Spec => []IInv
<1>1. IInv /\ [Next]_vars => IInv'
  <2> SUFFICES ASSUME IInv, [Next]_vars PROVE IInv'
    OBVIOUS
  <2>1. CASE Next
    BY <2>1, TableKeeps, CallKeeps, ExecuteRegisterKeeps, ExecuteDeregisterKeeps,
       ExecuteOtherKeeps, HandleKeeps DEF Next, ExecuteAny, HandleAny, Execute
  <2>2. CASE UNCHANGED vars
    BY <2>2 DEF vars, tableVars, IInv, TypeOK, HandlersKnow, RowsStay, SeenIsGone
  <2> QED BY <2>1, <2>2
<1> QED BY <1>1, Initially, PTL DEF Spec

\* Types, and one row for a live query at most.
THEOREM Typing == Spec => []TypeOK
BY Invariance, PTL DEF IInv

\* The partition layer remembers live queries until they are deregistered.
THEOREM Remembering == Spec => []RegistrationRemembered
<1>1. IInv => RegistrationRemembered
  BY DEF IInv, HandlersKnow, RowsStay, RegistrationRemembered, Calls, Subscriptions
<1> QED BY <1>1, Invariance, PTL

\* A deregistration that was answered is final for what it has seen.
THEOREM Deregistering == Spec => []DeregisteredIsGone
<1>1. IInv => DeregisteredIsGone
  BY DEF IInv, HandlersKnow, SeenIsGone, DeregisteredIsGone, Calls, Subscriptions
<1> QED BY <1>1, Invariance, PTL

\* Answers and refusals tell what the partition group has executed.
THEOREM Answering == Spec => []AnswersTellWhatRan
<1>1. IInv => AnswersTellWhatRan
  BY DEF IInv, HandlersKnow, AnswersTellWhatRan
<1> QED BY <1>1, Invariance, PTL
=============================================================================
