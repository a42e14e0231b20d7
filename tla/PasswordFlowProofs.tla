------------------------- MODULE PasswordFlowProofs -------------------------
(***************************************************************************)
(* Theorems of PasswordFlow, for any handlers, processes, passwords, bound *)
(* on the attempts, submissions and faults.                                *)
(***************************************************************************)
EXTENDS PasswordFlow, FiniteSetTheorems, TLAPS

LEMMA OutcomeSteps == DOMAIN Outcomes = {"ask", "give_up", "done", "fail"}
BY DEF Outcomes

LEMMA StepsAreSteps ==
  /\ Working = {"look_up", "extract", "count", "read_attempts", "stamp_attempts",
                "append_attempts", "ask", "give_up", "done", "fail"}
  /\ Steps = Working \cup {"idle", "ack", "claim", "leave", "read_password", "stamp_password",
                           "append_password", "send_ingest"}
BY OutcomeSteps DEF Working, Adding, Steps, InIngest, Setting

-----------------------------------------------------------------------------
(***************************************************************************)
(* Types.                                                                  *)
(***************************************************************************)
LEMMA InitType == Init => TypeOK
BY PasswordAssumption, StepsAreSteps
   DEF Init, TypeOK, JobStatuses, Row, NoState, Unstamped, Message, First, Faults

\* A copy more of a message, and a fault more, are in their types.
LEMMA PutType ==
  ASSUME queue \in [Message -> Nat], NEW m \in Message, Put(m)
  PROVE  queue' \in [Message -> Nat]
BY DEF Put

LEMMA SpendType ==
  ASSUME spent \in [Faults -> Nat], NEW f \in Faults, Spend(f)
  PROVE  /\ spent' \in [Faults -> Nat] /\ spent'[f] = spent[f] + 1
         /\ \A g \in Faults : g # f => spent'[g] = spent[g]
BY DEF Spend

LEMMA EndsType ==
  ASSUME TypeOK, NEW ended, Ends(ended)
  PROVE  /\ pc' \in [Handlers -> Steps] /\ process' \in [Handlers -> Processes \cup {Nowhere}]
         /\ msg' \in [Handlers -> Message] /\ draft' \in [Handlers -> Row]
         /\ claim' \in [Handlers -> Nat] /\ held' \subseteq Handlers
<1>1. First \in Message /\ NoState \in Row
  BY DEF First, Message, NoState, Unstamped, Row
<1> QED BY <1>1, StepsAreSteps DEF TypeOK, Ends

LEMMA HandlerStepType ==
  ASSUME TypeOK, NEW h \in Handlers, HandlerStep(h)
  PROVE  TypeOK'
<1>1. CASE Acks(h)
  BY <1>1, EndsType DEF Acks, TypeOK, rowVars, stateVars, ghostVars
<1>2. CASE Claims(h)
  BY <1>2, StepsAreSteps
     DEF Claims, Goto, TypeOK, JobStatuses, stateVars, deliveryVars, ghostVars, claimVars
<1>3. CASE LooksUpPassword(h)
  <2>1. Unstamped(IF msg[h].password # None THEN msg[h].password ELSE latest.password, 0) \in Row
    BY DEF TypeOK, Unstamped, Row, Message
  <2> QED BY <1>3, <2>1, StepsAreSteps
          DEF LooksUpPassword, Goto, TypeOK, rowVars, stateVars, deliveryVars, claimVars, ghostVars
<1>4. CASE Extracts(h)
  <2>1. NoState \in Row
    BY DEF NoState, Unstamped, Row
  <2> QED BY <1>4, <2>1, StepsAreSteps
          DEF Extracts, Goto, TypeOK, rowVars, stateVars, deliveryVars, claimVars
<1>5. CASE CountsAttempts(h)
  BY <1>5, StepsAreSteps
     DEF CountsAttempts, Goto, TypeOK, rowVars, stateVars, deliveryVars, claimVars, ghostVars
<1>6. CASE Publishes(h)
  <2>1. [claim |-> claim[h], status |-> Outcomes[pc[h]].status, error |-> Outcomes[pc[h]].error] \in Event
    BY <1>6, OutcomeSteps DEF Publishes, Outcomes, Outcome, Event, TypeOK
  <2> QED BY <1>6, <2>1, StepsAreSteps
          DEF Publishes, Goto, TypeOK, rowVars, stateVars, deliveryVars, claimVars, ghostVars
<1>7. CASE Leaves(h)
  BY <1>7, StepsAreSteps
     DEF Leaves, Goto, TypeOK, rowVars, stateVars, deliveryVars, claimVars, ghostVars
<1>8. CASE ReadsState(h)
  <2>1. /\ latest \in Row /\ msg[h].password \in Passwords \cup {None}
    BY DEF TypeOK, Message
  <2>2. Unstamped(msg[h].password, latest.attempts) \in Row
    BY <2>1 DEF Row, Unstamped
  <2>3. Unstamped(latest.password, latest.attempts + 1) \in Row
    BY <2>1 DEF Row, Unstamped
  <2> QED BY <1>8, <2>2, <2>3, StepsAreSteps
          DEF ReadsState, Goto, TypeOK, rowVars, stateVars, deliveryVars, claimVars, ghostVars
<1>9. CASE TakesTime(h)
  <2>1. [draft[h] EXCEPT !.updated_at = clock + 1] \in Row
    BY DEF TypeOK, Row
  <2>2. draft' = [draft EXCEPT ![h] = [draft[h] EXCEPT !.updated_at = clock + 1]]
    BY <1>9 DEF TakesTime
  <2> QED BY <1>9, <2>1, <2>2, StepsAreSteps
          DEF TakesTime, Goto, TypeOK, rowVars, deliveryVars, claimVars, ghostVars
<1>10. CASE AppendsRow(h)
  <2>1. latest' \in Row /\ clock' \in Nat
    BY <1>10 DEF AppendsRow, TypeOK, Row
  <2>2. [draft[h] EXCEPT !.updated_at = 0] \in Row
    BY DEF TypeOK, Row
  <2>3. draft' = [draft EXCEPT ![h] = [draft[h] EXCEPT !.updated_at = 0]]
    BY <1>10 DEF AppendsRow
  <2> QED BY <1>10, <2>1, <2>2, <2>3, StepsAreSteps
          DEF AppendsRow, Goto, TypeOK, rowVars, deliveryVars, claimVars, ghostVars
<1>11. CASE SendsIngest(h)
  <2>1. [action |-> "ingest", password |-> msg[h].password] \in Message
    BY DEF TypeOK, Message
  <2> QED BY <1>11, <2>1, PutType, StepsAreSteps
          DEF SendsIngest, Goto, TypeOK, rowVars, stateVars, claimVars, ghostVars
<1> QED BY <1>1, <1>2, <1>3, <1>4, <1>5, <1>6, <1>7, <1>8, <1>9, <1>10, <1>11 DEF HandlerStep

LEMMA StatusChangedType ==
  ASSUME TypeOK, NEW e \in Event, OnStatusChanged(e)
  PROVE  status' \in JobStatuses /\ error' \in {"none", "password_unavailable", "other"}
BY DEF OnStatusChanged, rowVars, TypeOK, Event, JobStatuses

LEMMA NextType == TypeOK /\ [Next]_vars => TypeOK'
<1> SUFFICES ASSUME TypeOK, [Next]_vars PROVE TypeOK'
  OBVIOUS
<1>1. ASSUME NEW password \in Passwords, Submits(password) PROVE TypeOK'
  <2>1. [action |-> "provide_password", password |-> password] \in Message
    BY DEF Message
  <2> QED BY <1>1, <2>1, PutType DEF Submits, TypeOK, rowVars, stateVars, claimVars
<1>2. ASSUME NEW h \in Handlers, HandlerStep(h) PROVE TypeOK'
  BY <1>2, HandlerStepType
<1>3. ASSUME NEW h \in Handlers, Redelivers(h) PROVE TypeOK'
  BY <1>3, PutType, SpendType DEF Redelivers, TypeOK, Faults, rowVars, stateVars, claimVars, ghostVars
<1>4. ASSUME NEW h \in Handlers, NEW p \in Processes, NEW m \in Message, Receives(h, p, m) PROVE TypeOK'
  <2>1. FirstStep(p, m) \in Steps
    BY StepsAreSteps DEF FirstStep
  <2>2. queue' \in [Message -> Nat]
    BY <1>4 DEF Receives, TypeOK
  <2> QED BY <1>4, <2>1, <2>2 DEF Receives, Goto, TypeOK, rowVars, stateVars, claimVars, ghostVars
<1>5. ASSUME NEW e \in events, Applies(e) PROVE TypeOK'
  <2>1. e \in Event
    BY DEF TypeOK
  <2> QED BY <1>5, <2>1, StatusChangedType
          DEF Applies, TypeOK, stateVars, deliveryVars, claimVars, ghostVars
<1>6. ASSUME NEW e \in events, AppliesAndRepeats(e) PROVE TypeOK'
  <2>1. e \in Event
    BY DEF TypeOK
  <2> QED BY <1>6, <2>1, StatusChangedType, SpendType
          DEF AppliesAndRepeats, TypeOK, Faults, stateVars, deliveryVars, claimVars, ghostVars
<1>7. ASSUME NEW p \in Processes, Crashes(p) PROVE TypeOK'
  <2> DEFINE dead == {h \in Handlers : process[h] = p}
  <2>1. \A m \in Message : Cardinality({h \in dead \cap held : msg[h] = m}) \in Nat
    BY PasswordAssumption, FS_Subset, FS_CardinalityType
  <2>2. queue' \in [Message -> Nat]
    BY <1>7, <2>1 DEF Crashes, TypeOK
  <2>3. Ends(dead)
    BY <1>7 DEF Crashes
  <2> HIDE DEF dead
  <2> QED BY <1>7, <2>2, <2>3, EndsType, SpendType
          DEF Crashes, TypeOK, Faults, rowVars, stateVars, ghostVars
<1>8. CASE UNCHANGED vars
  BY <1>8 DEF vars, TypeOK, rowVars, stateVars, deliveryVars, claimVars, ghostVars
<1> QED BY <1>1, <1>2, <1>3, <1>4, <1>5, <1>6, <1>7, <1>8 DEF Next

\* The variables keep their types (TypeOK).
THEOREM TypeCorrect == Spec => []TypeOK
BY InitType, NextType, PTL DEF Spec

-----------------------------------------------------------------------------
(***************************************************************************)
(* A job is never failed early.  Counting are the handlers whose failed    *)
(* extraction is not in the counter yet.  Neither the counter, nor a row   *)
(* that is about to replace it, is ahead of the failures without them.     *)
(***************************************************************************)
Counting == {h \in Handlers : pc[h] \in Adding}

NotAhead ==
  /\ latest.attempts + Cardinality(Counting) <= failures
  /\ \A h \in Handlers :
       /\ pc[h] \in {"stamp_password", "append_password"} =>
            draft[h].attempts + Cardinality(Counting) <= failures
       /\ pc[h] \in {"stamp_attempts", "append_attempts"} =>
            draft[h].attempts + Cardinality(Counting) <= failures + 1

\* Who gives a job up, or says that it was given up, has the failures to show for it.
GivenUpLate ==
  /\ \A h \in Handlers : pc[h] = "give_up" => failures > MaxAttempts
  /\ \A e \in events : e.error = "password_unavailable" => failures > MaxAttempts
  /\ NotFailedEarly

CountInv == TypeOK /\ NotAhead /\ GivenUpLate

LEMMA CountingIsFinite == IsFiniteSet(Counting) /\ Cardinality(Counting) \in Nat
BY PasswordAssumption, FS_Subset, FS_CardinalityType DEF Counting

\* What a handler's step does to the number of those that are counting.
LEMMA CountingMoves ==
  ASSUME TypeOK, NEW h \in Handlers, NEW step, Goto(h, step)
  PROVE  /\ Cardinality(Counting') \in Nat
         /\ (pc[h] \in Adding) = (step \in Adding) => Counting' = Counting
         /\ pc[h] \in Adding /\ step \notin Adding => Cardinality(Counting') = Cardinality(Counting) - 1
         /\ pc[h] \notin Adding /\ step \in Adding => Cardinality(Counting') = Cardinality(Counting) + 1
<1>1. pc' \in [Handlers -> STRING \cup Steps \cup {step}] /\ pc'[h] = step
      /\ \A g \in Handlers : g # h => pc'[g] = pc[g]
  BY DEF Goto, TypeOK
<1>2. Counting' = IF step \in Adding THEN Counting \cup {h} ELSE Counting \ {h}
  BY <1>1 DEF Counting
<1>3. (h \in Counting) = (pc[h] \in Adding)
  BY DEF Counting
<1>4. IsFiniteSet(Counting) /\ Cardinality(Counting) \in Nat
  BY CountingIsFinite
<1>5. IsFiniteSet(Counting') /\ Cardinality(Counting') \in Nat
  BY <1>2, <1>4, FS_AddElement, FS_RemoveElement, FS_CardinalityType
<1>6. h \in Counting => Cardinality(Counting \ {h}) = Cardinality(Counting) - 1
  BY <1>4, FS_RemoveElement
<1>7. h \notin Counting => Cardinality(Counting \cup {h}) = Cardinality(Counting) + 1
  BY <1>4, FS_AddElement
<1>8. (pc[h] \in Adding) = (step \in Adding) => Counting' = Counting
  BY <1>2, <1>3
<1> QED BY <1>2, <1>3, <1>5, <1>6, <1>7, <1>8

\* Handlers that end, for whatever reason, leave no more to count than there was.
LEMMA CountingEnds ==
  ASSUME TypeOK, NEW ended, Ends(ended)
  PROVE  Cardinality(Counting') \in Nat /\ Cardinality(Counting') <= Cardinality(Counting)
<1>1. Counting' \subseteq Counting
  BY DEF Ends, Counting, Adding, TypeOK
<1> QED BY <1>1, CountingIsFinite, FS_Subset, FS_CardinalityType

LEMMA InitCount == Init => CountInv
<1> SUFFICES ASSUME Init PROVE CountInv
  OBVIOUS
<1>1. TypeOK
  BY InitType
<1>2. Counting = {} /\ Cardinality(Counting) = 0
  BY FS_EmptySet DEF Init, Counting, Adding
<1>3. NotAhead
  BY <1>2 DEF Init, NotAhead, NoState, Unstamped
<1>4. GivenUpLate
  BY DEF Init, GivenUpLate, NotFailedEarly
<1> QED BY <1>1, <1>3, <1>4 DEF CountInv

\* A step after which the counter, the rows under way and the failures are what they were,
\* and no more handlers count.
LEMMA NothingCounted ==
  ASSUME CountInv, TypeOK', UNCHANGED <<latest, failures>>,
         Cardinality(Counting') <= Cardinality(Counting),
         \A h \in Handlers : pc'[h] \in {"stamp_password", "append_password",
                                         "stamp_attempts", "append_attempts"} =>
                               pc'[h] = pc[h] /\ draft'[h] = draft[h]
  PROVE  NotAhead'
<1>1. Cardinality(Counting) \in Nat
  BY CountingIsFinite
<1>2. Cardinality(Counting') \in Nat
  <2>1. Counting' \subseteq Handlers
    BY DEF Counting
  <2> QED BY <2>1, PasswordAssumption, FS_Subset, FS_CardinalityType
<1>3. latest.attempts \in Nat /\ failures \in Nat /\ \A h \in Handlers : draft[h].attempts \in Nat
  BY DEF CountInv, TypeOK, Row
<1>4. latest'.attempts + Cardinality(Counting') <= failures'
  BY <1>1, <1>2, <1>3 DEF CountInv, NotAhead
<1>5. ASSUME NEW h \in Handlers
      PROVE  /\ pc'[h] \in {"stamp_password", "append_password"} =>
                  draft'[h].attempts + Cardinality(Counting') <= failures'
             /\ pc'[h] \in {"stamp_attempts", "append_attempts"} =>
                  draft'[h].attempts + Cardinality(Counting') <= failures' + 1
  BY <1>1, <1>2, <1>3 DEF CountInv, NotAhead
<1> QED BY <1>4, <1>5 DEF NotAhead

\* A handler that goes on to a step with no row under way.
LEMMA StepsAside ==
  ASSUME CountInv, TypeOK', UNCHANGED <<latest, failures>>, NEW h \in Handlers,
         NEW step \in {"look_up", "extract", "read_password", "ask", "give_up", "done", "fail",
                       "claim", "leave", "ack"},
         Goto(h, step), \A g \in Handlers : g # h => draft'[g] = draft[g]
  PROVE  NotAhead'
<1>1. pc'[h] = step /\ \A g \in Handlers : g # h => pc'[g] = pc[g]
  BY DEF Goto, CountInv, TypeOK
<1>2. Cardinality(Counting') <= Cardinality(Counting)
  BY CountingMoves, CountingIsFinite DEF CountInv, Adding
<1> QED BY <1>1, <1>2, NothingCounted

LEMMA HandlerStepCount ==
  ASSUME CountInv, NEW h \in Handlers, HandlerStep(h)
  PROVE  CountInv'
<1> USE DEF Adding
<1>0. TypeOK /\ TypeOK'
  BY HandlerStepType DEF CountInv
<1>t. /\ latest.attempts \in Nat /\ failures \in Nat /\ Cardinality(Counting) \in Nat
      /\ \A g \in Handlers : draft[g].attempts \in Nat
      /\ MaxAttempts \in Nat
      /\ pc \in [Handlers -> Steps] /\ draft \in [Handlers -> Row]
  BY <1>0, CountingIsFinite, PasswordAssumption DEF TypeOK, Row
<1>1. CASE Acks(h)
  <2>1. Ends({h})
    BY <1>1 DEF Acks
  <2>2. NotAhead'
    BY <1>0, <1>1, <2>1, CountingEnds, NothingCounted DEF Acks, Ends, stateVars, ghostVars
  <2>3. GivenUpLate'
    BY <1>1, <2>1 DEF Acks, Ends, CountInv, GivenUpLate, NotFailedEarly, rowVars, ghostVars
  <2> QED BY <1>0, <2>2, <2>3 DEF CountInv
<1>2. CASE Claims(h)
  <2>1. \E step \in {"look_up", "leave"} : Goto(h, step)
    BY <1>2 DEF Claims
  <2>2. NotAhead'
    BY <1>0, <1>2, <2>1, StepsAside DEF Claims, stateVars, ghostVars
  <2>3. GivenUpLate'
    BY <1>2, <1>t, <2>1 DEF Claims, Goto, CountInv, GivenUpLate, NotFailedEarly, ghostVars
  <2> QED BY <1>0, <2>2, <2>3 DEF CountInv
<1>3. CASE LooksUpPassword(h)
  <2>1. NotAhead'
    BY <1>0, <1>3, <1>t, StepsAside DEF LooksUpPassword, stateVars, ghostVars
  <2>2. GivenUpLate'
    BY <1>3, <1>t DEF LooksUpPassword, Goto, CountInv, GivenUpLate, NotFailedEarly, rowVars, ghostVars
  <2> QED BY <1>0, <2>1, <2>2 DEF CountInv
<1>4. CASE Extracts(h)
  <2>1. CASE Goto(h, "count")
    <3>1. failures' = failures + 1 \/ UNCHANGED failures
      BY <1>4 DEF Extracts
    <3>2. pc[h] = "extract" /\ pc'[h] = "count"
      BY <1>4, <1>t, <2>1 DEF Extracts, At, Goto
    <3>3. failures' = failures + 1
      BY <1>4, <1>t, <3>2 DEF Extracts, Goto
    <3>4. Cardinality(Counting') = Cardinality(Counting) + 1
      BY <1>0, <2>1, <3>2, CountingMoves
    <3>5. latest' = latest /\ \A g \in Handlers : g # h => pc'[g] = pc[g] /\ draft'[g] = draft[g]
      BY <1>4, <1>t, <2>1 DEF Extracts, Goto, stateVars
    <3>6. NotAhead'
      BY <1>t, <3>2, <3>3, <3>4, <3>5 DEF CountInv, NotAhead
    <3>7. GivenUpLate'
      BY <1>4, <1>t, <3>2, <3>3, <3>5 DEF Extracts, CountInv, GivenUpLate, NotFailedEarly, rowVars
    <3> QED BY <1>0, <3>6, <3>7 DEF CountInv
  <2>2. CASE \E step \in {"done", "fail"} : Goto(h, step)
    <3>1. UNCHANGED failures
      BY <1>4, <1>t, <2>2 DEF Extracts, Goto
    <3>2. NotAhead'
      BY <1>0, <1>4, <1>t, <2>2, <3>1, StepsAside DEF Extracts, stateVars
    <3>3. GivenUpLate'
      BY <1>4, <1>t, <2>2, <3>1 DEF Extracts, Goto, CountInv, GivenUpLate, NotFailedEarly, rowVars
    <3> QED BY <1>0, <3>2, <3>3 DEF CountInv
  <2> QED BY <1>4, <2>1, <2>2 DEF Extracts
<1>5. CASE CountsAttempts(h)
  <2>1. pc[h] = "count" /\ Goto(h, IF Exhausted THEN "give_up" ELSE "read_attempts")
    BY <1>5 DEF CountsAttempts, At
  <2>2. NotAhead'
    <3>1. Cardinality(Counting') <= Cardinality(Counting)
      BY <1>0, <1>t, <2>1, CountingMoves
    <3> QED BY <1>0, <1>5, <1>t, <2>1, <3>1, NothingCounted
            DEF CountsAttempts, Goto, stateVars, ghostVars
  <2>3. Exhausted => failures > MaxAttempts
    <3>1. h \in Counting
      BY <2>1 DEF Counting
    <3>2. Cardinality(Counting) # 0
      BY <3>1, CountingIsFinite, FS_EmptySet
    <3> QED BY <1>t, <3>2 DEF Exhausted, CountInv, NotAhead
  <2>4. GivenUpLate'
    BY <1>5, <1>t, <2>1, <2>3
       DEF CountsAttempts, Goto, CountInv, GivenUpLate, NotFailedEarly, rowVars, ghostVars
  <2> QED BY <1>0, <2>2, <2>4 DEF CountInv
<1>6. CASE Publishes(h)
  <2>1. pc[h] \in {"ask", "give_up", "done", "fail"} /\ Goto(h, "leave")
    BY <1>6, OutcomeSteps DEF Publishes
  <2>2. NotAhead'
    BY <1>0, <1>6, <2>1, StepsAside DEF Publishes, stateVars, ghostVars
  <2>3. Outcomes[pc[h]].error = "password_unavailable" => pc[h] = "give_up"
    BY <2>1 DEF Outcomes, Outcome
  <2>4. \A e \in events' : e.error = "password_unavailable" => failures > MaxAttempts
    BY <1>6, <2>3 DEF Publishes, CountInv, GivenUpLate
  <2>5. GivenUpLate'
    BY <1>6, <1>t, <2>1, <2>4
       DEF Publishes, Goto, CountInv, GivenUpLate, NotFailedEarly, rowVars, ghostVars
  <2> QED BY <1>0, <2>2, <2>5 DEF CountInv
<1>7. CASE Leaves(h)
  <2>1. NotAhead'
    BY <1>0, <1>7, StepsAside DEF Leaves, stateVars, ghostVars
  <2>2. GivenUpLate'
    BY <1>7, <1>t DEF Leaves, Goto, CountInv, GivenUpLate, NotFailedEarly, rowVars, ghostVars
  <2> QED BY <1>0, <2>1, <2>2 DEF CountInv
<1>8. CASE ReadsState(h)
  <2>1. \/ /\ pc[h] = "read_password" /\ pc'[h] = "stamp_password" /\ Goto(h, "stamp_password")
           /\ draft'[h].attempts = latest.attempts
        \/ /\ pc[h] = "read_attempts" /\ pc'[h] = "stamp_attempts" /\ Goto(h, "stamp_attempts")
           /\ draft'[h].attempts = latest.attempts + 1
    BY <1>8, <1>t DEF ReadsState, At, Goto, Unstamped
  <2>2. Counting' = Counting
    BY <1>0, <2>1, CountingMoves
  <2>3. /\ \A g \in Handlers : g # h => pc'[g] = pc[g] /\ draft'[g] = draft[g]
        /\ UNCHANGED <<latest, failures, events, error>>
    BY <1>8, <1>t DEF ReadsState, Goto, stateVars, ghostVars, rowVars
  <2>4. NotAhead'
    BY <1>t, <2>1, <2>2, <2>3 DEF CountInv, NotAhead
  <2>5. GivenUpLate'
    BY <2>1, <2>3 DEF CountInv, GivenUpLate, NotFailedEarly
  <2> QED BY <1>0, <2>4, <2>5 DEF CountInv
<1>9. CASE TakesTime(h)
  <2>1. /\ \/ pc[h] = "stamp_password" /\ pc'[h] = "append_password" /\ Goto(h, "append_password")
           \/ pc[h] = "stamp_attempts" /\ pc'[h] = "append_attempts" /\ Goto(h, "append_attempts")
        /\ draft'[h].attempts = draft[h].attempts
    BY <1>9, <1>t DEF TakesTime, At, Goto, Row
  <2>2. Counting' = Counting
    BY <1>0, <2>1, CountingMoves
  <2>3. /\ \A g \in Handlers : g # h => pc'[g] = pc[g] /\ draft'[g] = draft[g]
        /\ UNCHANGED <<latest, failures, events, error>>
    BY <1>9, <1>t DEF TakesTime, Goto, ghostVars, rowVars
  <2>4. NotAhead'
    BY <1>t, <2>1, <2>2, <2>3 DEF CountInv, NotAhead
  <2>5. GivenUpLate'
    BY <2>1, <2>3 DEF CountInv, GivenUpLate, NotFailedEarly
  <2> QED BY <1>0, <2>4, <2>5 DEF CountInv
<1>10. CASE AppendsRow(h)
  <2>1. \/ pc[h] = "append_password" /\ pc'[h] = "send_ingest" /\ Counting' = Counting
        \/ /\ pc[h] = "append_attempts" /\ pc'[h] = "ask"
           /\ Cardinality(Counting') = Cardinality(Counting) - 1
    BY <1>0, <1>10, <1>t, CountingMoves DEF AppendsRow, At, Goto
  <2>2. Cardinality(Counting') \in Nat
    BY <1>0, <1>10, CountingMoves DEF AppendsRow
  <2>3. /\ \A g \in Handlers : g # h => pc'[g] = pc[g] /\ draft'[g] = draft[g]
        /\ UNCHANGED <<failures, events, error>>
    BY <1>10, <1>t DEF AppendsRow, Goto, ghostVars, rowVars
  <2>4. latest'.attempts \in {latest.attempts, draft[h].attempts}
    BY <1>0, <1>10 DEF AppendsRow, TypeOK, Row
  <2>5. NotAhead'
    BY <1>t, <2>1, <2>2, <2>3, <2>4 DEF CountInv, NotAhead
  <2>6. GivenUpLate'
    BY <2>1, <2>3 DEF CountInv, GivenUpLate, NotFailedEarly
  <2> QED BY <1>0, <2>5, <2>6 DEF CountInv
<1>11. CASE SendsIngest(h)
  <2>1. NotAhead'
    BY <1>0, <1>11, StepsAside DEF SendsIngest, stateVars, ghostVars
  <2>2. GivenUpLate'
    BY <1>11, <1>t DEF SendsIngest, Goto, CountInv, GivenUpLate, NotFailedEarly, rowVars, ghostVars
  <2> QED BY <1>0, <2>1, <2>2 DEF CountInv
<1> QED BY <1>1, <1>2, <1>3, <1>4, <1>5, <1>6, <1>7, <1>8, <1>9, <1>10, <1>11 DEF HandlerStep

\* An event says why a job fails; the row says what an event said.
LEMMA StatusChangedCount ==
  ASSUME CountInv, NEW e \in events, OnStatusChanged(e), UNCHANGED failures
  PROVE  NotFailedEarly'
BY DEF OnStatusChanged, CountInv, GivenUpLate, NotFailedEarly, rowVars

LEMMA NextCount == CountInv /\ [Next]_vars => CountInv'
<1> SUFFICES ASSUME CountInv, [Next]_vars PROVE CountInv'
  OBVIOUS
<1>0. TypeOK /\ TypeOK'
  BY NextType DEF CountInv
<1>1. ASSUME UNCHANGED <<latest, pc, draft, failures>>, events' \subseteq events, NotFailedEarly'
      PROVE  CountInv'
  <2>1. Counting' = Counting
    BY <1>1 DEF Counting
  <2> QED BY <1>0, <1>1, <2>1 DEF CountInv, NotAhead, GivenUpLate
<1>2. ASSUME NEW password \in Passwords, Submits(password) PROVE CountInv'
  BY <1>1, <1>2 DEF Submits, CountInv, GivenUpLate, NotFailedEarly, rowVars, stateVars
<1>3. ASSUME NEW h \in Handlers, HandlerStep(h) PROVE CountInv'
  BY <1>3, HandlerStepCount
<1>4. ASSUME NEW h \in Handlers, Redelivers(h) PROVE CountInv'
  BY <1>1, <1>4 DEF Redelivers, CountInv, GivenUpLate, NotFailedEarly, rowVars, stateVars, ghostVars
<1>5. ASSUME NEW h \in Handlers, NEW p \in Processes, NEW m \in Message, Receives(h, p, m)
      PROVE  CountInv'
  <2>1. FirstStep(p, m) \in {"read_password", "ack", "claim"} /\ pc[h] = "idle"
        /\ Goto(h, FirstStep(p, m))
    BY <1>5 DEF FirstStep, Receives, At
  <2>2. /\ pc'[h] \in {"read_password", "ack", "claim"}
        /\ \A g \in Handlers : g # h => pc'[g] = pc[g]
    BY <1>0, <2>1 DEF Goto, TypeOK
  <2>3. Counting' = Counting
    BY <1>0, <2>1, CountingMoves DEF Adding
  <2>4. NotAhead'
    BY <1>0, <1>5, <2>2, <2>3, CountingIsFinite, NothingCounted
       DEF Receives, stateVars, ghostVars
  <2>5. GivenUpLate'
    BY <1>5, <2>2 DEF Receives, CountInv, GivenUpLate, NotFailedEarly, rowVars, ghostVars
  <2> QED BY <1>0, <2>4, <2>5 DEF CountInv
<1>6. ASSUME NEW e \in events, Applies(e) \/ AppliesAndRepeats(e) PROVE CountInv'
  <2>1. OnStatusChanged(e) /\ UNCHANGED failures
    BY <1>6 DEF Applies, AppliesAndRepeats, ghostVars
  <2> QED BY <1>1, <1>6, <2>1, StatusChangedCount
          DEF Applies, AppliesAndRepeats, stateVars, ghostVars
<1>7. ASSUME NEW p \in Processes, Crashes(p) PROVE CountInv'
  <2> DEFINE dead == {h \in Handlers : process[h] = p}
  <2>1. Ends(dead)
    BY <1>7 DEF Crashes
  <2> HIDE DEF dead
  <2>2. \A h \in Handlers : pc'[h] = "idle" \/ (pc'[h] = pc[h] /\ draft'[h] = draft[h])
    BY <2>1 DEF Ends
  <2>3. NotAhead'
    BY <1>0, <1>7, <2>1, <2>2, CountingEnds, NothingCounted DEF Crashes, stateVars, ghostVars
  <2>4. GivenUpLate'
    BY <1>7, <2>2 DEF Crashes, CountInv, GivenUpLate, NotFailedEarly, rowVars, ghostVars
  <2> QED BY <1>0, <2>3, <2>4 DEF CountInv
<1>8. CASE UNCHANGED vars
  BY <1>1, <1>8 DEF vars, CountInv, GivenUpLate, NotFailedEarly, rowVars, stateVars, ghostVars
<1> QED BY <1>2, <1>3, <1>4, <1>5, <1>6, <1>7, <1>8 DEF Next

\* A job that is failed as password_unavailable had its attempts (NotFailedEarly).
THEOREM NeverFailedEarly == Spec => []NotFailedEarly
<1>1. CountInv => NotFailedEarly
  BY DEF CountInv, GivenUpLate
<1> QED BY InitCount, NextCount, <1>1, PTL DEF Spec

-----------------------------------------------------------------------------
(***************************************************************************)
(* One extraction at a time.  As long as no event is repeated, a job that  *)
(* is INGESTING has at most one handler that works on it or one event that *)
(* tells its outcome, and a job that is not has neither.                   *)
(***************************************************************************)
OneOwner ==
  /\ \A g, h \in Handlers : pc[g] \in Working /\ pc[h] \in Working => g = h
  /\ \A e, f \in events : e = f
  /\ \A h \in Handlers : pc[h] \in Working => events = {} /\ status = INGESTING
  /\ events # {} => status = INGESTING

OneInv == TypeOK /\ (spent["repeat"] = 0 => OneOwner)

LEMMA InitOne == Init => OneInv
BY InitType, StepsAreSteps DEF Init, OneInv, OneOwner

\* A step that moves one handler, and no event.
LEMMA OwnerMoves ==
  ASSUME TypeOK, OneOwner, NEW h \in Handlers, NEW step, Goto(h, step),
         step \in Working => pc[h] \in Working, UNCHANGED <<events, status>>
  PROVE  OneOwner'
<1>1. pc'[h] = step /\ \A g \in Handlers : g # h => pc'[g] = pc[g]
  BY DEF Goto, TypeOK
<1>2. \A g \in Handlers : pc'[g] \in Working => pc[g] \in Working
  BY <1>1
<1> QED BY <1>2 DEF OneOwner

\* Handlers that end leave at most the owner there was.
LEMMA OwnerEnds ==
  ASSUME TypeOK, OneOwner, NEW ended, Ends(ended), UNCHANGED <<events, status>>
  PROVE  OneOwner'
<1>1. \A g \in Handlers : pc'[g] \in Working => pc[g] \in Working
  BY StepsAreSteps DEF Ends
<1> QED BY <1>1 DEF OneOwner

LEMMA HandlerStepOne ==
  ASSUME TypeOK, OneOwner, NEW h \in Handlers, HandlerStep(h)
  PROVE  OneOwner'
<1>t. pc \in [Handlers -> Steps]
  BY DEF TypeOK
<1>1. CASE Acks(h)
  BY <1>1, OwnerEnds DEF Acks, rowVars
<1>2. CASE Claims(h)
  <2>1. CASE status \in Claimable
    <3>1. events = {} /\ \A g \in Handlers : pc[g] \notin Working
      BY <2>1 DEF OneOwner, Claimable, CREATED, NEEDS_PASSWORD, INGESTING
    <3>2. status' = INGESTING /\ events' = events /\ Goto(h, "look_up")
      BY <1>2, <2>1 DEF Claims
    <3>3. \A g \in Handlers : pc'[g] \in Working => g = h
      BY <1>t, <3>1, <3>2 DEF Goto
    <3> QED BY <3>1, <3>2, <3>3 DEF OneOwner
  <2>2. CASE status \notin Claimable
    BY <1>2, <2>2, OwnerMoves, StepsAreSteps DEF Claims
  <2> QED BY <2>1, <2>2
<1>3. CASE LooksUpPassword(h)
  BY <1>3, OwnerMoves, StepsAreSteps DEF LooksUpPassword, At, rowVars
<1>4. CASE Extracts(h)
  <2>1. \E step \in {"done", "fail", "count"} : Goto(h, step)
    BY <1>4 DEF Extracts
  <2> QED BY <1>4, <2>1, OwnerMoves, StepsAreSteps DEF Extracts, At, rowVars
<1>5. CASE CountsAttempts(h)
  BY <1>5, OwnerMoves, StepsAreSteps DEF CountsAttempts, At, rowVars
<1>6. CASE Publishes(h)
  <2>1. pc[h] \in Working /\ Goto(h, "leave") /\ UNCHANGED status
    BY <1>6, OutcomeSteps, StepsAreSteps DEF Publishes, rowVars
  <2>2. events = {} /\ status = INGESTING /\ \A g \in Handlers : g # h => pc[g] \notin Working
    BY <2>1 DEF OneOwner
  <2>3. \A g \in Handlers : pc'[g] \notin Working
    BY <1>t, <2>1, <2>2, StepsAreSteps DEF Goto
  <2>4. \A e, f \in events' : e = f
    BY <1>6, <2>2 DEF Publishes
  <2> QED BY <2>1, <2>2, <2>3, <2>4 DEF OneOwner
<1>7. CASE Leaves(h)
  BY <1>7, OwnerMoves, StepsAreSteps DEF Leaves, rowVars
<1>8. CASE ReadsState(h)
  BY <1>8, OwnerMoves, StepsAreSteps DEF ReadsState, At, rowVars
<1>9. CASE TakesTime(h)
  BY <1>9, OwnerMoves, StepsAreSteps DEF TakesTime, At, rowVars
<1>10. CASE AppendsRow(h)
  BY <1>10, OwnerMoves, StepsAreSteps DEF AppendsRow, At, rowVars
<1>11. CASE SendsIngest(h)
  BY <1>11, OwnerMoves, StepsAreSteps DEF SendsIngest, rowVars
<1> QED BY <1>1, <1>2, <1>3, <1>4, <1>5, <1>6, <1>7, <1>8, <1>9, <1>10, <1>11 DEF HandlerStep

LEMMA NextOne == OneInv /\ [Next]_vars => OneInv'
<1> SUFFICES ASSUME OneInv, [Next]_vars, spent'["repeat"] = 0 PROVE OneOwner'
  BY NextType DEF OneInv
<1>0. TypeOK
  BY DEF OneInv
<1>s. spent["repeat"] = spent'["repeat"] => OneOwner
  BY DEF OneInv
<1>1. ASSUME UNCHANGED spent, UNCHANGED <<pc, events, status>> PROVE OneOwner'
  BY <1>1, <1>s DEF OneOwner
<1>2. ASSUME NEW password \in Passwords, Submits(password) PROVE OneOwner'
  BY <1>1, <1>2 DEF Submits, rowVars
<1>3. ASSUME NEW h \in Handlers, HandlerStep(h) PROVE OneOwner'
  <2>1. UNCHANGED spent
    BY <1>3 DEF HandlerStep, Acks, Claims, LooksUpPassword, Extracts, CountsAttempts, Publishes,
                Leaves, ReadsState, TakesTime, AppendsRow, SendsIngest
  <2> QED BY <1>0, <1>3, <1>s, <2>1, HandlerStepOne
<1>4. ASSUME NEW h \in Handlers, Redelivers(h) PROVE OneOwner'
  <2>1. spent["repeat"] = spent'["repeat"]
    BY <1>0, <1>4, SpendType DEF Redelivers, TypeOK, Faults
  <2> QED BY <1>4, <1>s, <2>1 DEF Redelivers, OneOwner, rowVars
<1>5. ASSUME NEW h \in Handlers, NEW p \in Processes, NEW m \in Message, Receives(h, p, m)
      PROVE  OneOwner'
  <2>1. FirstStep(p, m) \notin Working
    BY StepsAreSteps DEF FirstStep
  <2>2. Goto(h, FirstStep(p, m)) /\ UNCHANGED <<events, status>> /\ UNCHANGED spent
    BY <1>5 DEF Receives, rowVars
  <2> QED BY <1>0, <1>s, <2>1, <2>2, OwnerMoves
<1>6. ASSUME NEW e \in events, Applies(e) PROVE OneOwner'
  <2>1. OneOwner /\ events' = events \ {e} /\ UNCHANGED pc
    BY <1>6, <1>s DEF Applies
  <2>2. events' = {} /\ \A h \in Handlers : pc[h] \notin Working
    BY <2>1 DEF OneOwner
  <2> QED BY <2>1, <2>2 DEF OneOwner
<1>7. ASSUME NEW e \in events, AppliesAndRepeats(e) PROVE OneOwner'
  <2>1. spent["repeat"] \in Nat /\ spent'["repeat"] = spent["repeat"] + 1
    BY <1>0, <1>7, SpendType DEF AppliesAndRepeats, TypeOK, Faults
  <2> QED BY <2>1
<1>8. ASSUME NEW p \in Processes, Crashes(p) PROVE OneOwner'
  <2>1. spent["repeat"] = spent'["repeat"]
    BY <1>0, <1>8, SpendType DEF Crashes, TypeOK, Faults
  <2> QED BY <1>0, <1>8, <1>s, <2>1, OwnerEnds DEF Crashes, rowVars
<1>9. CASE UNCHANGED vars
  BY <1>1, <1>9 DEF vars, rowVars
<1> QED BY <1>2, <1>3, <1>4, <1>5, <1>6, <1>7, <1>8, <1>9 DEF Next

\* An archive is extracted by one handler at a time (OneExtraction).
THEOREM ExtractedOnceAtATime == Spec => []OneExtraction
<1>1. OneInv => OneExtraction
  BY DEF OneInv, OneOwner, OneExtraction
<1> QED BY InitOne, NextOne, <1>1, PTL DEF Spec

-----------------------------------------------------------------------------
(***************************************************************************)
(* A submission pays for one extraction.  Each copy on the queue, and each *)
(* handler that has a message and has not tried it yet, is worth one       *)
(* attempt; only a redelivery or a death makes an attempt of nothing.      *)
(***************************************************************************)
Queued == {c \in Message \X Nat : c[2] < queue[c[1]]}

Untried == Setting \cup {"claim", "look_up", "extract"}
Trying == {h \in Handlers : pc[h] \in Untried}

Paid ==
  /\ IsFiniteSet(Queued)
  /\ failures + Cardinality(Queued) + Cardinality(Trying) <= 1 + submitted

PaidInv == TypeOK /\ (spent["redelivery"] = 0 /\ spent["crash"] = 0 => Paid)

LEMMA TryingIsFinite == IsFiniteSet(Trying) /\ Cardinality(Trying) \in Nat
BY PasswordAssumption, FS_Subset, FS_CardinalityType DEF Trying

\* What a handler's step does to the number of those that have still to try.
LEMMA TryingMoves ==
  ASSUME TypeOK, NEW h \in Handlers, NEW step, Goto(h, step)
  PROVE  /\ Cardinality(Trying') \in Nat
         /\ (pc[h] \in Untried) = (step \in Untried) => Trying' = Trying
         /\ pc[h] \in Untried /\ step \notin Untried => Cardinality(Trying') = Cardinality(Trying) - 1
         /\ pc[h] \notin Untried /\ step \in Untried => Cardinality(Trying') = Cardinality(Trying) + 1
<1>1. pc' \in [Handlers -> STRING \cup Steps \cup {step}] /\ pc'[h] = step
      /\ \A g \in Handlers : g # h => pc'[g] = pc[g]
  BY DEF Goto, TypeOK
<1>2. Trying' = IF step \in Untried THEN Trying \cup {h} ELSE Trying \ {h}
  BY <1>1 DEF Trying
<1>3. (h \in Trying) = (pc[h] \in Untried)
  BY DEF Trying
<1>4. IsFiniteSet(Trying) /\ Cardinality(Trying) \in Nat
  BY TryingIsFinite
<1>5. IsFiniteSet(Trying') /\ Cardinality(Trying') \in Nat
  BY <1>2, <1>4, FS_AddElement, FS_RemoveElement, FS_CardinalityType
<1>6. h \in Trying => Cardinality(Trying \ {h}) = Cardinality(Trying) - 1
  BY <1>4, FS_RemoveElement
<1>7. h \notin Trying => Cardinality(Trying \cup {h}) = Cardinality(Trying) + 1
  BY <1>4, FS_AddElement
<1>8. (pc[h] \in Untried) = (step \in Untried) => Trying' = Trying
  BY <1>2, <1>3
<1> QED BY <1>2, <1>3, <1>5, <1>6, <1>7, <1>8

\* A copy more, or a copy less, on the queue.
LEMMA QueuedGrows ==
  ASSUME TypeOK, NEW m \in Message, Put(m), IsFiniteSet(Queued)
  PROVE  IsFiniteSet(Queued') /\ Cardinality(Queued') = Cardinality(Queued) + 1
<1>1. queue' = [queue EXCEPT ![m] = queue[m] + 1] /\ queue \in [Message -> Nat]
  BY DEF Put, TypeOK
<1>2. Queued' = Queued \cup {<<m, queue[m]>>}
  BY <1>1 DEF Queued
<1>3. <<m, queue[m]>> \notin Queued
  BY <1>1 DEF Queued
<1> QED BY <1>2, <1>3, FS_AddElement

LEMMA QueuedShrinks ==
  ASSUME TypeOK, NEW m \in Message, queue[m] > 0, queue' = [queue EXCEPT ![m] = @ - 1],
         IsFiniteSet(Queued)
  PROVE  IsFiniteSet(Queued') /\ Cardinality(Queued') = Cardinality(Queued) - 1
<1>1. queue \in [Message -> Nat] /\ queue[m] - 1 \in Nat
  BY DEF TypeOK
<1>2. Queued' = Queued \ {<<m, queue[m] - 1>>}
  BY <1>1 DEF Queued
<1>3. <<m, queue[m] - 1>> \in Queued
  BY <1>1 DEF Queued
<1> QED BY <1>2, <1>3, FS_RemoveElement

LEMMA InitPaid == Init => PaidInv
<1> SUFFICES ASSUME Init PROVE Paid
  BY InitType DEF PaidInv
<1>1. First \in Message
  BY DEF First, Message
<1>2. Queued = {<<First, 0>>}
  BY <1>1 DEF Init, Queued
<1>3. Trying = {}
  BY DEF Init, Trying, Untried, Setting
<1>4. IsFiniteSet(Queued) /\ Cardinality(Queued) = 1 /\ Cardinality(Trying) = 0
  BY <1>2, <1>3, FS_Singleton, FS_EmptySet
<1> QED BY <1>4 DEF Init, Paid

\* A step of a handler after which the queue and the counts are what they were.
LEMMA TriesNoMore ==
  ASSUME TypeOK, Paid, NEW h \in Handlers, NEW step, Goto(h, step),
         step \in Untried => pc[h] \in Untried, UNCHANGED <<queue, failures, submitted>>
  PROVE  Paid'
<1>1. Cardinality(Trying') \in Nat /\ Cardinality(Trying') <= Cardinality(Trying)
  BY TryingMoves, TryingIsFinite
<1>2. UNCHANGED Queued
  BY DEF Queued
<1>3. Cardinality(Queued) \in Nat
  BY FS_CardinalityType DEF Paid
<1>4. Cardinality(Queued') = Cardinality(Queued) /\ (IsFiniteSet(Queued) => IsFiniteSet(Queued'))
  BY <1>2
<1> QED BY <1>1, <1>3, <1>4, TryingIsFinite DEF Paid, TypeOK

LEMMA HandlerStepPaid ==
  ASSUME TypeOK, Paid, NEW h \in Handlers, HandlerStep(h)
  PROVE  Paid'
<1>u. Untried = {"read_password", "stamp_password", "append_password", "send_ingest",
                 "claim", "look_up", "extract"}
  BY DEF Untried, Setting
<1>c. /\ IsFiniteSet(Queued) /\ Cardinality(Queued) \in Nat /\ Cardinality(Trying) \in Nat
      /\ failures \in Nat /\ submitted \in Nat
      /\ failures + Cardinality(Queued) + Cardinality(Trying) <= 1 + submitted
  BY TryingIsFinite, FS_CardinalityType DEF Paid, TypeOK
<1>1. CASE Acks(h)
  <2>1. Trying' \subseteq Trying
    BY <1>1, <1>u DEF Acks, Ends, Trying, TypeOK
  <2>2. Cardinality(Trying') \in Nat /\ Cardinality(Trying') <= Cardinality(Trying)
    BY <2>1, TryingIsFinite, FS_Subset, FS_CardinalityType
  <2>3. UNCHANGED <<Queued, failures, submitted>>
    BY <1>1 DEF Acks, Queued, ghostVars
  <2>4. Cardinality(Queued') = Cardinality(Queued) /\ IsFiniteSet(Queued')
    BY <1>c, <2>3
  <2> QED BY <1>c, <2>2, <2>3, <2>4 DEF Paid
<1>2. CASE Claims(h)
  BY <1>2, <1>u, TriesNoMore DEF Claims, At, deliveryVars, ghostVars
<1>3. CASE LooksUpPassword(h)
  BY <1>3, <1>u, TriesNoMore DEF LooksUpPassword, At, deliveryVars, ghostVars
<1>4. CASE Extracts(h)
  <2>1. CASE failures' = failures
    BY <1>4, <1>u, <2>1, TriesNoMore DEF Extracts, At, deliveryVars
  <2>2. CASE Goto(h, "count") /\ failures' = failures + 1
    <3>1. Cardinality(Trying') \in Nat /\ Cardinality(Trying') = Cardinality(Trying) - 1
      BY <1>4, <1>u, <2>2, TryingMoves DEF Extracts, At
    <3>2. UNCHANGED <<Queued, submitted>>
      BY <1>4 DEF Extracts, Queued, deliveryVars
    <3>3. Cardinality(Queued') = Cardinality(Queued) /\ IsFiniteSet(Queued')
      BY <1>c, <3>2
    <3> QED BY <1>c, <2>2, <3>1, <3>2, <3>3 DEF Paid
  <2> QED BY <1>4, <2>1, <2>2 DEF Extracts
<1>5. CASE CountsAttempts(h)
  BY <1>5, <1>u, TriesNoMore DEF CountsAttempts, deliveryVars, ghostVars
<1>6. CASE Publishes(h)
  BY <1>6, <1>u, TriesNoMore DEF Publishes, deliveryVars, ghostVars
<1>7. CASE Leaves(h)
  BY <1>7, <1>u, TriesNoMore DEF Leaves, deliveryVars, ghostVars
<1>8. CASE ReadsState(h)
  BY <1>8, <1>u, TriesNoMore DEF ReadsState, At, deliveryVars, ghostVars
<1>9. CASE TakesTime(h)
  BY <1>9, <1>u, TriesNoMore DEF TakesTime, At, deliveryVars, ghostVars
<1>10. CASE AppendsRow(h)
  BY <1>10, <1>u, TriesNoMore DEF AppendsRow, At, deliveryVars, ghostVars
<1>11. CASE SendsIngest(h)
  <2>1. Cardinality(Trying') \in Nat /\ Cardinality(Trying') = Cardinality(Trying) - 1
    BY <1>11, <1>u, TryingMoves DEF SendsIngest, At
  <2>2. [action |-> "ingest", password |-> msg[h].password] \in Message
    BY DEF TypeOK, Message
  <2>3. IsFiniteSet(Queued') /\ Cardinality(Queued') = Cardinality(Queued) + 1
    BY <1>11, <1>c, <2>2, QueuedGrows DEF SendsIngest
  <2> QED BY <1>11, <1>c, <2>1, <2>3 DEF SendsIngest, Paid, ghostVars
<1> QED BY <1>1, <1>2, <1>3, <1>4, <1>5, <1>6, <1>7, <1>8, <1>9, <1>10, <1>11 DEF HandlerStep

LEMMA NextPaid == PaidInv /\ [Next]_vars => PaidInv'
<1> SUFFICES ASSUME PaidInv, [Next]_vars, spent'["redelivery"] = 0, spent'["crash"] = 0
             PROVE  Paid'
  BY NextType DEF PaidInv
<1>0. TypeOK
  BY DEF PaidInv
<1>s. spent["redelivery"] = spent'["redelivery"] /\ spent["crash"] = spent'["crash"] => Paid
  BY DEF PaidInv
<1>1. ASSUME UNCHANGED spent, UNCHANGED <<pc, queue, failures, submitted>> PROVE Paid'
  <2>1. Paid /\ UNCHANGED Queued /\ UNCHANGED Trying
    BY <1>1, <1>s DEF Queued, Trying
  <2>2. Cardinality(Queued') = Cardinality(Queued) /\ Cardinality(Trying') = Cardinality(Trying)
        /\ (IsFiniteSet(Queued) => IsFiniteSet(Queued'))
    BY <2>1
  <2> QED BY <1>1, <2>1, <2>2 DEF Paid
<1>2. ASSUME NEW password \in Passwords, Submits(password) PROVE Paid'
  <2>1. Paid /\ UNCHANGED pc /\ UNCHANGED failures /\ submitted' = submitted + 1
    BY <1>2, <1>s DEF Submits
  <2>2. [action |-> "provide_password", password |-> password] \in Message
    BY DEF Message
  <2>3. IsFiniteSet(Queued') /\ Cardinality(Queued') = Cardinality(Queued) + 1
    BY <1>0, <1>2, <2>1, <2>2, QueuedGrows DEF Submits, Paid
  <2>4. Cardinality(Trying') = Cardinality(Trying)
    BY <2>1 DEF Trying
  <2> QED BY <1>0, <2>1, <2>3, <2>4, TryingIsFinite, FS_CardinalityType DEF Paid, TypeOK
<1>3. ASSUME NEW h \in Handlers, HandlerStep(h) PROVE Paid'
  <2>1. UNCHANGED spent
    BY <1>3 DEF HandlerStep, Acks, Claims, LooksUpPassword, Extracts, CountsAttempts, Publishes,
                Leaves, ReadsState, TakesTime, AppendsRow, SendsIngest
  <2> QED BY <1>0, <1>3, <1>s, <2>1, HandlerStepPaid
<1>4. ASSUME NEW h \in Handlers, Redelivers(h) PROVE Paid'
  <2>1. spent["redelivery"] \in Nat /\ spent'["redelivery"] = spent["redelivery"] + 1
    BY <1>0, <1>4, SpendType DEF Redelivers, TypeOK, Faults
  <2> QED BY <2>1
<1>5. ASSUME NEW h \in Handlers, NEW p \in Processes, NEW m \in Message, Receives(h, p, m)
      PROVE  Paid'
  <2>1. Paid /\ UNCHANGED <<failures, submitted>>
    BY <1>5, <1>s DEF Receives, ghostVars
  <2>2. IsFiniteSet(Queued') /\ Cardinality(Queued') = Cardinality(Queued) - 1
    BY <1>0, <1>5, <2>1, QueuedShrinks DEF Receives, Paid
  <2>3. Cardinality(Trying') \in Nat /\ Cardinality(Trying') <= Cardinality(Trying) + 1
    BY <1>0, <1>5, TryingMoves, TryingIsFinite DEF Receives
  <2> QED BY <1>0, <2>1, <2>2, <2>3, TryingIsFinite, FS_CardinalityType DEF Paid, TypeOK
<1>6. ASSUME NEW e \in events, Applies(e) PROVE Paid'
  BY <1>1, <1>6 DEF Applies, deliveryVars, ghostVars
<1>7. ASSUME NEW e \in events, AppliesAndRepeats(e) PROVE Paid'
  <2>1. spent["redelivery"] = spent'["redelivery"] /\ spent["crash"] = spent'["crash"]
    BY <1>0, <1>7, SpendType DEF AppliesAndRepeats, TypeOK, Faults
  <2>2. Paid /\ UNCHANGED Queued /\ UNCHANGED Trying /\ UNCHANGED <<failures, submitted>>
    BY <1>7, <1>s, <2>1 DEF AppliesAndRepeats, Queued, Trying, deliveryVars, ghostVars
  <2>3. Cardinality(Queued') = Cardinality(Queued) /\ Cardinality(Trying') = Cardinality(Trying)
        /\ (IsFiniteSet(Queued) => IsFiniteSet(Queued'))
    BY <2>2
  <2> QED BY <2>2, <2>3 DEF Paid
<1>8. ASSUME NEW p \in Processes, Crashes(p) PROVE Paid'
  <2>1. spent["crash"] \in Nat /\ spent'["crash"] = spent["crash"] + 1
    BY <1>0, <1>8, SpendType DEF Crashes, TypeOK, Faults
  <2> QED BY <2>1
<1>9. CASE UNCHANGED vars
  BY <1>1, <1>9 DEF vars, deliveryVars, ghostVars
<1> QED BY <1>2, <1>3, <1>4, <1>5, <1>6, <1>7, <1>8, <1>9 DEF Next

\* Without redeliveries and deaths a submission never leads to two extractions
\* (EachTryIsAsked).
THEOREM OneTryPerSubmission == Spec => []EachTryIsAsked
<1>1. PaidInv => EachTryIsAsked
  <2> SUFFICES ASSUME PaidInv, Paid PROVE failures <= 1 + submitted
    BY DEF PaidInv, EachTryIsAsked
  <2> QED BY TryingIsFinite, FS_CardinalityType DEF PaidInv, Paid, TypeOK
<1> QED BY InitPaid, NextPaid, <1>1, PTL DEF Spec
=============================================================================
