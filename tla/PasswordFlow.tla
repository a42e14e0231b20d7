---------------------------- MODULE PasswordFlow ----------------------------
(***************************************************************************)
(* An encrypted archive from its first ingest to the password that opens   *)
(* it: the ingest handlers of any number of processes, the table of        *)
(* password states, job-service and the customer.  It is AskPassword and   *)
(* ProvidePassword of module Pipeline seen from near.                      *)
(*                                                                         *)
(* password_state is append-only: what counts is the row with the latest   *)
(* updated_at.  setPassword and incrementAttempts read that row, take the  *)
(* time and append a row made from what they read, in three steps here.    *)
(*                                                                         *)
(* A send, a read or a write that fails is left out, and so are the other  *)
(* writers of the status (Pipeline has both); job-service reads the row    *)
(* and writes it in one step.                                              *)
(***************************************************************************)
EXTENDS Naturals, FiniteSets, JobStatus

CONSTANTS
  Handlers,        \* as many handlers of the ingest queue may run at a time
  Processes,
  Passwords,
  Right,           \* the password of the archive
  None,            \* no password
  MaxAttempts,     \* ARCHIVE_PASSWORD_MAX_ATTEMPTS
  MaxSubmissions,  \* bound: passwords the customer sends
  MaxFaults        \* bound: redeliveries, repeated events and crashes

Nowhere == "nowhere"

Faults == {"redelivery", "repeat", "crash"}

ASSUME PasswordAssumption ==
  /\ IsFiniteSet(Handlers) /\ Nowhere \notin Processes
  /\ None \notin Passwords \cup {Right}
  /\ MaxAttempts \in Nat /\ MaxSubmissions \in Nat /\ MaxFaults \in Nat

VARIABLES
  status,       \* of the job
  error,        \* why it failed
  latest,       \* the latest row of password_state
  clock,        \* the time; only rows under way compare theirs, so it starts again without any
  queue,        \* queue[m]: copies of m on the ingest queue
  events,       \* JOB_STATUS_CHANGED events on their way to job-service
  process,      \* process[h]: the process handler h runs in
  pc, msg,      \* what each handler does, for which message
  held,         \* handlers whose message the queue still keeps for them
  draft,        \* the row each handler is about to append, or the password it tries
  claim,        \* claim[h]: which extraction of the job handler h runs
  claims,       \* extractions so far
  failures,     \* extractions that ended in a password error
  submitted,    \* passwords the customer sent
  spent         \* faults so far

rowVars      == <<status, error>>
stateVars    == <<latest, clock>>
deliveryVars == <<queue, process, msg, held>>
ghostVars    == <<failures, submitted>>
claimVars    == <<claim, claims>>
vars == <<rowVars, stateVars, deliveryVars, events, pc, draft, claimVars, ghostVars, spent>>
-----------------------------------------------------------------------------
Message == [action : {"ingest", "provide_password"}, password : Passwords \cup {None}]

Row == [password : Passwords \cup {None}, attempts : Nat, updated_at : Nat]

Unstamped(password, attempts) ==
  [password |-> password, attempts |-> attempts, updated_at |-> 0]

\* PasswordStateRepository.get, when the job has no row.
NoState == Unstamped(None, 0)

First == [action |-> "ingest", password |-> None]

\* What an extraction tells job-service, by the step of its handler.  (ErrorForStatus has
\* the two arguments of transition the wrong way round.)
Outcome(to, why) == [status |-> to, error |-> why]

ErrorForStatus ==
  [ ask |-> Outcome("none", NEEDS_PASSWORD), give_up |-> Outcome("password_unavailable", FAILED),
    done |-> Outcome("none", COMPLETED), fail |-> Outcome("other", FAILED) ]

Outcomes ==
  [ ask |-> Outcome(NEEDS_PASSWORD, "none"), give_up |-> Outcome(FAILED, "password_unavailable"),
    done |-> Outcome(COMPLETED, "none"), fail |-> Outcome(FAILED, "other") ]

Event == [claim : Nat, status : {NEEDS_PASSWORD, COMPLETED, FAILED},
          error : {"none", "password_unavailable", "other"}]

Adding   == {"count", "read_attempts", "stamp_attempts", "append_attempts"}
Working  == {"look_up", "extract"} \cup Adding \cup DOMAIN Outcomes
InIngest == {"claim", "leave"} \cup Working
Appending == {"append_password", "append_attempts"}
Setting  == {"read_password", "stamp_password", "append_password", "send_ingest"}
Steps    == {"idle", "ack"} \cup InIngest \cup Setting

Init ==
  /\ status = CREATED /\ error = "none"
  /\ latest = NoState /\ clock = 0
  /\ queue = [m \in Message |-> IF m = First THEN 1 ELSE 0] /\ events = {}
  /\ pc = [h \in Handlers |-> "idle"] /\ process = [h \in Handlers |-> Nowhere]
  /\ msg = [h \in Handlers |-> First] /\ held = {}
  /\ draft = [h \in Handlers |-> NoState]
  /\ claim = [h \in Handlers |-> 0] /\ claims = 0
  /\ failures = 0 /\ submitted = 0 /\ spent = [f \in Faults |-> 0]

At(h, step) == pc[h] = step
Goto(h, step) == pc' = [pc EXCEPT ![h] = step]
Put(m) == queue' = [queue EXCEPT ![m] = @ + 1]

Spend(f) ==
  /\ spent["redelivery"] + spent["repeat"] + spent["crash"] < MaxFaults
  /\ spent' = [spent EXCEPT ![f] = @ + 1]

\* The locals of the handlers that ended, and their messages, are gone.
Ends(ended) ==
  /\ pc' = [h \in Handlers |-> IF h \in ended THEN "idle" ELSE pc[h]]
  /\ process' = [h \in Handlers |-> IF h \in ended THEN Nowhere ELSE process[h]]
  /\ msg' = [h \in Handlers |-> IF h \in ended THEN First ELSE msg[h]]
  /\ draft' = [h \in Handlers |-> IF h \in ended THEN NoState ELSE draft[h]]
  /\ claim' = [h \in Handlers |-> IF h \in ended THEN 0 ELSE claim[h]]
  /\ held' = held \ ended
-----------------------------------------------------------------------------
\* POST /jobs/:id/password, for a job that waits for one.
Submits(password) ==
  /\ status = NEEDS_PASSWORD /\ submitted < MaxSubmissions
  /\ Put([action |-> "provide_password", password |-> password])
  /\ submitted' = submitted + 1
  /\ UNCHANGED <<rowVars, stateVars, process, msg, held, events, pc, draft, claimVars, failures, spent>>

(***************************************************************************)
(* Delivery.  activeIngests turns an ingest away, for good, while another  *)
(* handler of the process is ingesting the job.                            *)
(***************************************************************************)
IngestActive(p) == \E h \in Handlers : process[h] = p /\ pc[h] \in InIngest

FirstStep(p, m) ==
  IF m.action = "provide_password" THEN "read_password"
  ELSE IF IngestActive(p) THEN "ack" ELSE "claim"

Receives(h, p, m) ==
  /\ At(h, "idle") /\ queue[m] > 0
  /\ queue' = [queue EXCEPT ![m] = @ - 1]
  /\ process' = [process EXCEPT ![h] = p] /\ msg' = [msg EXCEPT ![h] = m]
  /\ held' = held \cup {h}
  /\ Goto(h, FirstStep(p, m))
  /\ UNCHANGED <<rowVars, stateVars, events, draft, claimVars, ghostVars, spent>>

NeverAcks(h) ==
  /\ At(h, "ack") /\ Ends({h})
  /\ IF h \in held THEN Put(msg[h]) ELSE UNCHANGED queue
  /\ UNCHANGED <<rowVars, stateVars, events, claims, ghostVars, spent>>

Acks(h) ==
  /\ At(h, "ack") /\ Ends({h})
  /\ UNCHANGED <<rowVars, stateVars, queue, events, claims, ghostVars, spent>>

\* The lease runs out under a handler: the message is delivered again.
Redelivers(h) ==
  /\ h \in held /\ Spend("redelivery")
  /\ Put(msg[h]) /\ held' = held \ {h}
  /\ UNCHANGED <<rowVars, stateVars, process, msg, events, pc, draft, claimVars, ghostVars>>

Crashes(p) ==
  LET dead == {h \in Handlers : process[h] = p}
  IN  /\ dead # {}
      /\ Spend("crash")
      /\ queue' = [m \in Message |-> queue[m] + Cardinality({h \in dead \cap held : msg[h] = m})]
      /\ Ends(dead)
      /\ UNCHANGED <<rowVars, stateVars, events, claims, ghostVars>>
-----------------------------------------------------------------------------
(***************************************************************************)
(* handleIngest: claim the job, then try to extract the archive with the   *)
(* password of the message or, when it has none, the one that is stored.   *)
(***************************************************************************)
AlsoWhileIngesting == {CREATED, NEEDS_PASSWORD, INGESTING}
Claimable == {CREATED, NEEDS_PASSWORD}

Claims(h) ==
  /\ At(h, "claim")
  /\ \/ /\ status \in Claimable
        /\ status' = INGESTING /\ claims' = claims + 1
        /\ claim' = [claim EXCEPT ![h] = claims + 1]
        /\ Goto(h, "look_up")
     \/ /\ status \notin Claimable
        /\ Goto(h, "leave") /\ UNCHANGED <<status, claimVars>>
  /\ UNCHANGED <<error, stateVars, deliveryVars, events, draft, ghostVars, spent>>

LooksUpPassword(h) ==
  /\ At(h, "look_up")
  /\ draft' = [draft EXCEPT ![h] = Unstamped(IF msg[h].password # None THEN msg[h].password
                                                                    ELSE latest.password, 0)]
  /\ Goto(h, "extract")
  /\ UNCHANGED <<rowVars, stateVars, deliveryVars, events, claimVars, ghostVars, spent>>

\* Only the right password opens the archive; any extraction may fail for a reason of
\* its own (a bomb, no entries, time), or with an error in whose text handleArchiveError
\* finds the word "password" or "encrypted".
Extracts(h) ==
  /\ At(h, "extract")
  /\ \/ draft[h].password = Right /\ Goto(h, "done") /\ UNCHANGED failures
     \/ Goto(h, "fail") /\ UNCHANGED failures
     \/ Goto(h, "count") /\ failures' = failures + 1
  /\ draft' = [draft EXCEPT ![h] = NoState]
  /\ UNCHANGED <<rowVars, stateVars, deliveryVars, events, claimVars, submitted, spent>>

\* handleIngestError, for a PasswordError.
ExhaustedEarly == latest.attempts + 1 >= MaxAttempts
Exhausted == latest.attempts >= MaxAttempts

SilentlyGivesUp(h) ==
  /\ At(h, "count")
  /\ Goto(h, IF Exhausted THEN "leave" ELSE "read_attempts")
  /\ UNCHANGED <<rowVars, stateVars, deliveryVars, events, draft, claimVars, ghostVars, spent>>

CountsAttempts(h) ==
  /\ At(h, "count")
  /\ Goto(h, IF Exhausted THEN "give_up" ELSE "read_attempts")
  /\ UNCHANGED <<rowVars, stateVars, deliveryVars, events, draft, claimVars, ghostVars, spent>>

\* publishEvent; the handler is active until the call returns.
Publishes(h) ==
  /\ pc[h] \in DOMAIN Outcomes
  /\ events' = events \cup {[claim |-> claim[h], status |-> Outcomes[pc[h]].status,
                             error |-> Outcomes[pc[h]].error]}
  /\ Goto(h, "leave")
  /\ UNCHANGED <<rowVars, stateVars, deliveryVars, draft, claimVars, ghostVars, spent>>

Leaves(h) ==
  /\ At(h, "leave") /\ Goto(h, "ack")
  /\ UNCHANGED <<rowVars, stateVars, deliveryVars, events, draft, claimVars, ghostVars, spent>>
-----------------------------------------------------------------------------
(***************************************************************************)
(* setPassword (of handlePassword) and incrementAttempts: the latest row   *)
(* is read, the time is taken, a row is appended.                          *)
(***************************************************************************)
ReadsState(h) ==
  /\ \/ /\ At(h, "read_password") /\ Goto(h, "stamp_password")
        /\ draft' = [draft EXCEPT ![h] = Unstamped(msg[h].password, latest.attempts)]
     \/ /\ At(h, "read_attempts") /\ Goto(h, "stamp_attempts")
        /\ draft' = [draft EXCEPT ![h] = Unstamped(latest.password, latest.attempts + 1)]
  /\ UNCHANGED <<rowVars, stateVars, deliveryVars, events, claimVars, ghostVars, spent>>

TakesTime(h) ==
  /\ \/ At(h, "stamp_password") /\ Goto(h, "append_password")
     \/ At(h, "stamp_attempts") /\ Goto(h, "append_attempts")
  /\ clock' = clock + 1
  /\ draft' = [draft EXCEPT ![h].updated_at = clock + 1]
  /\ UNCHANGED <<rowVars, latest, deliveryVars, events, claimVars, ghostVars, spent>>

AppendsRow(h) ==
  /\ \/ At(h, "append_password") /\ Goto(h, "send_ingest")
     \/ At(h, "append_attempts") /\ Goto(h, "ask")
  /\ LET row == IF draft[h].updated_at > latest.updated_at THEN draft[h] ELSE latest
     IN  IF \E g \in Handlers \ {h} : pc[g] \in Appending
         THEN latest' = row /\ UNCHANGED clock
         ELSE latest' = [row EXCEPT !.updated_at = 0] /\ clock' = 0
  /\ draft' = [draft EXCEPT ![h].updated_at = 0]
  /\ UNCHANGED <<rowVars, deliveryVars, events, claimVars, ghostVars, spent>>

SendsIngest(h) ==
  /\ At(h, "send_ingest") /\ Goto(h, "ack")
  /\ Put([action |-> "ingest", password |-> msg[h].password])
  /\ UNCHANGED <<rowVars, stateVars, process, msg, held, events, draft, claimVars, ghostVars, spent>>
-----------------------------------------------------------------------------
(***************************************************************************)
(* job-service.  An event for a terminal job, or of the status it has, is  *)
(* dropped; one that the table does not allow stays and comes again.       *)
(***************************************************************************)
OnStatusChanged(e) ==
  \/ (IsTerminal(status) \/ status = e.status) /\ UNCHANGED rowVars
  \/ /\ ~IsTerminal(status) /\ e.status \in ValidTransitions[status]
     /\ status' = e.status
     /\ error' = IF e.error # "none" THEN e.error ELSE error

Applies(e) ==
  /\ e \in events
  /\ OnStatusChanged(e)
  /\ events' = events \ {e}
  /\ UNCHANGED <<stateVars, deliveryVars, pc, draft, claimVars, ghostVars, spent>>

\* An event that is delivered again later.
AppliesAndRepeats(e) ==
  /\ e \in events
  /\ OnStatusChanged(e)
  /\ Spend("repeat")
  /\ UNCHANGED <<stateVars, deliveryVars, events, pc, draft, claimVars, ghostVars>>
-----------------------------------------------------------------------------
HandlerStep(h) ==
  \/ Acks(h) \/ Claims(h) \/ LooksUpPassword(h) \/ Extracts(h) \/ CountsAttempts(h)
  \/ Publishes(h) \/ Leaves(h) \/ ReadsState(h) \/ TakesTime(h) \/ AppendsRow(h) \/ SendsIngest(h)

Next ==
  \/ \E password \in Passwords : Submits(password)
  \/ \E h \in Handlers :
       HandlerStep(h) \/ Redelivers(h) \/ \E p \in Processes, m \in Message : Receives(h, p, m)
  \/ \E e \in events : Applies(e) \/ AppliesAndRepeats(e)
  \/ \E p \in Processes : Crashes(p)

Spec == Init /\ [][Next]_vars

\* Handlers that run go on, and job-service polls for ever.
FairSpec ==
  /\ Spec
  /\ \A h \in Handlers : WF_vars(HandlerStep(h))
  /\ WF_vars(\E e \in events : Applies(e))
-----------------------------------------------------------------------------
TypeOK ==
  /\ status \in JobStatuses /\ error \in {"none", "password_unavailable", "other"}
  /\ latest \in Row /\ clock \in Nat
  /\ queue \in [Message -> Nat] /\ events \subseteq Event
  /\ pc \in [Handlers -> Steps] /\ process \in [Handlers -> Processes \cup {Nowhere}]
  /\ msg \in [Handlers -> Message] /\ held \subseteq Handlers
  /\ draft \in [Handlers -> Row] /\ claim \in [Handlers -> Nat] /\ claims \in Nat
  /\ failures \in Nat /\ submitted \in Nat /\ spent \in [Faults -> Nat]

\* A job is failed as password_unavailable (IngestServiceHandler.ts:415) only after more
\* than ARCHIVE_PASSWORD_MAX_ATTEMPTS extractions of it failed, the first one without a
\* password among them: however the rows of the counter overwrite one another, whichever
\* messages and events come twice and whoever dies.
NotFailedEarly == error = "password_unavailable" => failures > MaxAttempts

\* An archive is extracted by one handler at a time, whatever is delivered twice and whoever
\* dies, as long as job-service gets each event once (compare-and-set of handleIngest).
OneExtraction ==
  spent["repeat"] = 0 =>
    \A g, h \in Handlers : pc[g] \in Working /\ pc[h] \in Working => g = h

\* Without redeliveries and deaths a job uses up no attempt but for a password its customer
\* sent, and the first one: a submission never leads to two extractions.
EachTryIsAsked ==
  spent["redelivery"] = 0 /\ spent["crash"] = 0 => failures <= 1 + submitted

\* A job that is being ingested gets its answer: it asks for a password, or ends, unless
\* the process that ingests it dies.
AnswerComes == status = INGESTING ~> status # INGESTING \/ spent["crash"] > 0
=============================================================================
