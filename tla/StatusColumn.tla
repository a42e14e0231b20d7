---------------------------- MODULE StatusColumn ----------------------------
(***************************************************************************)
(* What the pipeline promises about the status column, whatever the        *)
(* services, queues and users do to it concurrently: a row is inserted     *)
(* once, and from then on its status moves along one edge of               *)
(* VALID_TRANSITIONS at a time.  Two writes are not in the table and are   *)
(* stated as actions of their own: ingest resuming a job that waited for a *)
(* password, and the unconditional write of the force-fail endpoint.       *)
(*                                                                         *)
(* Module Pipeline implements this specification: its compare-and-set      *)
(* protocol, its stale reads and its redeliveries are invisible here.      *)
(***************************************************************************)
EXTENDS JobStatus

CONSTANT Jobs

VARIABLE status

ColumnTypeOK == status \in [Jobs -> ColumnValues]

Init == status = [j \in Jobs |-> NoRow]

Insert(j) ==
  /\ status[j] = NoRow
  /\ status' = [status EXCEPT ![j] = CREATED]

Advance(j) ==
  \E s \in ValidTransitions[status[j]] : status' = [status EXCEPT ![j] = s]

\* tryTransitionStatus(INGESTING, [CREATED, NEEDS_PASSWORD]) of handleIngest:
\* the edge NEEDS_PASSWORD -> INGESTING is in no table.
ResumeWithPassword(j) ==
  /\ status[j] = NEEDS_PASSWORD
  /\ status' = [status EXCEPT ![j] = INGESTING]

\* JobRepository.markFailed writes the row whatever its status is.
ForceFail(j) ==
  /\ status[j] # NoRow
  /\ status' = [status EXCEPT ![j] = ForceFailed]

Next ==
  \E j \in Jobs :
    Insert(j) \/ Advance(j) \/ ResumeWithPassword(j) \/ ForceFail(j)

Spec == Init /\ [][Next]_status
=============================================================================
