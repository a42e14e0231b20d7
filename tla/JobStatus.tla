----------------------------- MODULE JobStatus -----------------------------
(***************************************************************************)
(* The status column of a parse_jobs row: the JobStatus enumeration, the   *)
(* transition table VALID_TRANSITIONS and the terminal statuses of         *)
(* shared/models/job.ts.  Constant-level only; every module that has a     *)
(* status column extends this one.                                         *)
(***************************************************************************)

CREATED            == "Created"
INGESTING          == "Ingesting"
NEEDS_PASSWORD     == "Needs Password"
DETECTING          == "Detecting"
PARSING            == "Parsing"
MERGING_OUTPUT     == "Merging Output"
SAVING_TO_DATABASE == "Saving to Database"
REPORTING          == "Reporting"
COMPLETED          == "Completed"
PARTIAL            == "Partial"
ON_HOLD            == "On Hold"
FAILED             == "Failed"

JobStatuses ==
  { CREATED, INGESTING, NEEDS_PASSWORD, DETECTING, PARSING, MERGING_OUTPUT,
    SAVING_TO_DATABASE, REPORTING, COMPLETED, PARTIAL, ON_HOLD, FAILED }

(***************************************************************************)
(* What the column can hold besides an enumerator: nothing, before the row *)
(* is inserted, and the raw string that JobRepository.markFailed writes,   *)
(* which is not the enumerator FAILED.                                     *)
(***************************************************************************)
NoRow       == "no row"
ForceFailed == "failed"

ColumnValues == JobStatuses \cup {NoRow, ForceFailed}

(***************************************************************************)
(* VALID_TRANSITIONS[s].  A value outside the enumeration has no entry in  *)
(* the table, so `VALID_TRANSITIONS[current]?.includes(x)' is never true.  *)
(***************************************************************************)
ValidTransitions ==
  [ s \in ColumnValues |->
      CASE s = CREATED            -> {INGESTING, DETECTING, FAILED}
        [] s = INGESTING          -> {NEEDS_PASSWORD, DETECTING, COMPLETED, FAILED}
        [] s = NEEDS_PASSWORD     -> {DETECTING, FAILED}
        [] s = DETECTING          -> {DETECTING, PARSING, FAILED}
        [] s = PARSING            -> {MERGING_OUTPUT, FAILED}
        [] s = MERGING_OUTPUT     -> {SAVING_TO_DATABASE, ON_HOLD, FAILED}
        [] s = SAVING_TO_DATABASE -> {REPORTING, FAILED}
        [] s = REPORTING          -> {COMPLETED, PARTIAL, FAILED}
        [] s = ON_HOLD            -> {SAVING_TO_DATABASE, FAILED}
        [] s = FAILED             -> {INGESTING, DETECTING, PARSING,
                                      SAVING_TO_DATABASE, REPORTING}
        [] OTHER                  -> {} ]

TerminalStatuses == {COMPLETED, PARTIAL, ON_HOLD, FAILED}

IsTerminal(s) == s \in TerminalStatuses
=============================================================================
