----------------------------- MODULE MCPipeline -----------------------------
(***************************************************************************)
(* Model checking of Pipeline: one or two jobs, two handlers, and up to    *)
(* two faults or user calls, of the kinds each run is about.               *)
(***************************************************************************)
EXTENDS Pipeline, TLC

CONSTANTS j1, j2, w1, w2

\* The events of the JOB_EVENTS queue, which job-service consumes.
EventKinds ==
  { "job_status_changed", "error_occurred", "parsing_completed",
    "loading_completed", "reporting_completed" }

\* From the start, from the middle, and with nothing left but to load.
SomeRetryTargets == {INGESTING, PARSING, SAVING_TO_DATABASE}

WorkerSymmetry == Permutations(Workers)
Symmetry       == Permutations(Workers) \cup Permutations(Jobs)
=============================================================================
