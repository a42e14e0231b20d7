---------------------------- MODULE MCQueuePool ----------------------------
(***************************************************************************)
(* A pool and a push server over one queue, a message and one that *)
(* cannot be parsed.                                                       *)
(***************************************************************************)
EXTENDS QueuePool

MCReceipts == [p \in Consumers |-> IF p \in Pools THEN {"first", "again"} ELSE {"PUSH"}]
MCTries == [x \in Messages |-> IF x \in Poison THEN 1 ELSE 2]
=============================================================================
