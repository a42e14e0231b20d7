--------------------------- MODULE MCRowDelivery ---------------------------
(***************************************************************************)
(* Jobs of two parts whose lines are mixed, with a line of two records, a  *)
(* line that is dead and a row without a line; and a job without parts.    *)
(***************************************************************************)
EXTENDS RowDelivery, TLC

Parsed(offset, index, line) == [offset |-> offset, index |-> index, line |-> line]
Dead(offset, line) == [offset |-> offset, line |-> line]

MCParts ==
  {<<>>,
   "a" :> <<Parsed(40, 0, 5), Parsed(40, 1, 5)>> @@ "b" :> <<Parsed(20, 0, 3), Parsed(0, 0, 1)>>,
   "a" :> <<Parsed(20, 0, 3), Parsed(40, 0, 5)>> @@ "b" :> <<Parsed(0, 0, 1)>>,
   "a" :> <<Parsed(30, 0, 0), Parsed(10, 0, 2)>> @@ "b" :> <<>>}

MCJobs ==
  [parts : MCParts, deadLetters : {{}, {Dead(10, 2), Dead(30, 4)}}, isJson : BOOLEAN]
=============================================================================
