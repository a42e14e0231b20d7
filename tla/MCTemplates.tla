---------------------------- MODULE MCTemplates ----------------------------
(***************************************************************************)
(* A parser and a prober over three lines: a full row, a shorter row of    *)
(* the same shape with a blank cell, which a template of the full row      *)
(* reads, and a JSON line.                                                 *)
(***************************************************************************)
EXTENDS Templates

MCShape == [l \in Lines |-> IF l = "json" THEN "json" ELSE "csv"]
MCLength == [l \in Lines |-> IF l = "gap" THEN 1 ELSE 2]
MCReads == [l \in Lines |-> IF l = "row" THEN {"row", "gap"} ELSE {l}]
=============================================================================
