----------------------------- MODULE AiAnswers -----------------------------
(***************************************************************************)
(* What AiClassifierServiceImpl makes of the answers of the model: of a    *)
(* mapping of header columns, of headers inferred from sample lines, of    *)
(* aliases.  An answer is <<>> when the call failed, timed out or was no   *)
(* JSON object; columns count from 1 here, and 0 is a negative index.      *)
(***************************************************************************)
EXTENDS FieldKeys

CONSTANTS
  Denied,     \* labels that DENYLISTED_HEADER_RE matches
  Unnamed     \* Unnamed[i]: the label "col_<i>" of a column without one

\* The columns of a header line: the split with the most parts, the earlier
\* delimiter of two.
HeaderLabels(line) ==
  LET parts(i) == Split(line, {Delimiters[i]})
      best == CHOOSE i \in 1..4 : \A k \in 1..4 :
                Len(parts(i)) > Len(parts(k)) \/ (Len(parts(i)) = Len(parts(k)) /\ i <= k)
  IN  parts(best)

Denies(label) == Len(label) = 1 /\ label[1] \in Denied

\* mapHeaderColumns: fields of the job only, no field with an index that is none,
\* no column whose label is denied; nothing keeps two fields from one column, or a
\* column past the last label.
MapHeaderColumns(spec, line, answer) ==
  LET labels  == HeaderLabels(line)
      usable(i) == i \in DOMAIN labels => ~Denies(labels[i])
      columns(f) == IF f \in DOMAIN answer[1] /\ 0 \notin ToSet(answer[1][f])
                    THEN SelectSeq(answer[1][f], usable) ELSE <<>>
  IN  IF answer = <<>> THEN <<>> ELSE <<[f \in ToSet(spec) |-> columns(f)]>>

\* inferHeadersFromSample: one of up to three answers is taken, the first that has
\* headers and places a field of the job.
InferHeaders(spec, answers) ==
  LET map(a) == [f \in ToSet(spec) |->
                   IF f \in DOMAIN a.map THEN SelectSeq(a.map[f], LAMBDA i : i \in DOMAIN a.headers)
                   ELSE <<>>]
      usable(a) == /\ a # <<>> /\ a[1].headers # <<>>
                   /\ spec # <<>> => \E f \in ToSet(spec) : map(a[1])[f] # <<>>
      taken == FirstWhere(SubSeq(answers, 1, Min({3, Len(answers)})), usable)
      label(h, i) == IF Blank(h[i]) THEN <<Unnamed[i]>> ELSE h[i]
  IN  IF taken = <<>> THEN <<>>
      ELSE LET a == taken[1][1]
           IN  <<[ names |-> [i \in DOMAIN a.headers |-> label(a.headers, i)], map |-> map(a) ]>>

\* resolveFieldAliases: blank names go, components count from two on.
ResolvedAliases(fields, answer) ==
  [f \in fields |->
     IF answer = <<>> \/ f \notin DOMAIN answer[1].aliases THEN <<>>
     ELSE SelectSeq(answer[1].aliases[f], LAMBDA a : a # <<>>)]

ResolvedParts(fields, answer) ==
  [f \in fields |->
     LET parts == IF answer = <<>> \/ f \notin DOMAIN answer[1].composites THEN <<>>
                  ELSE SelectSeq(answer[1].composites[f], LAMBDA a : a # <<>>)
     IN  IF Len(parts) > 1 THEN parts ELSE <<>>]
=============================================================================
