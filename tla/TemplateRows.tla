---------------------------- MODULE TemplateRows ----------------------------
(***************************************************************************)
(* Records by a learned template: extractLine, and the choice among the    *)
(* templates that fit a line.  A template is [id, structure, delim, hint,  *)
(* locators]; locators[f] is <<>> or one locator:                          *)
(*   [kind |-> "index", arg |-> i]   cell i of the line                    *)
(*   [kind |-> "key", arg |-> k]     the value of key k                    *)
(*   [kind |-> "regex", arg |-> S]   the first atom of the line in S       *)
(***************************************************************************)
EXTENDS CopyRows

\* parseStructure, in three shapes; of key-value text the last value of a key.
TemplateSegments(line) ==
  LET d == IF " - " \in ToSet(line) THEN {" - "} ELSE IF ";" \in ToSet(line) THEN {";"} ELSE {}
  IN  SelectSeq(Split(line, d), LAMBDA s : Len(s) >= 2 /\ s[2] \in {"=", ":"})

ValueOfKey(line, t, k) ==
  LET json == IF IsBlob(line) THEN SelectSeq(Blobs[line[1]], LAMBDA p : p.key = k) ELSE <<>>
      segs == SelectSeq(TemplateSegments(line), LAMBDA s : s[1] = k)
  IN  IF t.structure = "json" /\ json # <<>> THEN <<Last(json).value>>
      ELSE IF t.structure = "kv" /\ segs # <<>> THEN <<SubSeq(Last(segs), 3, Len(Last(segs)))>>
      ELSE <<>>

Structured(line, t) ==
  CASE t.structure = "json" -> IsBlob(line)
    [] t.structure = "kv"   -> TemplateSegments(line) # <<>>
    [] OTHER                -> TRUE

\* applyLocator: <<>> when it finds nothing, else the value, blank or not.
Located(line, t, locator) ==
  CASE locator.kind = "key"   -> ValueOfKey(line, t, locator.arg)
    [] locator.kind = "index" ->
         LET parts == Split(line, {t.delim})
         IN  IF t.structure = "csv" /\ locator.arg \in DOMAIN parts THEN <<parts[locator.arg]>> ELSE <<>>
    [] locator.kind = "regex" ->
         LET hit == FirstWhere(line, LAMBDA a : a \in locator.arg)
         IN  IF hit = <<>> THEN <<>> ELSE <<hit>>

ValuesBy(spec, line, t) ==
  [f \in ToSet(spec) |-> IF t.locators[f] = <<>> THEN <<>> ELSE Located(line, t, t.locators[f][1])]

Values(spec, found) == [f \in ToSet(spec) |-> IF found[f] = <<>> THEN <<>> ELSE found[f][1]]

Plausible(spec, value) ==
  LET strong == {f \in ToSet(spec) : IsStrong(f) /\ ~Blank(value[f])}
  IN  IF strong # {} /\ \A f \in strong : ~Validates(f, value[f]) THEN <<>> ELSE Record(value, <<>>)

ExtractFound(spec, found) ==
  IF \A f \in ToSet(spec) : found[f] = <<>> THEN <<>> ELSE Plausible(spec, Values(spec, found))

\* The row, unless nothing was found or strong values were and none is valid.
ExtractLine(spec, line, t) ==
  IF Structured(line, t) THEN ExtractFound(spec, ValuesBy(spec, line, t)) ELSE <<>>

\* scoreExtractedRow, in tenths: values count ten, blank ones one.
ScoreOf(spec, found) ==
  LET present == {f \in ToSet(spec) : found[f] # <<>>}
  IN  10 * Cardinality({f \in present : ~Blank(found[f][1])}) + Cardinality(present)

\* classifyViaLearnedRecordTemplates: the first of the templates that find most.
Scored(spec, line, templates) ==
  [k \in DOMAIN templates |->
     [ id     |-> templates[k].id,
       score  |-> ScoreOf(spec, ValuesBy(spec, line, templates[k])),
       record |-> IF Len(line) >= templates[k].hint THEN ExtractLine(spec, line, templates[k]) ELSE <<>> ]]

BestScored(scored) ==
  FirstWhere(scored, LAMBDA x : \A y \in ToSet(scored) : y.score <= x.score)

BestTemplate(spec, line, templates) ==
  BestScored(SelectSeq(Scored(spec, line, templates), LAMBDA x : x.record # <<>>))
=============================================================================
